----------------------------- MODULE LockStash -----------------------------
(***************************************************************************)
(* Funding one trade from a wallet that spends first and publishes second: *)
(* lockAndPublish of escrow-bridge.ts, the stash of pending-native-locks.ts *)
(* that remembers the notes in between, and the outbox of durable-money-   *)
(* publish.ts that sends the signed LOCK again until a relay has it.       *)
(*                                                                         *)
(* One device, whose browser runs one wallet (RuntimeLease).  Whatever     *)
(* works on the stash entry holds the trade's flow mutex: a funding, or a  *)
(* settle that decides from a fresh read of the relays whether the notes   *)
(* are the trade's or have to come back.  The outbox pass, the loads of    *)
(* the trade, late OK frames and the mint do not wait for that mutex.      *)
(*                                                                         *)
(* A LOCK is named by the notes it commits.  Rivals are LOCKs of the same  *)
(* trade from another device.  Every read may miss what the relays hold.   *)
(***************************************************************************)
EXTENDS Integers, FiniteSets, FiniteSetsExt

CONSTANTS
  MaxSpends,   \* bound: funding attempts that reach the mint
  Rivals,      \* LOCKs another device may publish
  Cancel,      \* the initiator's CANCEL
  MaxOthers,   \* bound: events of others, which are rival LOCKs and the CANCEL
  MaxAttempts, \* MAX_NATIVE_LOCK_DRAIN_ATTEMPTS
  MaxCrashes   \* bound: how often the page dies

ASSUME StashAssumption ==
  /\ {MaxSpends, MaxOthers, MaxAttempts, MaxCrashes} \subseteq Nat
  /\ IsFiniteSet(Rivals)
  /\ Cancel \notin Rivals /\ Cancel \notin Nat /\ Rivals \cap Nat = {}

Notes   == 1 .. MaxSpends     \* the notes of each spend, oldest first
NoNotes == 0
Locks   == Notes \cup Rivals

VARIABLES
  mint,    \* what the federation says of each spend
  aged,    \* notes past their try_cancel horizon: custody.liveUntil
  relay,   \* the LOCKs and the CANCEL some relay holds
  late,    \* the LOCKs dated after the CANCEL
  seen,    \* of these, the ones this client has in memory: rawEvents
  stash,   \* the trade's entry in localStorage
  outbox,  \* the journal of signed LOCKs in localStorage
  sent,    \* LOCKs this session sent: moneyPublishContext
  flow,    \* who holds the flow mutex, and how far it is
  drain,   \* the outbox pass that is running
  blind,   \* notes whose entry was dropped for a LOCK on no relay
  crashes

vars == <<mint, aged, relay, late, seen, stash, outbox, sent, flow, drain,
          blind, crashes>>

NoEntry    == [stage |-> "none", notes |-> NoNotes, tries |-> 0]
Intent     == [NoEntry EXCEPT !.stage = "intent"]
Flow(pc, why, notes, res, back) ==
  [pc |-> pc, why |-> why, notes |-> notes, res |-> res, back |-> back]
IdleFlow   == Flow("idle", "none", NoNotes, "none", "none")
IdleDrain  == [queue |-> {}, sending |-> NoNotes]
HasNotes   == stash.stage \in {"spent", "attempted"}
EmptyBox   == [n \in Notes |-> "none"]

Init ==
  /\ mint = [n \in Notes |-> "unspent"] /\ aged = {}
  /\ relay = {} /\ late = {} /\ seen = {}
  /\ stash = NoEntry /\ outbox = EmptyBox /\ sent = {}
  /\ flow = IdleFlow /\ drain = IdleDrain
  /\ blind = {} /\ crashes = 0

-----------------------------------------------------------------------------
(* Reading the trade *)

\* A CANCEL refuses the LOCKs dated after it.
Refused(R)  == {l \in R \cap Locks : Cancel \in R /\ l \in late}
Standing(R) == (R \cap Locks) \ Refused(R)

\* Two LOCKs, or a CANCEL after a LOCK, and the replay fails.
Readable(R) == /\ Cancel \in R => Standing(R) = {}
               /\ Cardinality(Standing(R)) <= 1

\* Status CREATED.
Fundable(R) == Cancel \notin R /\ Standing(R) = {}

Queued(box) == {n \in Notes : box[n] # "none"}
Newest(box) == IF Queued(box) = {} THEN NoNotes ELSE Max(Queued(box))

\* Mutant: any good read acknowledges.
AckedSlip(f) ==
  IF Newest(outbox) # NoNotes /\ outbox[Newest(outbox)] = "pending"
  THEN [outbox EXCEPT ![Newest(outbox)] = "none"] ELSE outbox

\* A read that brings the LOCK of the newest pending entry acknowledges it.
Acked(f) ==
  IF Newest(outbox) \in f /\ outbox[Newest(outbox)] = "pending"
  THEN [outbox EXCEPT ![Newest(outbox)] = "none"] ELSE outbox

\* loadEscrow: memory and answer together must replay; a failed load answers
\* null and changes nothing here.
Load(f) ==
  /\ f \subseteq relay /\ Readable(seen \cup f)
  /\ seen' = seen \cup f

\* What the overlay says of the LOCK after a load: a pending entry is not
\* shown while this session is sending it.
Custody(box) ==
  LET e == Newest(box)
  IN  IF e = NoNotes \/ (e = drain.sending /\ box[e] = "pending")
      THEN "acknowledged" ELSE box[e]

-----------------------------------------------------------------------------
(* The flow mutex *)

At(pc)         == flow.pc = pc
Go(pc)         == flow' = [flow EXCEPT !.pc = pc]
Spending       == Flow("spending", "none", NoNotes, "none", "none")
Settling(why)  == Flow("deciding", why, NoNotes, "none", "none")

\* lockAndPublish's catch: settle once more, if there is anything to settle.
Failed == flow' = IF HasNotes THEN Settling("fail") ELSE IdleFlow

\* The settle is over.  A funding that waited for it goes on, or is refused.
Settled(outcome) ==
  flow' = IF flow.why # "fund" \/ outcome = "committed" THEN IdleFlow
          ELSE IF outcome = "back" THEN Spending ELSE Settling("fail")

\* Settles but the boot drain's retire the trade's outbox entries.
Retired(box) == IF flow.why = "boot" THEN box ELSE EmptyBox

-----------------------------------------------------------------------------
(* Funding: lockAndPublishInner, one action per await *)

\* Mutant: a new funding does not settle the last one.
FundTapSlip ==
  /\ At("idle") /\ Fundable(seen)
  /\ flow' = Spending /\ stash' = Intent
  /\ UNCHANGED <<mint, aged, relay, late, seen, outbox, sent, drain, blind, crashes>>

\* prepareLockContext refuses a trade that is not open, and a settle comes
\* first when the entry holds notes.
FundTap ==
  /\ At("idle")
  /\ IF ~ Fundable(seen) THEN HasNotes /\ flow' = Settling("fail") /\ UNCHANGED stash
     ELSE IF HasNotes    THEN flow' = Settling("fund") /\ UNCHANGED stash
     ELSE flow' = Spending /\ stash' = Intent
  /\ UNCHANGED <<mint, aged, relay, late, seen, outbox, sent, drain, blind, crashes>>

\* The federation issues the notes, and its answer is under way.
SpendAtMint(n) ==
  /\ At("spending") /\ mint[n] = "unspent" /\ \A m \in 1 .. n - 1 : mint[m] # "unspent"
  /\ mint' = [mint EXCEPT ![n] = "issued"]
  /\ flow' = Flow("returned", "none", n, "none", "none")
  /\ UNCHANGED <<aged, relay, late, seen, stash, outbox, sent, drain, blind, crashes>>

SpendFails ==
  /\ At("spending") /\ Failed
  /\ UNCHANGED <<mint, aged, relay, late, seen, stash, outbox, sent, drain, blind, crashes>>

\* onSpent writes the notes down in the same turn of the event loop; it throws
\* over other live notes.
OnSpent ==
  /\ At("returned")
  /\ IF HasNotes /\ stash.notes # flow.notes
     THEN Failed /\ UNCHANGED <<stash, mint>>
     ELSE /\ stash' = [stage |-> "spent", notes |-> flow.notes, tries |-> 0]
          /\ mint' = [mint EXCEPT ![flow.notes] = IF @ = "issued" THEN "out" ELSE @]
          /\ Go("checking")
  /\ UNCHANGED <<aged, relay, late, seen, outbox, sent, drain, blind, crashes>>

\* Mutant: a stage the recovery does not know.
CheckSlip ==
  /\ At("checking") /\ Fundable(seen)
  /\ stash' = [stash EXCEPT !.stage = "published"]
  /\ Go("signing")
  /\ UNCHANGED <<mint, aged, relay, late, seen, outbox, sent, drain, blind, crashes>>

\* The notes are of the trade's federation, the trade is still open and asks
\* for the same amount; else they come back.
CheckFails ==
  /\ At("checking") /\ Failed
  /\ UNCHANGED <<mint, aged, relay, late, seen, stash, outbox, sent, drain, blind, crashes>>

Check ==
  /\ At("checking") /\ Fundable(seen)
  /\ stash' = IF HasNotes THEN [stash EXCEPT !.stage = "attempted"] ELSE stash
  /\ Go("signing")
  /\ UNCHANGED <<mint, aged, relay, late, seen, outbox, sent, drain, blind, crashes>>

\* lockEscrow: the LOCK is signed and enters the outbox before it is sent.
Sign ==
  /\ At("signing")
  /\ outbox' = [outbox EXCEPT ![flow.notes] = "pending"]
  /\ sent' = sent \cup {flow.notes}
  /\ late' = IF Cancel \in relay THEN late \cup {flow.notes} ELSE late
  /\ Go("sending")
  /\ UNCHANGED <<mint, aged, relay, seen, stash, drain, blind, crashes>>

SignFails ==
  /\ At("signing") /\ Failed
  /\ UNCHANGED <<mint, aged, relay, late, seen, stash, outbox, sent, drain, blind, crashes>>

\* relayManager.publish: a relay has it and says so, or has it and nobody
\* hears, or has not got it.
Publish(n, has, acked) ==
  /\ acked => has
  /\ relay' = IF has THEN relay \cup {n} ELSE relay
  /\ outbox' = IF acked /\ outbox[n] = "pending"
               THEN [outbox EXCEPT ![n] = "none"] ELSE outbox

\* publishDurableMoney returns either way, and the LOCK is applied to memory
\* when the trade there is still open.
Send(has, acked) ==
  /\ At("sending")
  /\ Publish(flow.notes, has, acked)
  /\ IF Fundable(seen) THEN seen' = seen \cup {flow.notes} /\ Go("confirming")
                       ELSE Failed /\ UNCHANGED seen
  /\ UNCHANGED <<mint, aged, late, stash, sent, drain, blind, crashes>>

\* Notes whose entry goes for a LOCK that no relay holds.
Blindly(n) == blind' = IF n \in relay THEN blind ELSE blind \cup {n}

\* The last step of lockAndPublishInner: clear on a LOCK of ours that is
\* acknowledged, else settle.
Confirm(f) ==
  /\ At("confirming") /\ Load(f) /\ outbox' = Acked(f)
  /\ IF Standing(seen \cup f) = {flow.notes} /\ Custody(Acked(f)) = "acknowledged"
     THEN stash' = NoEntry /\ flow' = IdleFlow /\ Blindly(flow.notes)
     ELSE flow' = Settling("after") /\ UNCHANGED <<stash, blind>>
  /\ UNCHANGED <<mint, aged, relay, late, sent, drain, crashes>>

ConfirmFails ==
  /\ At("confirming") /\ flow' = Settling("after")
  /\ UNCHANGED <<mint, aged, relay, late, seen, stash, outbox, sent, drain, blind, crashes>>

-----------------------------------------------------------------------------
(* Settling: recoverPendingNativeLock *)

\* "boot": drainPendingNativeLocks.  "tap": every other settle.
StartSettle(why) ==
  /\ At("idle") /\ HasNotes
  /\ flow' = Settling(why)
  /\ UNCHANGED <<mint, aged, relay, late, seen, stash, outbox, sent, drain, blind, crashes>>

\* The wallet is on another federation, the budget is used up, the trade
\* cannot be read: keep the entry.
SettleKeeps ==
  /\ At("deciding") /\ Settled("kept")
  /\ UNCHANGED <<mint, aged, relay, late, seen, stash, outbox, sent, drain, blind, crashes>>

SettleReads(f) == /\ At("deciding") /\ Load(f)
                  /\ flow.why = "boot" => stash.tries < MaxAttempts

\* reabsorb counts the attempt and asks the mint.  What comes of the entry then:
\* an intent, if the trade can still be locked, or nothing; after a refused
\* LOCK nothing, and against measured credit only.
Restored(R) == IF Fundable(R) THEN "intent" ELSE "clear"

TakeBack(back) ==
  /\ stash' = [stash EXCEPT !.tries = IF @ < MaxAttempts THEN @ + 1 ELSE @]
  /\ flow' = Flow("redeeming", flow.why, NoNotes, "none", back)

\* Our LOCK stands.  It is the trade's, once a relay is known to have it.
SettleOwnLock(f) ==
  /\ SettleReads(f) /\ Standing(seen \cup f) = {stash.notes}
  /\ IF Custody(Acked(f)) \in {"pending", "expired"}
     THEN Settled("kept") /\ outbox' = Acked(f) /\ UNCHANGED <<stash, blind>>
     ELSE /\ stash' = NoEntry /\ Settled("committed") /\ outbox' = Retired(Acked(f))
          /\ Blindly(stash.notes)
  /\ UNCHANGED <<mint, aged, relay, late, sent, drain, crashes>>

\* Mutant: a read without a LOCK is proof enough.
SettleNoLockSlip(f) ==
  /\ SettleReads(f) /\ outbox' = Acked(f)
  /\ Standing(seen \cup f) # {stash.notes} /\ stash.notes \notin Refused(seen \cup f)
  /\ TakeBack(Restored(seen \cup f))
  /\ UNCHANGED <<mint, aged, relay, late, sent, drain, blind, crashes>>

\* Another LOCK stands, or the read shows no LOCK and ours was never attempted.
SettleNoLock(f) ==
  /\ SettleReads(f) /\ outbox' = Acked(f)
  /\ \/ Standing(seen \cup f) \notin {{}, {stash.notes}}
     \/ /\ Standing(seen \cup f) = {} /\ stash.notes \notin Refused(seen \cup f)
        /\ stash.stage = "spent"
  /\ TakeBack(Restored(seen \cup f))
  /\ UNCHANGED <<mint, aged, relay, late, sent, drain, blind, crashes>>

\* Our LOCK was refused: its notes come back against measured wallet credit.
SettleRefused(f) ==
  /\ SettleReads(f) /\ outbox' = Acked(f)
  /\ stash.notes \in Refused(seen \cup f)
  /\ TakeBack("credit")
  /\ UNCHANGED <<mint, aged, relay, late, sent, drain, blind, crashes>>

\* The read shows no LOCK, which says nothing once ours was attempted.
SettleWaits(f) ==
  /\ SettleReads(f) /\ outbox' = Acked(f)
  /\ Standing(seen \cup f) = {} /\ stash.notes \notin Refused(seen \cup f)
  /\ stash.stage = "attempted"
  /\ Settled("kept")
  /\ UNCHANGED <<mint, aged, relay, late, stash, sent, drain, blind, crashes>>

\* Notes nobody redeemed come back, and the answer may get lost on its way, or
\* read "already spent" because it is the answer to a retry.  Notes that are
\* gone are answered "already spent".
RedeemAtMint(res) ==
  /\ At("redeeming")
  /\ \/ mint[stash.notes] = "out" /\ mint' = [mint EXCEPT ![stash.notes] = "back"]
     \/ mint[stash.notes] # "out" /\ res # "ok" /\ UNCHANGED mint
     \/ res = "error" /\ UNCHANGED mint
  /\ flow' = Flow("redeemed", flow.why, NoNotes, res, flow.back)
  /\ UNCHANGED <<aged, relay, late, seen, stash, outbox, sent, drain, blind, crashes>>

\* Mutant: "already spent" also ends the refund of a refused LOCK.
AfterRedeemSlip ==
  /\ At("redeemed")
  /\ IF flow.res \in {"ok", "dead"}
     THEN /\ stash' = IF flow.why = "fund" \/ (flow.res = "ok" /\ flow.back = "intent")
                      THEN Intent ELSE NoEntry
          /\ Settled("back") /\ outbox' = Retired(outbox)
     ELSE Settled("kept") /\ UNCHANGED <<stash, outbox>>
  /\ UNCHANGED <<mint, aged, relay, late, seen, sent, drain, blind, crashes>>

\* The rest of reabsorb.
AfterRedeem ==
  /\ At("redeemed")
  /\ IF flow.res = "ok" \/ (flow.res = "dead" /\ flow.back # "credit")
     THEN /\ stash' = IF flow.why = "fund" \/ (flow.res = "ok" /\ flow.back = "intent")
                      THEN Intent ELSE NoEntry
          /\ Settled("back") /\ outbox' = Retired(outbox)
     ELSE Settled("kept") /\ UNCHANGED <<stash, outbox>>
  /\ UNCHANGED <<mint, aged, relay, late, seen, sent, drain, blind, crashes>>

-----------------------------------------------------------------------------
(* The outbox *)

\* drainDurableMoneyPublishes: entries past the horizon are set aside, the
\* others are offered again, one after the other, from the list read here.
DrainStarts ==
  /\ drain = IdleDrain /\ Queued(outbox) # {}
  /\ outbox' = [n \in Notes |-> IF outbox[n] = "pending" /\ n \in aged THEN "expired" ELSE outbox[n]]
  /\ drain' = [IdleDrain EXCEPT !.queue = {n \in Notes : outbox'[n] = "pending"}]
  /\ UNCHANGED <<mint, aged, relay, late, seen, stash, sent, flow, blind, crashes>>

\* The next of them, unless the funding is just sending it.
DrainNext(n) ==
  /\ drain.sending = NoNotes /\ n \in drain.queue /\ \A m \in drain.queue : n <= m
  /\ LET own == At("sending") /\ flow.notes = n
     IN  /\ drain' = [queue |-> drain.queue \ {n}, sending |-> IF own THEN NoNotes ELSE n]
         /\ sent' = IF own THEN sent ELSE sent \cup {n}
  /\ UNCHANGED <<mint, aged, relay, late, seen, stash, outbox, flow, blind, crashes>>

DrainSends(has, acked) ==
  /\ drain.sending # NoNotes
  /\ Publish(drain.sending, has, acked)
  /\ drain' = [drain EXCEPT !.sending = NoNotes]
  /\ UNCHANGED <<mint, aged, late, seen, stash, sent, flow, blind, crashes>>

\* handleMoneyPublishOk: a relay's OK after the publish gave up on it.
LateOk(n) ==
  /\ n \in sent \cap relay /\ outbox[n] = "pending"
  /\ outbox' = [outbox EXCEPT ![n] = "none"]
  /\ UNCHANGED <<mint, aged, relay, late, seen, stash, sent, flow, drain, blind, crashes>>

\* The trade is opened, or polled: loadEscrow outside every flow.
OpenTrade(f) ==
  /\ Load(f) /\ outbox' = Acked(f)
  /\ UNCHANGED <<mint, aged, relay, late, stash, sent, flow, drain, blind, crashes>>

-----------------------------------------------------------------------------
(* The rest of the world *)

\* The invoice expired or was given up, or the intent is two days old:
\* clearPendingNativeLockIfIntent.
DropIntent ==
  /\ At("idle") /\ stash.stage = "intent" /\ stash' = NoEntry
  /\ UNCHANGED <<mint, aged, relay, late, seen, outbox, sent, flow, drain, blind, crashes>>

\* The page dies.  What is on its way may still arrive.
Crash ==
  /\ crashes < MaxCrashes /\ crashes' = crashes + 1
  /\ \E s \in SUBSET ({drain.sending, IF At("sending") THEN flow.notes ELSE NoNotes} \ {NoNotes}) :
       relay' = relay \cup s
  /\ flow' = IdleFlow /\ drain' = IdleDrain /\ seen' = {} /\ sent' = {}
  /\ UNCHANGED <<mint, aged, late, stash, outbox, blind>>

OthersLeft == Cardinality(relay \ Notes) < MaxOthers

RivalLock(l) ==
  /\ OthersLeft /\ l \notin relay /\ relay' = relay \cup {l}
  /\ late' = IF Cancel \in relay THEN late \cup {l} ELSE late
  /\ UNCHANGED <<mint, aged, seen, stash, outbox, sent, flow, drain, blind, crashes>>

CancelTrade ==
  /\ OthersLeft /\ Cancel \notin relay /\ relay' = relay \cup {Cancel}
  /\ UNCHANGED <<mint, aged, late, seen, stash, outbox, sent, flow, drain, blind, crashes>>

\* LOCK_SPEND_TRY_CANCEL_SECS after the spend the wallet takes back what
\* nobody redeemed.  The oldest notes get there first.
Age(n) ==
  /\ mint[n] # "unspent" /\ n \notin aged /\ 1 .. n - 1 \subseteq aged
  /\ aged' = aged \cup {n}
  /\ UNCHANGED <<mint, relay, late, seen, stash, outbox, sent, flow, drain, blind, crashes>>

AutoRefund(n) ==
  /\ n \in aged /\ mint[n] \in {"issued", "out"}
  /\ mint' = [mint EXCEPT ![n] = "back"]
  /\ UNCHANGED <<aged, relay, late, seen, stash, outbox, sent, flow, drain, blind, crashes>>

\* The trade is decided and the winner redeems the notes of a LOCK he read.
WinnerClaims(n) ==
  /\ n \in relay /\ mint[n] = "out"
  /\ mint' = [mint EXCEPT ![n] = "claimed"]
  /\ UNCHANGED <<aged, relay, late, seen, stash, outbox, sent, flow, drain, blind, crashes>>

-----------------------------------------------------------------------------

FundStep ==
  \/ FundTap \/ SpendFails \/ OnSpent \/ CheckFails \/ Check
  \/ Sign \/ SignFails \/ ConfirmFails
  \/ \E n \in Notes : SpendAtMint(n)
  \/ \E has, acked \in BOOLEAN : Send(has, acked)
  \/ \E f \in SUBSET relay : Confirm(f)

SettleStep ==
  \/ \E why \in {"boot", "tap"} : StartSettle(why)
  \/ SettleKeeps \/ AfterRedeem
  \/ \E f \in SUBSET relay : SettleOwnLock(f) \/ SettleNoLock(f) \/ SettleRefused(f) \/ SettleWaits(f)
  \/ \E res \in {"ok", "dead", "error"} : RedeemAtMint(res)

OutboxStep ==
  \/ DrainStarts
  \/ \E has, acked \in BOOLEAN : DrainSends(has, acked)
  \/ \E n \in Notes : DrainNext(n) \/ LateOk(n)
  \/ \E f \in SUBSET relay : OpenTrade(f)

WorldStep ==
  \/ DropIntent \/ Crash \/ CancelTrade
  \/ \E l \in Rivals : RivalLock(l)
  \/ \E n \in Notes : Age(n) \/ AutoRefund(n) \/ WinnerClaims(n)

Next == FundStep \/ SettleStep \/ OutboxStep \/ WorldStep

Spec == Init /\ [][Next]_vars

-----------------------------------------------------------------------------
(* What it all is for *)

TypeOK ==
  /\ mint \in [Notes -> {"unspent", "issued", "out", "back", "claimed"}]
  /\ aged \subseteq Notes /\ sent \subseteq Notes /\ blind \subseteq Notes
  /\ relay \subseteq Locks \cup {Cancel} /\ seen \subseteq Locks \cup {Cancel}
  /\ late \subseteq Locks
  /\ stash \in [stage : {"none", "intent", "spent", "attempted"},
                notes : Notes \cup {NoNotes}, tries : 0 .. MaxAttempts]
  /\ outbox \in [Notes -> {"none", "pending", "expired"}]
  /\ flow \in [pc : {"idle", "spending", "returned", "checking", "signing", "sending",
                     "confirming", "deciding", "redeeming", "redeemed"},
               why : {"none", "boot", "tap", "fund", "fail", "after"},
               notes : Notes \cup {NoNotes}, res : {"none", "ok", "dead", "error"},
               back : {"none", "intent", "clear", "credit"}]
  /\ drain \in [queue : SUBSET Notes, sending : Notes \cup {NoNotes}]
  /\ crashes \in 0 .. MaxCrashes

\* No other LOCK competes with this one: neither another device's nor a second
\* one of ours, which a funding that missed the first on the relays makes.
Alone(n) == relay \cap Locks \subseteq {n}

\* No LOCK that can still be read as funded stands on a relay while its notes
\* are home again, before the horizon both sides know of.
NoHollowLock ==
  \A n \in Notes \cap relay : mint[n] = "back" /\ Alone(n) => n \in aged \cup late

\* Bearer notes are written down or published.
NotesAccounted ==
  \A n \in Notes : mint[n] = "out" =>
    stash.notes = n \/ n \in relay \/ n \in blind

\* A LOCK this client shows as the trade's, and no relay has, is still going
\* to be sent.
OutboxHoldsUnsent ==
  \A n \in Notes \cap seen : mint[n] = "out" =>
    n \in relay \/ outbox[n] # "none" \/ n \in blind

\* "The wallet is whole, entry cleared": an entry dropped because the mint
\* calls its notes consumed.
DeadMeansHome ==
  [][At("redeemed") /\ flow.res = "dead" /\ stash'.stage # stash.stage
       => mint[stash.notes] = "back" \/ ~ Alone(stash.notes)]_vars

=============================================================================
