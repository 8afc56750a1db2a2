# Chama in TLA+

Chama is a peer-to-peer bitcoin market: two strangers trade, a third person
arbitrates, and the money waits in ecash notes whose shares the three hold.
There is no server.  A trade is a chain of signed Nostr events, every client
replays the chain through the same reducer, and the winner's client redeems the
notes and pays the sats out.  So two things have to be right: **the verdict**,
computed by everybody from events anybody may sign and relays may delay, repeat
or drop, and **the payout**, done by one client that may be closed at any moment
over a Lightning gateway that may answer late.  Under the verdict lies **the order
of replay**, in which a client puts the events it happens to hold.  Around them lies the custody of
the notes themselves, which are money to whoever holds them: **the funding**,
which spends at the mint before the LOCK that commits the notes is on any relay;
**the withheld lock**, whose funder may release or withdraw from any of his
devices; **the redemption**, in which three parties of one page take notes to
the mint; and under all of it **one wallet runtime** per seed, among browser
tabs that share only a cookie.  This directory models the seven.

## Inventory

`PROJECT.json` lists every component with its sources.  The ones that carry the
program's own logic:

| Component | State it keeps | Operations | Hard behaviour | What makes it correct |
|---|---|---|---|---|
| Escrow reducer (`state-machine.ts`, `arbiter-substitution.ts`, `recipients.ts`, `arbiter-pick.ts`) | the trade: status, seats, holds, lock, votes, verdict, claim | `applyEvent`: CREATE, JOIN, CANCEL, LOCK, LOCK_STEP, VOTE, RESOLVE, CLAIM, COMPLETE, the deadline | any author, any date, any order; late events; lapsing holds; arbiters that replace each other | two people decide, one of them a principal; the verdict is backed; refunds return to the funder; help arrives before the deadline; agreement is settled |
| Claim payout (`claim-and-payout.ts`, `payout-journal.ts`, `useEscrow.ts`) | journal record, redemption stash, note, operation log | claim, retry, sweep, redeem, pay, watch, publish | page deaths between awaits, watch windows that close on live payments, journal writes that fail, a sweep beside a claim | one payout, published only when it settled, a refusal always resolved |
| Event replay (`event-parser.ts`, `escrow-event-cache.ts`) | the events a client holds | order, parse, verify, cache | clients hold different subsets, signers choose dates | causes come first; a late event moves only what rests on it |
| Lock stash (`pending-native-locks.ts`, `escrow-bridge.ts`, `fund-and-lock.ts`) | stash entry: intent, spent, publish-attempted | fund, spend, publish, settle | death between spend and publish, reads that miss the LOCK, a rival device | the funder's notes are in a LOCK or back in the wallet, never both |
| Shares and custody (`withheld-share-store.ts`, `escrow-client.ts`) | per device: saved shares and the choice | accept, release, withdraw, retire | several devices, partial reads, deaths between choice and signature | notes that went home belong to no funded LOCK; an accept is answered |
| Redemption stash (`pending-redemptions.ts`, `reabsorb-bearer-notes.ts`, `balance-recovery.ts`) | stashed notes and their marks | stash, drain, probe, export, clear | retries of what was done, balances that move for other reasons | no note lost from sight, no credit claimed without grounds |
| Mint mutex (`mint-mutex.ts`) | a line of waiters | ask, grant, give up, leave | a waiter that gives up as it is granted | one redeem at a time |
| Runtime lease (`browser-runtime-lease.ts`) | a cookie with a token and a time | acquire, renew, take over, stand down | two tabs at once, throttled timers | one wallet runtime per seed |
| Outboxes (`durable-money-publish.ts`, `durable-claim-queue.ts`) | events waiting for a relay | enqueue, acknowledge, quarantine | late or lost acknowledgements, a full queue | nothing is lost before a relay has it |
| Relay manager, client (`relay-manager.ts`, `escrow-client.ts`) | sockets, subscriptions, states | publish, backfill, auto-resolve | loss, duplication, partial reads | what the reducer is given |

They interact like this.  The client hands relay events to replay, replay hands
them one by one to the reducer, and the reducer's state drives everything else:
the funder's client runs the lock stash and publishes LOCK; parties vote; each
client that sees the threshold publishes RESOLVE (`maybeAutoResolve`); the
winner's client runs the payout, which stashes the note, redeems it, pays, and
publishes CLAIM and COMPLETE back through the client.  The payout and its
background sweep share the journal in local storage; all wallet work goes
through the mint mutex under the runtime lease.

## Modules

| Module | What it is |
|---|---|
| `EscrowTrade` | the reducer, one action per event kind, and its mapping to `EscrowPromise` |
| `EscrowPromise` | what an escrow promises, with no events, dates, holds or substitution |
| `MCEscrowTrade` | instances of `EscrowTrade` |
| `EscrowTradeProofs` | theorems about `EscrowTrade` |
| `EscrowPromiseProofs` | that `EscrowTrade` implements `EscrowPromise`, and what follows |
| `ChainOrder` | the order in which a client replays the events it holds |
| `MCChainOrder` | the trades of its run |
| `ChainOrderProofs` | theorems about `ChainOrder` |
| `ClaimPayout` | the winner's payout, its journal and the sweep |
| `MCClaimPayout` | the circumstances of each payout run |
| `ClaimPayoutProofs` | theorems about `ClaimPayout` |
| `RuntimeLease` | the cookie lease that tabs of a browser contend for |
| `MCRuntimeLease` | its sets of tabs |
| `RuntimeLeaseProofs` | theorems about `RuntimeLease` |
| `LockStash` | funding a trade: the stash of spent notes, the outbox, the mint and the relays |
| `MCLockStash` | its rival device |
| `LockStashProofs` | theorems about `LockStash` |
| `WithheldLock` | a LOCK with withheld shares: accept, release, withdraw, on several devices |
| `MCWithheldLock` | a phone that funds and a laptop |
| `WithheldLockProofs` | theorems about `WithheldLock` |
| `Redemption` | the stash of claimed notes and the three parties at the mint lock |
| `MCRedemption` | two claims, and their symmetry |
| `RedemptionProofs` | theorems about `Redemption` |

How they meet: `ChainOrder` chooses, of all the orders that `EscrowTrade` admits,
the one a client replays; `LockStash` ends where its LOCK stands on a relay, which is where
`EscrowTrade` begins; `WithheldLock` is the same LOCK when it keeps two shares
back, and its accept and release are the LOCK_STEP of `EscrowTrade`, seen here
from readers who have a part of the events each; `ClaimPayout` takes the note
through one claim with the money journal in full, `Redemption` takes several
notes through claim, drain and probe with the stash in full and the payment as
one step; `RuntimeLease` is what lets `LockStash` and `Redemption` have one page.

### EscrowTrade

The variables are the fields of the reducer's state that decide anything
(`status`, `participants`, `joinHolds`, `expiresAt`, `lock`, the votes in
`eventChain` and the slots in `votes`, `actingArbiter`, `resolvedOutcome`,
`resolvedMajority`, `claim.claimerRole`).  An action means *the reducer accepts
this event*.  Its author, its date, the payload's own stamp and its choices are
quantified, because relays deliver what anybody signed; its guard is what the
handler checks; a refused event is a stutter.  `Late` and `StatusFor` are the
deadline arm of `applyEvent`, which runs before every handler: a late VOTE or
LOCK_STEP expires the trade and is then handled, any other late event (a RESOLVE
too) only expires it and is swallowed.  `listing.rules` is the generation of
rules a CREATE falls under (before November 2026, November, December).

Dates are counted from the CREATE.  Shares, notes and hashes do not appear: that
a share is released is a flag of the lock.  The ecash path is modelled; the
on-chain, tranche, circle and subscription arms are not.  CHAT, PREMIUM and
SETTLEMENT notes change nothing here except that a late one may expire a trade,
which `Expire` covers.

`AutoResolve` is `maybeAutoResolve` of `escrow-client.ts`.  It runs on every
vote and every reload of every party's client.

### EscrowPromise

It is agreed at the start who is paid on which verdict (`deal`).  Money goes in
once, before anybody spoke, from one of three chairs held by three people, and
where the deal says so from the one a REFUND pays; a principal speaks once, the
arbiter's chair may change mind and hands; two equal opinions make the one verdict
there will ever be; the principal the deal names for it is paid, once.
`KeepsPromise` at the end of `EscrowTrade` maps the reducer onto it: `Deal` is the
category table of `recipients.ts`, `lock.by` the funder, the slots of `votes` are
the opinions, and CREATED, LOCKED and EXPIRED are all "open" (`Stage`).  The last
point is the interesting one: an expired trade is not over.  The `dispute` run
checks the mapping and `EscrowPromiseProofs` proves it.

### ChainOrder

`SortEventChain` is `sortEventChain`, rule by rule: the consensus events in causal
order with dates, kinds and ids to break ties (`Sorted`, in which each event is the
`Following` of those the earlier ones leave), each transport put
between them by date (`Interleaved`), what a stalled request is judged by moved in
front of it (`Gather`), the proof that a COMPLETE names moved in front of the
COMPLETE (`Prove`).  `Receive` is the arrival of one event and the replay order
that follows.  What a trade consists of is chosen at the start: a cast of kinds,
and for each event a date, a predecessor, and a proof if it is a COMPLETE.  The
predecessors make no cycle, because an event's id is the hash of what it names; so
the code's answer to a cycle is not modelled.  Of the kinds it has CREATE, JOIN,
LOCK, STALLED and COMPLETE, and CHAT and SETTLEMENT of the transports (PREMIUM is
treated as CHAT is).  `Line` of an event is what it rests on as far as the client
holds the links.  What the replay makes of an order is `EscrowTrade`.

What the model showed besides its properties.  With two stalled requests the
second takes the earlier transports away from the first, because `Gather` moves
them all again: SETTLEMENT, STALLED, STALLED of one date end as STALLED,
SETTLEMENT, STALLED, and the first request is judged without what
`event-parser.ts:891-892` says it is judged against.  A COMPLETE can take its proof
past a request in the same way.  Transports of one date keep the order of their
arrival, which differs between clients.  A transport dated before everything is
put at the end.

### ClaimPayout

A step is what runs between two awaits.  `pc` and `mem` are the memory of the
page and die with it (`Crash`); the journal record, the stash, the wallet and
its operation log survive.  Two actors run: the *claim* (the button: read the
record, look the payment up, redeem, pay, publish) and the *sweep*
(`reattachPayoutAction`: read, look up, apply).  They share `Look`, `Apply` and
`Close`, because the code of the two is the same decision twice; where they
differ, the action says so.

What the wallet can say is modelled with its blind spots (`ScanFinds`).  A scan
reads every entry twice, first to find the payments of the escrow, then to learn
what became of them.  A payment that is off the page or cannot be read the first
time is left out (`seen`); that keeps an empty scan from proving anything, but is
forgotten as soon as another payment was found.  One that cannot be read the
second time (outside `known`) counts as live.  A full page proves no absence, a
payment of an old version carries no stamp.  Money is counted in
payouts of this escrow, so that "the balance covers" and "the balance grew" are
exact.  The gateway, the federation and the page are external.

`Worlds` names the circumstances a run considers:

- `apart`: a claim and a sweep of one escrow never overlap.  The code does not
  enforce it; see the finding below.
- `clears`: a clear of the journal reaches the disk.  If it fails,
  `recordPayoutIntent` finds the old submitted record of a refunded payment,
  keeps it, and a crash then leaves that record in front of the new payment.
- `reads`: a scan that answers has found every payment of the escrow and knows
  of every refund; else it may miss any of them.
- `short`: fewer operations than one page of the log.
- `legacy`: a submitted record without operation id, of a payment without stamp.
- `spare`: other money in the wallet.

`Guarded` is the conjunction of the first three.  They are conditions, not
guarantees: the code ensures none of them, and without any one of them it pays
twice.  `NeverPaidTwice` and `NoOnchainAfterLightning` say what the journal is
worth where they hold.  `apart` fails in finding 1.  For the other two put
`HalfBlind` or `LostClears` of `MCClaimPayout` in the place of `Overlapping` in
`ClaimOverlap.cfg`, and TLC finds `OnePayoutWhateverHappens` violated too:

- `HalfBlind`: payment 1 is refunded and the record cleared.  The retry sends
  payment 2 and loses sight of it, so the intent stands.  The next claim scans,
  cannot read the entry of payment 2, finds payment 1 refunded, and answers
  "refunded": the entry that threw only sets `scanBlind` (`sdk-adapter.ts:2868-2871`),
  which is looked at only when nothing was found (`:2873-2877`).  The intent is
  cleared and payment 3 leaves while payment 2 is live.
- `LostClears`: payment 1 is submitted and refunded, and the clear fails.  The old
  record stands in front of payment 2, and once that is out of sight the next
  claim learns again that payment 1 was refunded, and pays.

`PublishedMeansPaid` and `ReservedUntilPaid` need no such condition.

### RuntimeLease

A tab asks (`Ask`, or `TakeOver` when the user overrides a refusal), writes its
token (`WriteClaim`), waits, and reads it back (`ReadBack`).  As the owner it
runs a watchdog: `StandDown` when somebody else's live token is in the cookie,
`Watch` otherwise, and `Renew` when the heartbeat is due or the cookie is gone.
`runtime` is the WASM worker of `createRealWallet`: `loading` from the moment
the lease is won, `up` once it is registered.  Releasing reads the cookie and
clears it in two steps (`Close`, `Drop`), like everything else that reads and
then writes.

Time is what the algorithm rests on, so the model has clocks: the age of the
cookie, and how long each tab has been where it is.  `Tick` lets time pass for
everybody and is refused while a deadline is due: a read and the write after it
are at most `Delay` apart, a timer fires at most `Gap` late.  The assumption on
the constants is the order of the real ones: `Delay` (a synchronous stretch of
JavaScript) below `Settle` (80 ms), `Heartbeat` (15 s) at most `Gap` (60 s, a
throttled background tab), and `2 * Gap + Delay` below `TTL` (180 s).  The
development build has a `TTL` of 30 s, and does not keep this order for
throttled tabs.

Left out: the click that arms a takeover is a choice made when the tab asks; a
switch of identity is a `Close`; a page that comes back from the back-forward
cache, whose lease `pagehide` has released; and the second attempt to open the
wallet file, which registers a worker again.

### LockStash

`lockAndPublish` asks the relays, writes an *intent*, spends at the mint, stashes
the *spent* notes, signs the LOCK into the outbox, marks the entry *attempted*
and sends.  Between any two of these the page may die (`Crash`), which leaves the
mint, the relays, the stash and the outbox.  `flow` is the mutex of the trade's
entry: a funding or a *settle* holds it.  A settle reads some part of what the
relays hold and decides from it, from the stage and from the custody horizon
(`aged`) whether the entry is done, has to wait, or has its notes redeemed.
Whatever does not wait for the mutex has actions of its own: the outbox pass, the
loads of the trade (`OpenTrade` is `loadEscrow`), the OK frame that comes late,
the mint's own clock, and another device that publishes a rival LOCK or the
initiator who cancels.

A LOCK is named by the notes it commits, so that "the notes of this LOCK went
home" is a statement about one number.  A CANCEL and a LOCK of the same date
count as a late LOCK.  `tap` stands for every settle but the boot drain's, which
alone counts attempts.

What the model showed besides its properties: a settle whose read falls into a
rebroadcast of the outbox takes the LOCK for acknowledged and drops the stash
(`escrow-client.ts:2389`, which is why `blind` is a set of its own); the outbox
goes on rebroadcasting a LOCK whose notes came home because a rival or a CANCEL
won; and an attempted LOCK that was never signed keeps its entry for ever.

### WithheldLock

Nobody orders the steps of a withheld LOCK but its readers, so a step of a device
is `ReadStep(R)`: a decision taken on some part `R` of what the relays hold.
Nothing is remembered from read to read; a client that keeps its page open has
read more, which is another `R`.  `Held`, `Released`, `TakenBack` and
`Refused` say what a read shows, as `state-machine.ts` judges it.  `record` is the
entry of the withheld-share store, per device and not shared: the first choice
written there stands.  A release is three awaits (`releasing.pc`), any of which a
dead page ends.  `Home` funded and alone can redeem the notes.

Left out: the gate in the interface that hides the withdraw, the suppression of a
second withdraw in one session, the time after which a sent release is forgotten,
and `isPartialReplayDowngrade` (`escrow-client.ts:333-348`), which lets an open
page keep an accept or release that a shorter read lacks.

### Redemption

Notes of claims lie in a stash until the wallet has them.  Three parties take
them to the mint: the *drain* of the boot, which works on a copy of the stash it
took when it began (`due`, `copy`) and writes its entries back; the *claim* the
user taps, which goes on to the payout; and the *probe* of a recovery card, which
asks whether a note is spent by redeeming it.  Each waits in the line of the mint
lock (`ahead` is whom it waits for), submits, and
hears an answer, which may be silence, or gives up waiting.  `native` is the adapter: the native
shell redeems and looks at the balance, the browser reads the history of its
wallet.  Either way the code knows only amounts, so all notes here are worth one
unit: everything that can be confused is.  `mixed` collects the claims for which
a credit of something else was in sight.

The grant of the lock and the submission are one step, and the baseline of a
claim and the bracket of a probe are one variable, `base`.  Left out: the fee
window of a reissue, notes that were never valid, the receive inside Fedi, writes
to local storage that fail, the reopening of reconciled entries while an export
is pending, the entry of an old manual export, and tabs (see `RuntimeLease`).

What the model showed besides its properties: a credited entry whose claim is
tried again after the history window can be marked unresolved and then be
reconciled by balance, which ends the reservation before the payout; a probe that
never got the lock, with another credit of the same amount in its bracket, reads
as recovered; a credited entry out of attempts is shown as stranded.

## Runs

A finished trade, a settled LOCK, a payout or a stash whose bounds are used up,
stop, and so does a client that has every event; so those configurations set `CHECK_DEADLOCK FALSE`.  Those of the lease and
of the withheld lock do not: tabs and devices can always go on.

| Run | Result | Shows |
|---|---|---|
| `dispute` | passes, 302,730 states | every order of votes, three arbiters, withheld shares, deadlines, verdict and claim; refinement of `EscrowPromise` |
| `booking` | passes, 217,946 states | timed seats, orders, and the LOCK that ends the booking, in three categories; and in a storefront purchase `ThresholdIsSettled`, under the fairness of the auto-resolver |
| `payout` | passes, 135,285 states | one payout where `Guarded` holds; nothing published early, reservation, no dead end, in five circumstances |
| `payout_overlap` | violated | finding 1 |
| `lease` | passes, 355,755 states | three tabs: one runtime while undisturbed, one owner again in time after an upset, always an owner later |
| `lease_takeover` | violated | finding 2 |
| `funding` | passes, 1,088,065 states | two fundings, a rival LOCK or a CANCEL, an outbox, one page death: no LOCK without its notes, no notes out of sight |
| `withheld` | passes, 22,554 states | a phone and a laptop, three accepts, one of them late: one choice per device, what partial reads may and may not say, and that an accept is answered |
| `withheld_devices` | violated | finding 3 |
| `redemption` | passes, 4,405,642 states | two claims of equal amount, drain, claim and probe, a deposit, a page death, both adapters: one at the mint, no note out of sight, no credit without grounds |
| `redemption_cover` | violated | finding 4 |
| `ordering` | passes, 411,966 states | every choice of links, dates and arrivals in five small trades: causes first, late events only delay, a request sees its past |

**Bounds.**  Dates come from a small set `Times` placed on both sides of every
deadline of the instance: the trade runs out at 4 after its LOCK, a hold at 2, a
grace is at most 2 (a LOCK may ask for 3, so that the clamp works).  `dispute`
uses a storefront purchase, whose principals are seated by the CREATE, and the
constraint `SeatsStand` keeps them off timed holds: a JOIN of a person already
seated changes a hold that no vote reads.  `booking` follows its open listings to
the first vote (`Unvoted`), because no hold or order matters afterwards, and its
storefront purchase to the end, with a pool of two, because a RESOLVE that comes
too late needs two slots and a deadline and no third arbiter.  Between them the runs
cover five people: two principals and a pool of three, the smallest in which an
assigned arbiter has a first and a second backup.  `PickHash = 1` makes the
pick differ from the order of the pool.  In `payout`, three payments and two
page deaths are enough to lose a payment, find it again, be refunded, pay again
and die once more; the proof below removes both bounds for the safety
properties.  `lease` has three tabs, so that one may take over while two others
contend, two takeovers, so that the second falls into the righting of the first,
one cleared cookie and one dead tab.  Its constants are the smallest that keep
the order, where ties make every race of a timer with a deadline possible;
`Delay = 0` still lets any step of another tab fall between a read and its
write, only no tick.

`funding` has two spends, so that an entry of the first may be in the way of the
second, and one event of another party, since a rival LOCK and a CANCEL act
through the same refusal; one drain attempt is the limit reached at once.
`withheld` has one device that funded and one that did not, which are the two
kinds there are, and three accepts, two in time and one past the deadline, so
that the first, a better first one that arrives later, and a late one all occur;
pages die without a bound.  `redemption` has two claims, so that the credit of
one can be taken for the other's, two taps, so that a claim and a probe meet
beside the drain, one attempt of the drain, one deposit and one page death; the
claims are interchangeable, which the configuration uses as a symmetry (it checks
no liveness).  The proofs below remove the bounds of all three.

`ordering` has three dates, so that an event can be dated before, with and after
the one it rests on, and five casts: a chain that branches, two rival CREATEs, a
settlement with its proof, two settlements about a request, and two requests that
stall.  An ordering error between transports needs two of them and a request; one
between consensus events, a chain of three and a fourth beside it.  The proofs below
hold for casts of any length.

**Slips.**  A definition named `...Slip` is a plausible mistake in the
definition after it (an off-by-one, a dropped guard, a wrong table).  Nothing
uses them; replacing the definition by its slip must break the property that is
there to guard it.

**Fairness.**  `EscrowTrade!FairSpec` asks for weak fairness of `AutoResolve`
alone: a party's client tries to resolve on every vote and on every reload, for
as long as the threshold is met and no RESOLVE is in the chain.  Nothing obliges
a person to vote.  `ClaimPayout!FairSpec` asks that a Lightning payment ends
(its contract expires), that a claim or sweep that is running goes on, that
every session and every opening of the trade starts a sweep again, and that
neither the log nor the disk is out of order for ever.  The strong fairness is
on the sweep, which is enabled again and again and not always: a claim may be
running in between.  `RuntimeLease!FairSpec` asks that time passes, that timers
fire, that a write follows its read, and that a user whose tab was refused taps Reconnect again; nothing obliges a tab to start,
reload or close its wallet, and nobody to take over.
`WithheldLock!FairSpec` is about the device that funded: that it now and then
reads everything the relays hold and starts, chooses and sends a release (strong
fairness, because a page may die at each of these steps), that what it has begun
ends, and that the settle of a refused LOCK runs with a full read.  Every opening
of the trade does these things; nothing obliges anybody to accept or to withdraw.
`LockStash` and `Redemption` state no fairness, and no liveness: the outbox and
the drain stop at their attempts.

## Properties

About the verdict: `ResolvedByTwo`, `MajorityHoldsVerdict`, `ArbiterSlotIsBest`,
`BackupReleaseOnMerit`, `HelpBeforeDeadline`, `KeepsPromise`, `ThresholdIsSettled`.
About the money: `RefundReturnsToLocker`, `LockedOrderIsTheBuyers`; that no ballot
precedes the release of withheld shares, and that a funded trade has three people,
are proved instead of run (`SharesBeforeBallots`, `ThreeSeats`).  About the order:
`DatedUnlessCaused` (no event is replayed before one it rests on, nor before an
earlier one that need not wait), `ArrivalOnlyDelays` (clients with different
parts of a trade agree as far as they can), `RequestSeesItsPast`.
About the payout: `NeverPaidTwice`, `PublishedMeansPaid`, `ReservedUntilPaid`,
`NoOnchainAfterLightning`, `RefusalIsResolved`.  About the lease: `OneRuntime`,
`RightedInTime`, `SomebodyServes`.

About the notes of a funding: `NoHollowLock` (no LOCK that reads as funded is
left behind by a settle that took its notes home), `NotesAccounted` (spent notes
are in the stash, in a flow, at home, or in a LOCK that is on its way),
`OutboxHoldsUnsent` (a LOCK shown as the trade's is on a relay or queued),
`DeadMeansHome` ("already spent" at the mint means spent by us).  About the
withheld lock: `NeverBoth`, `NoHollowTrade`, `AcceptOutranksCancel`,
`ReleaseOutranksWithdraw`, `AcceptIsAnswered`, `OwnWithdrawComesHome`.  About the
redemption: `OneAtTheMint`, `NoteIsKept`, `CreditHasGrounds` (an entry that says
credited has its note in the wallet, or a credit of something else was in sight),
`MarksStand` (what was found out about a note is not forgotten by a write from an
older copy).  Each is stated in words above its definition.

## Where the code and its documents differ

1. *Sweep over claim* (`payout_overlap`).  The sweep reads the record, awaits,
   and clears whatever the journal holds by then.  Beside a claim it can erase the
   record of a live payment.  `payout-journal.ts:25-28` and `:249` exclude exactly
   that.
2. *Takeover while loading* (`lease_takeover`).  A tab that loses the lease before
   its worker is registered has nothing to terminate, and registers it afterwards:
   two runtimes stay.  The comment at `sdk-adapter.ts:3343-3345` says a takeover
   can never leave two.
3. *Two devices of a funder* (`withheld_devices`).  The phone that funded records
   its choice to release and its page ends before anything is sent; the laptop,
   which has no record, withdraws.  The LOCK is refused for everybody, but on the
   phone `retire` finds the choice "release" and refuses
   (`withheld-share-store.ts:111`), so the notes are kept for ever.
   `escrow-client.ts:4896-4897` promises that they come home.
4. *Cover clears the stash* (`redemption_cover`).  A payout that was covered by
   other money clears the pending redemption at `claim-and-payout.ts:1157`, also
   when the redeem gave no answer and the note is still live.  The comment at
   `claim-and-payout.ts:258-262` says the stash stays intact and the boot drain
   reconciles the late credit.

The half-blind scan described under `ClaimPayout` is a fifth: the comment at
`sdk-adapter.ts:2878-2881` says that a payment which cannot be read is in flight
("refuse re-pay"), and that "refunded" stands for all of them; the code says so
only of those it has read once.  It has no run of its own among those listed
above, but an instance.

Seen while modelling, and no longer run here: a late VOTE turns an unfunded trade
EXPIRED and is recorded all the same, so that two of them and a RESOLVE make it
APPROVED with no LOCK (`docs/nip-draft-escrow.md:339` calls EXPIRED terminal for
such a trade); outside a contest only a backup arbiter is held to REFUND after the
deadline (`docs/nip-draft-escrow.md:427` says everybody is); any participant may
lock a raw escrow and REFUND pays the seller (`recipients.ts:19` says it returns
to the locker); and an intent whose payment was never sent stays unresolved once
the wallet has a full page of operations (`claim-and-payout.ts:673` says a refusal
always has a resolver).

## Proofs

All theorems hold for every value of the constants that satisfies
`TradeAssumption`, `PayoutAssumption`, `LeaseAssumption`, `StashAssumption`,
`WithheldAssumption`, `RedemptionAssumption` and `OrderAssumption`: any set of
people, pool, dates, graces, number of payments and of crashes, any tabs and
timing, any number of fundings, rivals, devices, accepts and claims, and trades of
any number of events.

`EscrowTradeProofs` proves `TypeCorrect`, `TwoPeopleDecide`, `SharesComeFirst`,
`SeatsAreThree`, `RefundsGoBack`, `BackupsFollow`, `BestArbiterSpeaks`,
`HelpComesInTime`, `TheBuyersOrder` and `MajorityIsTwo`.  None of the invariants is
inductive alone.  `IInv` adds to them what they rest on: `BookedFirst` (money
and votes come only after the booking), `SellerSits` (the seller sits from the
CREATE on, save on an open loan request), `BallotsFit` (a cast ballot is whole,
and a principal's is what his slot shows), `SlotsBacked` (a slot shows
somebody's ballot in that role) and `VerdictStands` (a verdict rests on two
slots that still show it).  `SlotsBacked` is what makes `ResolvedByTwo` go through: the arbiter's
slot can be taken over by a better arbiter, but always by one who has a ballot,
and two slots of different roles have different signers since a seat has one
person.  The case that needs work is the VOTE; `VoteEffect` isolates it.
On top of `IInv`:

- `BestArbiterSpeaks`: a vote moves no arbiter in the order of priority
  (`RanksStay`), so the one who takes the slot outranks all who spoke.
- `HelpComesInTime`: each grace is a share of what the vote left of the time to the
  deadline (`GraceEndsInTime`), and a slot's date is that of a real vote
  (`VotesAreDated`).  No bound on the dates is needed.
- `TheBuyersOrder` adds `HolderSits`: until the LOCK a hold belongs to the last
  person in the seat that the CREATE left open.  The grace that keeps his order
  lockable keeps his seat as well.
- `MajorityIsTwo` adds `TurnsFit`: the filled slots, and no others, are numbered in
  the order they were filled, each by its own number.  So the first two slots of
  the verdict are two slots of it, in whatever order the votes came.

`EscrowPromiseProofs` proves the refinement, `ReducerKeepsPromise`, and what it says
of the reducer in its own terms: `VerdictsAreFinal` (no event revises a verdict, its
majority, the slots under it or the seats it pays) and `WinnersArePaid` (the locker
has his money back exactly when the verdict is REFUND).  Each action has a lemma
that says which step of the promise it is: CREATE and JOIN are Sit, LOCK is Fund,
VOTE is Opine, RESOLVE is Award, CLAIM is Pay, COMPLETE is Close and CANCEL is Void;
everything else stutters.  `RInv` adds to `IInv` that what was awarded has a
verdict (`VerdictGiven`), that no seat is taken before the CREATE
(`EmptyAtFirst`), and that the claimer is the verdict's payee (`ClaimFits`).

`ClaimPayoutProofs` proves `PayoutTypeCorrect`, `PublishedOnlyWhenPaid`,
`PaidOnce`, `OnchainOnlyInstead` and `ReservationStands`.  `Honest` says that a settled record, a
settled answer and a claim about to close all stand for a payment that settled;
`PublishedMeansPaid` follows from it in every world.  `Careful` is the guard
itself: at most one payment is out (`OneAtATime`); a payment that is out is
covered by a record which says so (`RecordCovers`); a claim past the guard runs
alone and with nothing out (`ClaimAlone`); what the guard was told about the
record is still true when it acts on it (`GuardInformed`, where `ScanIsTrue` needs
`reads`); the record
of an old version is never resolved, so nothing is paid again (`OldRecordStays`).  `GuardInformed` is where `apart` is needed, and
finding 1 is what happens without it; `RecordCovers` is where `clears` is
needed, after a refund.  So `PaidOnce` and `OnchainOnlyInstead` are theorems about
circumstances that the code may leave (above).  `ReservationStands` rests on
`StashedFirst`: the entry that reserves the credit is written before the note is
sent to the mint, so it covers a late credit too, and only a claim that knows of
a settled payment drops it.

`RuntimeLeaseProofs` proves `LeaseTypeCorrect`, `LeaseOrder`,
`LeaseExcludes` and `LeaseRighted`.  The argument is that of timed mutual exclusion: while nobody
takes over or clears the cookie, a worker implies the lease (`WorkersHold`); an
owner's token is in the cookie and young enough that nobody finds it expired
(`OwnerFresh`, from `2 * Gap + Delay < TTL`); a contender that still finds its
token was the last to write (`ContenderFresh`); and whoever found the cookie free
has no owner beside it and will write before an earlier contender looks
(`ClaimsFirst`, from `Delay < Settle`).  Two workers would be two owners of one
cookie.  A takeover or a cleared cookie ends this order for good, which is why
`OneRuntime` speaks of undisturbed tabs.

What happens then is `LeaseRighted`, which needs another invariant, since nothing
of `OwnerFresh` and `ClaimsFirst` survives an upset.  `UInv` bounds what each tab can still hold of it by the time
since (`calm`): an owner whose token is gone looks again within a watchdog run, and
a claimant beside an owner is one who set out soon after the upset
(`LossIsRecent`); a token that is not an owner's came after his last look, and his
own is renewed in time (`OwnerSees`); whoever claims over a live token saw the
upset (`ClaimSees`).  Of two owners one has lost his token, and has noticed by
`Righting`.  It holds for every timing that `LeaseAssumption` allows
and for any number of upsets.

`LockStashProofs` proves `StashTypes`, `NotesStayAccounted`, `ShownLocksAreSent`,
`NoHollowLocks` and `DeadEntriesAreHome`.  `SInv` says what a flow in each stage
knows of the mint and the relays (`FlowFits`), that notes not yet spent are
nowhere (`FreshNotes`), what an entry of each stage stands for (`EntryNotes`),
that a LOCK signed here and not sent is in this device's hands alone
(`LocalLock`), and that notes which came home belong to a LOCK nobody can read as
funded, or to one that was never sent (`HomeIsHarmless`).  The last is the heart:
a settle may redeem only on a read that shows a refusal, or before the LOCK was
attempted, or past the horizon.

`WithheldLockProofs` proves `WithheldTypes`, `OneStepPerDevice`,
`NotesHomeUnreleased`, `AcceptPins` and `ReleaseStands`.  `Backed` ties every
signed step to the record of its device, `Retired` notes that are home to the
choice of the device that redeemed them, `Answering` a release under way to an accept that exists.  That a choice,
once written, is never replaced (`Kept`) is what carries them.  The two theorems
about reads need no invariant: they hold of every set of events and every part of
it.

`RedemptionProofs` proves `RedemptionTypes`, `OneHolder`, `MarksAreFinal`,
`CreditIsGrounded` and `NotesStayInSight`.  `Line` is the mutual exclusion: of two
in line one waits for the other, and whoever is at the mint for nobody.  `RInv`
rests on `HonestStash`, which holds of the stash and of the drain's copy of it
alike: an entry of a live note says nothing that would let it go, and a credited
one has grounds.  `Bracket` says what the balance in a bracket proves, `Asked`,
`PayingIsOurs` and `PaidIsGone` what is known of the note of a party under way,
`InStore` and `SlotIsHis` that the party's entry is where it looks for it.

`ChainOrderProofs` proves `CausalOrder`, `PastInHand` and `LateOnlyDelays`, and
`SameEventsSameOrder`, which no run states: two clients that hold the same events
replay the consensus events alike, however these arrived.  `OInv` says that the
chain holds every event received once (`Arrangements`); that each consensus event
`Follows`, which is to say that of the events not yet taken before it, it is the
one `sortEventChain` picks (`Causal`); and that a request that is alone has before
it what it is judged by (`Judges`).  The argument has three parts.

- *Picking.*  `Sorted` chooses a sequence by a condition on each of its elements.
  That there is one (`PickedExists`), and that it takes every event once
  (`PickedAll`), is an induction over its length.  The induction theorems of the
  library take an operator; `Induction` is stated with a set instead, and comes
  from the well-foundedness of the numbers, which can be cited.
- *Loops.*  A fold is the value of a recursive function on sets of indices.
  `FoldExists` builds that function, the four `...Rounds` lemmas turn each fold
  of `sortEventChain` into stages with one round of the loop between them, and
  `Stagewise` carries what holds of one stage to the last: a transport that is put
  in or moved leaves the order of the others (`InterleavedKeeps`,
  `PutBeforeKeeps`), so the consensus events keep the order of `Sorted` to the end
  (`SortKeeps`).
- *Comparing.*  `MoreAgrees` compares the orders of a client before and after an
  arrival.  Suppose they turn a pair whose first event rests on nothing new, and
  take the pair whose second event `f` comes first in the new order.  Some event
  `r` could have been taken in place of `f` there, so `f` is the earlier of the
  two; yet in the old order `r` was taken while `f` was left, so `f` had to wait
  for some `g`.  Then `r` and `g` are turned too, and `g` comes before `f`.

Left to TLC: liveness (`ThresholdIsSettled`, `RefusalIsResolved`,
`SomebodyServes`, `AcceptIsAnswered`, `OwnWithdrawComesHome`), which TLAPS does not
prove under fairness.  Every other property of a passing run is a theorem.  The four
runs that expect a violation have a counterexample instead.

## Plan

In this order, the most important first:

1. The balance-recovery drain as a third actor on the journal of `ClaimPayout`.
2. The outbox entries of other kinds, and the claim queue at its cap.

Done of the first plan: the trade, the payout, the lease, the lock stash with the
outbox of its LOCK, the withheld shares, the order of replay, and the mint lock with the redemption
stash, its drain and its probes.

## Not modelled

Signatures and the parsing of events, secret sharing, the invoice before a funding, the
balance-recovery drain, the outbox of events other than a LOCK and the claim
queue: planned or pure data, as `PROJECT.json` says of each.  `RefusalIsResolved`
assumes a wallet log shorter than a page, because a full page never proves that a
payment is absent.  `LockStash` and `Redemption` have one tab.  `LockStash` leaves
out the durable cache of events and the manual `lockAndPublishWithEcash`;
`WithheldLock` has no votes, so `WinnerClaims` is any claim of released notes.
Inside the rest of what is modelled: the sweep never releases
a reservation, the summary of pending payouts in the interface counts only
CLAIMED trades, and ecash exports, manual payouts and amounts (fees, floors) are
left out of `ClaimPayout`.  In `EscrowTrade` a hold runs from the JOIN's own stamp
for `HoldSeconds`, and an order is final from that stamp: this is what
`escrow-client.ts:1864` signs, while the reducer believes whatever dates the payload
carries (`state-machine.ts:680`, `:793`, `:608`).  In `Redemption` a claim always
redeems first: the shortcut of a published claim over a covering balance
(`claim-and-payout.ts:781-801`, `ResumeCovered` in `ClaimPayout`) and
`reopenBalanceReconciledCredit` (`pending-redemptions.ts:568`) are left out.  The
exemptions of its properties (`mixed`, `due`) are faults of the code that the
properties step around: a credit that fell into another note's bracket, and marks
that the running drain takes back from its old copy.
Two live replicas that got a RESOLVE and a better
arbiter's vote in different orders disagree until they reload; `EscrowTrade`
has one replica.  The other parts of the repository (on-chain escrow and bonds,
circles, tranches, listings, notifications, payment rails, the interface, the
platform shells) hold no logic of the questions above.
