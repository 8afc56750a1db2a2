-------------------------- MODULE LockStashProofs --------------------------
(* What LockStash guarantees however many spends, rivals and crashes there  *)
(* are: its types, and that the notes of every attempt are written down or  *)
(* published, that what this client shows as locked is sent or still to be  *)
(* sent, and that notes taken back leave no LOCK anybody could trust.       *)
EXTENDS LockStash, TLAPS

\* Nothing about these notes left this client, or will.
NeverSent(n) ==
  /\ n \notin relay /\ outbox[n] = "none"
  /\ n \notin drain.queue /\ n # drain.sending

Funding == flow.pc \in {"returned", "checking", "signing", "sending"}
Taking  == flow.pc \in {"redeeming", "redeemed"}

\* The holder of the mutex and the entry agree.
FlowFits ==
  /\ HasNotes <=> stash.notes \in Notes
  /\ flow.pc \in {"spending", "returned"} => ~ HasNotes
  /\ Funding \/ At("confirming") => flow.notes \in Notes /\ flow.why = "none"
  /\ flow.pc \in {"checking", "signing", "sending", "confirming"} => flow.notes = stash.notes
  /\ At("checking") => stash.stage = "spent"
  /\ flow.pc \in {"signing", "sending", "confirming"} => stash.stage = "attempted"
  /\ At("deciding") \/ Taking => HasNotes
  /\ At("redeemed") /\ flow.res \in {"ok", "dead"} => mint[stash.notes] # "out"
  /\ At("sending") => outbox[flow.notes] # "none" \/ flow.notes \in relay

\* Notes on their way from the mint are known to nobody, claimed ones to all.
FreshNotes ==
  /\ \A n \in Notes : mint[n] \in {"unspent", "issued"} => NeverSent(n) /\ n \notin seen
  /\ At("returned") => /\ mint[flow.notes] \in {"issued", "back"}
                       /\ NeverSent(flow.notes) /\ flow.notes \notin seen
  /\ \A n \in Notes : mint[n] = "claimed" => n \in relay

\* The entry holds real notes, and unpublished ones before the attempt.
EntryNotes ==
  HasNotes => /\ mint[stash.notes] \notin {"unspent", "issued"}
              /\ stash.stage = "spent" => NeverSent(stash.notes) /\ stash.notes \notin seen

\* What memory knows better than the relays is the entry's LOCK only, and
\* nothing while a funding is under way.
LocalLock ==
  /\ HasNotes => seen \ relay \subseteq {stash.notes}
  /\ Funding \/ At("spending") \/ flow.why = "fund" => seen \subseteq relay

\* Notes come home when nobody can take their LOCK for a funded trade.
Harmless(n) == n \in late \/ ~ Alone(n) \/ NeverSent(n)

HomeIsHarmless ==
  /\ \A n \in Notes : mint[n] = "back" /\ n \notin aged =>
       Harmless(n) /\ ~ (Funding /\ flow.notes = n)
  /\ Taking => IF flow.back = "credit" THEN stash.notes \in late
               ELSE ~ Alone(stash.notes) \/ NeverSent(stash.notes)

SInv == FlowFits /\ FreshNotes /\ EntryNotes /\ LocalLock /\ HomeIsHarmless
        /\ NotesAccounted /\ OutboxHoldsUnsent

-----------------------------------------------------------------------------
(* Types *)

LEMMA NotesAreNat ==
  /\ Notes \subseteq Nat /\ NoNotes \notin Notes /\ NoNotes \notin Locks
  /\ Notes \subseteq Locks /\ MaxAttempts \in Nat /\ MaxCrashes \in Nat
BY StashAssumption DEF Notes, NoNotes, Locks

(* A LOCK that stands was read, and a refused one too.                      *)
LEMMA StandingRead ==
  ASSUME NEW R
  PROVE  Standing(R) \subseteq R \cap Locks /\ Refused(R) \subseteq R \cap Locks \cap late
BY DEF Standing, Refused

(* What a load and a publish leave in the outbox.                           *)
LEMMA BoxType ==
  ASSUME TypeOK, NEW f
  PROVE  /\ Acked(f) \in [Notes -> {"none", "pending", "expired"}]
         /\ \A n \in Notes : Acked(f)[n] = outbox[n] \/ (n \in f /\ Acked(f)[n] = "none")
BY DEF TypeOK, Acked

(* A funding that got notes carries them to its end.                        *)
Carries ==
  flow.pc \in {"returned", "checking", "signing", "sending", "confirming"} => flow.notes \in Notes

TInv == TypeOK /\ Carries

(* A step of a funding keeps the types.                                     *)
LEMMA FundType == TInv /\ FundStep => TInv'
<1> SUFFICES ASSUME TInv, FundStep PROVE TInv'
  OBVIOUS
<1> USE NotesAreNat DEF TInv, TypeOK, Carries, At, Go, Failed, Settling, Spending, Flow, IdleFlow,
        NoEntry, Intent, NoNotes, HasNotes
<1>1. CASE FundTap      BY <1>1 DEF FundTap
<1>2. ASSUME NEW n \in Notes, SpendAtMint(n) PROVE TInv'
  BY <1>2 DEF SpendAtMint
<1>3. CASE SpendFails   BY <1>3 DEF SpendFails
<1>4. CASE OnSpent      BY <1>4 DEF OnSpent
<1>5. CASE CheckFails   BY <1>5 DEF CheckFails
<1>6. CASE Check        BY <1>6 DEF Check
<1>7. CASE Sign         BY <1>7 DEF Sign, Locks
<1>8. CASE SignFails    BY <1>8 DEF SignFails
<1>9. CASE ConfirmFails BY <1>9 DEF ConfirmFails
<1>10. ASSUME NEW has \in BOOLEAN, NEW acked \in BOOLEAN, Send(has, acked) PROVE TInv'
  BY <1>10 DEF Send, Publish, Locks
<1>11. ASSUME NEW f \in SUBSET relay, Confirm(f) PROVE TInv'
  <2>1. seen' \subseteq Locks \cup {Cancel} /\ outbox' \in [Notes -> {"none", "pending", "expired"}]
    BY <1>11, BoxType DEF Confirm, Load
  <2>2. flow' \in {IdleFlow, Settling("after")} /\ stash' \in {stash, NoEntry}
        /\ blind' \subseteq blind \cup {flow.notes}
    BY <1>11 DEF Confirm, Blindly
  <2>3. flow.notes \in Notes /\ UNCHANGED <<mint, aged, relay, late, sent, drain, crashes>>
    BY <1>11 DEF Confirm
  <2> QED BY <2>1, <2>2, <2>3
<1> QED BY <1>1, <1>2, <1>3, <1>4, <1>5, <1>6, <1>7, <1>8, <1>9, <1>10, <1>11 DEF FundStep

(* A step of a settle keeps the types.                                      *)
LEMMA SettleType == TInv /\ SettleStep => TInv'
<1> SUFFICES ASSUME TInv, SettleStep PROVE TInv'
  OBVIOUS
<1> USE NotesAreNat DEF TInv, TypeOK, Carries, At, Go, Settled, Settling, Spending, Flow, IdleFlow, NoEntry,
        Intent, NoNotes,
        SettleReads, Load, TakeBack, Retired, EmptyBox, Blindly
<1>1. ASSUME NEW why \in {"boot", "tap"}, StartSettle(why) PROVE TInv'
  BY <1>1 DEF StartSettle
<1>2. CASE SettleKeeps   BY <1>2 DEF SettleKeeps
<1>3. CASE AfterRedeem   BY <1>3 DEF AfterRedeem
<1>4. ASSUME NEW f \in SUBSET relay, SettleOwnLock(f) PROVE TInv'
  <2>1. seen' \subseteq Locks \cup {Cancel} /\ outbox' \in [Notes -> {"none", "pending", "expired"}]
    BY <1>4, BoxType DEF SettleOwnLock
  <2>2. flow' \in {IdleFlow, Spending, Settling("fail")} /\ stash' \in {stash, NoEntry}
    BY <1>4 DEF SettleOwnLock
  <2>3. stash.notes \in Notes
    BY <1>4, StandingRead DEF SettleOwnLock
  <2>4. blind' \in {blind, blind \cup {stash.notes}}
        /\ UNCHANGED <<mint, aged, relay, late, sent, drain, crashes>>
    BY <1>4 DEF SettleOwnLock
  <2>5. Carries' /\ flow' \in [pc : {"idle", "spending", "deciding"}, why : {"none", "fail"},
                               notes : {NoNotes}, res : {"none"}, back : {"none"}]
    BY <2>2
  <2>6. stash' \in [stage : {"none", "intent", "spent", "attempted"},
                    notes : Notes \cup {NoNotes}, tries : 0 .. MaxAttempts]
    BY <2>2
  <2> QED BY <2>1, <2>3, <2>4, <2>5, <2>6
<1>5. ASSUME NEW f \in SUBSET relay, SettleNoLock(f) PROVE TInv'
  BY <1>5, BoxType DEF SettleNoLock, Restored
<1>6. ASSUME NEW f \in SUBSET relay, SettleRefused(f) PROVE TInv'
  BY <1>6, BoxType DEF SettleRefused, Restored
<1>7. ASSUME NEW f \in SUBSET relay, SettleWaits(f) PROVE TInv'
  BY <1>7, BoxType DEF SettleWaits
<1>8. ASSUME NEW res \in {"ok", "dead", "error"}, RedeemAtMint(res) PROVE TInv'
  BY <1>8 DEF RedeemAtMint
<1> QED BY <1>1, <1>2, <1>3, <1>4, <1>5, <1>6, <1>7, <1>8 DEF SettleStep

(* So does what waits for nobody: the outbox, and the rest of the world.    *)
LEMMA OthersType == TInv /\ (OutboxStep \/ WorldStep) => TInv'
<1> SUFFICES ASSUME TInv, OutboxStep \/ WorldStep PROVE TInv'
  OBVIOUS
<1> USE NotesAreNat DEF TInv, TypeOK, Carries, Flow, IdleFlow, IdleDrain, NoEntry, NoNotes
<1>1. CASE DrainStarts
  <2>1. outbox' \in [Notes -> {"none", "pending", "expired"}]
    BY <1>1 DEF DrainStarts
  <2> QED BY <1>1, <2>1 DEF DrainStarts
<1>2. ASSUME NEW n \in Notes, DrainNext(n) PROVE TInv'
  BY <1>2 DEF DrainNext
<1>3. ASSUME NEW has \in BOOLEAN, NEW acked \in BOOLEAN, DrainSends(has, acked) PROVE TInv'
  BY <1>3 DEF DrainSends, Publish
<1>4. ASSUME NEW n \in Notes, LateOk(n) PROVE TInv'
  BY <1>4 DEF LateOk
<1>5. ASSUME NEW f \in SUBSET relay, OpenTrade(f) PROVE TInv'
  BY <1>5, BoxType DEF OpenTrade, Load
<1>6. CASE DropIntent   BY <1>6 DEF DropIntent
<1>7. CASE Crash
  <2>1. crashes' \in 0 .. MaxCrashes
    BY <1>7 DEF Crash
  <2> QED BY <1>7, <2>1 DEF Crash
<1>8. CASE CancelTrade
  <2>1. relay' = relay \cup {Cancel}
    BY <1>8 DEF CancelTrade
  <2>2. UNCHANGED <<mint, aged, late, seen, stash, outbox, sent, flow, drain, blind, crashes>>
    BY <1>8 DEF CancelTrade
  <2>3. relay' \subseteq Locks \cup {Cancel}
    BY <2>1
  <2> QED BY <2>2, <2>3
<1>9. ASSUME NEW l \in Rivals, RivalLock(l) PROVE TInv'
  <2>1. relay' = relay \cup {l} /\ late' \in {late, late \cup {l}} /\ l \in Locks
    BY <1>9 DEF RivalLock, Locks
  <2> QED BY <1>9, <2>1 DEF RivalLock
<1>10. ASSUME NEW n \in Notes, Age(n) \/ AutoRefund(n) \/ WinnerClaims(n) PROVE TInv'
  <2>1. aged' \in {aged, aged \cup {n}}
        /\ mint' \in {mint, [mint EXCEPT ![n] = "back"], [mint EXCEPT ![n] = "claimed"]}
    BY <1>10 DEF Age, AutoRefund, WinnerClaims
  <2>2. UNCHANGED <<relay, late, seen, stash, outbox, sent, flow, drain, blind, crashes>>
    BY <1>10 DEF Age, AutoRefund, WinnerClaims
  <2> QED BY <2>1, <2>2
<1> QED BY <1>1, <1>2, <1>3, <1>4, <1>5, <1>6, <1>7, <1>8, <1>9, <1>10 DEF OutboxStep, WorldStep

(* The types hold at first and survive every step.                          *)
LEMMA StashTypeInit == Init => TInv
BY NotesAreNat DEF Init, TInv, TypeOK, Carries, NoEntry, EmptyBox, Flow, IdleFlow, IdleDrain, NoNotes

(* A step of anybody keeps the types.                                       *)
LEMMA StashTypeNext == TInv /\ [Next]_vars => TInv'
<1>1. TInv /\ UNCHANGED vars => TInv'
  BY DEF TInv, TypeOK, Carries, At, vars
<1> QED BY <1>1, FundType, SettleType, OthersType DEF Next

\* TypeOK holds for any number of spends, rivals and crashes.
THEOREM StashTypes == Spec => []TypeOK
<1>1. TInv => TypeOK
  BY DEF TInv
<1> QED BY <1>1, StashTypeInit, StashTypeNext, PTL DEF Spec

-----------------------------------------------------------------------------
(* The inductive invariant *)

(* An open trade, as read, is one without events.                            *)
LEMMA FundableEmpty == ASSUME TypeOK, Fundable(seen) PROVE seen = {}
BY DEF TypeOK, Fundable, Standing, Refused

(* A set that is neither empty nor {x} has something else in it.             *)
LEMMA AnotherOne == ASSUME NEW S, NEW x, S \notin {{}, {x}} PROVE \E l \in S : l # x
OBVIOUS

(* Nobody else's event is one of ours.                                       *)
LEMMA OthersAreNotOurs == Rivals \cap Notes = {} /\ Cancel \notin Notes
BY StashAssumption, NotesAreNat

(* A LOCK of somebody else that stands is on a relay.                        *)
LEMMA OtherLockCompetes ==
  ASSUME LocalLock, HasNotes, NEW f \in SUBSET relay,
         Standing(seen \cup f) \notin {{}, {stash.notes}}
  PROVE  ~ Alone(stash.notes)
<1>1. PICK l \in Standing(seen \cup f) : l # stash.notes
  BY AnotherOne
<1>2. l \in relay \cap Locks
  BY <1>1, StandingRead DEF LocalLock
<1> QED BY <1>1, <1>2 DEF Alone

(* The entry's LOCK cannot stand before it was attempted.                    *)
LEMMA OwnLockWasAttempted ==
  ASSUME EntryNotes, HasNotes, NEW f \in SUBSET relay, Standing(seen \cup f) = {stash.notes}
  PROVE  stash.stage # "spent"
<1>1. stash.notes \in seen \cup f
  BY StandingRead
<1> QED BY <1>1 DEF EntryNotes, NeverSent

(* What a read brings is on a relay, so news of ours it is not.               *)
LEMMA ReadingSendsNothing ==
  ASSUME TypeOK, NEW f \in SUBSET relay, outbox' \in {Acked(f), EmptyBox},
         UNCHANGED <<relay, drain>>
  PROVE  \A n \in Notes : NeverSent(n) => NeverSent(n)' /\ n \notin f
BY BoxType DEF NeverSent, EmptyBox, TypeOK

(* An event of somebody else adds a LOCK or a CANCEL, and no news of ours.   *)
LEMMA OthersPublish ==
  ASSUME TInv, SInv, NEW e, e \notin Notes, relay' = relay \cup {e}, late \subseteq late',
         UNCHANGED <<mint, aged, seen, stash, outbox, sent, flow, drain, blind, crashes>>
  PROVE  SInv'
<1>a. relay \subseteq relay' /\ (\A n : ~ Alone(n) => ~ Alone(n)')
  BY DEF Alone
<1>b. \A n \in Notes : (n \in relay' <=> n \in relay) /\ (NeverSent(n)' <=> NeverSent(n))
  BY DEF NeverSent
<1>c. \A n \in Notes : Harmless(n) => Harmless(n)'
  BY <1>a, <1>b DEF Harmless
<1> USE <1>a, <1>b, <1>c
    DEF SInv, TInv, TypeOK, FlowFits, FreshNotes, EntryNotes, LocalLock, HomeIsHarmless,
        NotesAccounted, OutboxHoldsUnsent, At, Go, Failed, Settled, Settling, Spending, Flow,
        IdleFlow, IdleDrain, NoEntry, Intent, NoNotes, HasNotes, Funding, Taking, Retired,
        EmptyBox
<1>1. FlowFits'
  OBVIOUS
<1>2. FreshNotes'
  OBVIOUS
<1>3. EntryNotes'
  OBVIOUS
<1>4. LocalLock'
  OBVIOUS
<1>5. HomeIsHarmless'
  OBVIOUS
<1>6. NotesAccounted'
  OBVIOUS
<1>7. OutboxHoldsUnsent'
  OBVIOUS
<1> QED BY <1>1, <1>2, <1>3, <1>4, <1>5, <1>6, <1>7

(* A funding keeps its promises at every await.                             *)
LEMMA FundInv == TInv /\ SInv /\ FundStep => SInv'
<1> SUFFICES ASSUME TInv, SInv, FundStep PROVE SInv'
  OBVIOUS
<1> USE NotesAreNat, BoxType, StandingRead
    DEF SInv, TInv, TypeOK, FlowFits, FreshNotes, EntryNotes, LocalLock, HomeIsHarmless,
        NotesAccounted, OutboxHoldsUnsent, At, Go, Failed, Settled, Settling, Spending, Flow,
        IdleFlow, IdleDrain, NoEntry, Intent, NoNotes, HasNotes, Funding, Taking, Retired,
        EmptyBox, NeverSent, Harmless, Alone, Locks
<1>1. CASE FundTap
  BY <1>1, FundableEmpty DEF FundTap
<1>2. ASSUME NEW n \in Notes, SpendAtMint(n) PROVE SInv'
  BY <1>2 DEF SpendAtMint
<1>3. CASE SpendFails
  BY <1>3 DEF SpendFails
<1>4. CASE OnSpent
  BY <1>4 DEF OnSpent
<1>5. CASE CheckFails
  BY <1>5 DEF CheckFails
<1>6. CASE Check
  BY <1>6 DEF Check
<1>7. CASE Sign
  BY <1>7 DEF Sign
<1>8. CASE SignFails
  BY <1>8 DEF SignFails
<1>9. ASSUME NEW has \in BOOLEAN, NEW acked \in BOOLEAN, Send(has, acked) PROVE SInv'
  BY <1>9 DEF Send, Publish
<1>10. ASSUME NEW f \in SUBSET relay, Confirm(f) PROVE SInv'
  BY <1>10 DEF Confirm, Load, Blindly
<1>11. CASE ConfirmFails
  BY <1>11 DEF ConfirmFails
<1> HIDE NotesAreNat, BoxType, StandingRead DEF SInv, TInv
<1> QED BY <1>1, <1>2, <1>3, <1>4, <1>5, <1>6, <1>7, <1>8, <1>9, <1>10, <1>11 DEF FundStep

(* A settle takes back nothing anybody could still trust.                   *)
LEMMA SettleInv == TInv /\ SInv /\ SettleStep => SInv'
<1> SUFFICES ASSUME TInv, SInv, SettleStep PROVE SInv'
  OBVIOUS
<1> USE NotesAreNat, BoxType, StandingRead
    DEF SInv, TInv, TypeOK, FlowFits, FreshNotes, EntryNotes, LocalLock, HomeIsHarmless,
        NotesAccounted, OutboxHoldsUnsent, At, Go, Failed, Settled, Settling, Spending, Flow,
        IdleFlow, IdleDrain, NoEntry, Intent, NoNotes, HasNotes, Funding, Taking, Retired,
        EmptyBox, NeverSent, Harmless, Alone, Locks
<1>1. ASSUME NEW why \in {"boot", "tap"}, StartSettle(why) PROVE SInv'
  BY <1>1 DEF StartSettle
<1>2. CASE SettleKeeps
  BY <1>2 DEF SettleKeeps
<1>3. CASE AfterRedeem
  BY <1>3 DEF AfterRedeem
<1>4. ASSUME NEW f \in SUBSET relay, SettleOwnLock(f) PROVE SInv'
  <2>a. HasNotes /\ f \subseteq relay /\ seen' = seen \cup f /\ stash' \in {stash, NoEntry}
        /\ flow' \in {IdleFlow, Settling("fail")} /\ UNCHANGED <<mint, aged, relay, late, drain>>
        /\ (stash' = NoEntry => flow' = IdleFlow)
        /\ blind' = (IF stash' = stash \/ stash.notes \in relay THEN blind ELSE blind \cup {stash.notes})
    BY <1>4 DEF SettleOwnLock, SettleReads, Load, Blindly
  <2>b. outbox' \in {Acked(f), EmptyBox} /\ (stash' = stash => outbox' = Acked(f))
    BY <1>4 DEF SettleOwnLock
  <2>c. \A m \in Notes : NeverSent(m) => NeverSent(m)' /\ m \notin f
    BY <1>4, <2>b, ReadingSendsNothing DEF SettleOwnLock
  <2>d. stash.stage # "spent"
    BY <1>4, OwnLockWasAttempted DEF SettleOwnLock, SettleReads
  <2> HIDE StandingRead DEF NeverSent
  <2>1. FlowFits'
    BY <2>a, <2>b, <2>c, <2>d
  <2>2. FreshNotes'
    BY <2>a, <2>b, <2>c, <2>d
  <2>3. EntryNotes'
    BY <2>a, <2>b, <2>c, <2>d
  <2>4. LocalLock'
    BY <2>a, <2>b, <2>c, <2>d
  <2>5. HomeIsHarmless'
    BY <2>a, <2>b, <2>c, <2>d
  <2>6. NotesAccounted'
    BY <2>a, <2>b, <2>c, <2>d
  <2>7. OutboxHoldsUnsent'
    BY <2>a, <2>b, <2>c, <2>d
  <2> QED BY <2>1, <2>2, <2>3, <2>4, <2>5, <2>6, <2>7
<1>5. ASSUME NEW f \in SUBSET relay, SettleNoLock(f) PROVE SInv'
  <2>a. HasNotes /\ f \subseteq relay /\ seen' = seen \cup f /\ stash'.notes = stash.notes
        /\ stash'.stage = stash.stage /\ flow'.pc = "redeeming" /\ flow'.why = flow.why
        /\ flow'.back # "credit" /\ UNCHANGED <<mint, aged, relay, late, drain, blind>>
    BY <1>5 DEF SettleNoLock, SettleReads, Load, TakeBack, Restored
  <2>b. \A m \in Notes : outbox'[m] = outbox[m] \/ (m \in relay /\ outbox'[m] = "none")
    BY <1>5 DEF SettleNoLock
  <2>c. \A m \in Notes : NeverSent(m) => NeverSent(m)' /\ m \notin f
    BY <1>5, ReadingSendsNothing DEF SettleNoLock
  <2>d. ~ Alone(stash.notes) \/ NeverSent(stash.notes)
    BY <1>5, OtherLockCompetes DEF SettleNoLock, SettleReads
  <2> HIDE NotesAreNat, BoxType, StandingRead DEF NeverSent
  <2>1. FlowFits'
    BY <2>a, <2>b, <2>c, <2>d
  <2>2. FreshNotes'
    BY <2>a, <2>b, <2>c, <2>d
  <2>3. EntryNotes'
    BY <2>a, <2>b, <2>c, <2>d
  <2>4. LocalLock'
    BY <2>a, <2>b, <2>c, <2>d
  <2>5. HomeIsHarmless'
    BY <2>a, <2>b, <2>c, <2>d
  <2>6. NotesAccounted'
    BY <2>a, <2>b, <2>c, <2>d
  <2>7. OutboxHoldsUnsent'
    BY <2>a, <2>b, <2>c, <2>d
  <2> QED BY <2>1, <2>2, <2>3, <2>4, <2>5, <2>6, <2>7
<1>6. ASSUME NEW f \in SUBSET relay, SettleRefused(f) PROVE SInv'
  BY <1>6 DEF SettleRefused, SettleReads, Load, TakeBack
<1>7. ASSUME NEW f \in SUBSET relay, SettleWaits(f) PROVE SInv'
  BY <1>7 DEF SettleWaits, SettleReads, Load
<1>8. ASSUME NEW res \in {"ok", "dead", "error"}, RedeemAtMint(res) PROVE SInv'
  BY <1>8 DEF RedeemAtMint
<1> HIDE NotesAreNat, BoxType, StandingRead DEF SInv, TInv
<1> QED BY <1>1, <1>2, <1>3, <1>4, <1>5, <1>6, <1>7, <1>8 DEF SettleStep

(* The outbox forgets only what a relay has.                                *)
LEMMA OutboxInv == TInv /\ SInv /\ OutboxStep => SInv'
<1> SUFFICES ASSUME TInv, SInv, OutboxStep PROVE SInv'
  OBVIOUS
<1> USE NotesAreNat, BoxType, StandingRead
    DEF SInv, TInv, TypeOK, FlowFits, FreshNotes, EntryNotes, LocalLock, HomeIsHarmless,
        NotesAccounted, OutboxHoldsUnsent, At, Go, Failed, Settled, Settling, Spending, Flow,
        IdleFlow, IdleDrain, NoEntry, Intent, NoNotes, HasNotes, Funding, Taking, Retired,
        EmptyBox, NeverSent, Harmless, Alone, Locks
<1>1. CASE DrainStarts
  BY <1>1 DEF DrainStarts
<1>2. ASSUME NEW n \in Notes, DrainNext(n) PROVE SInv'
  BY <1>2 DEF DrainNext
<1>3. ASSUME NEW has \in BOOLEAN, NEW acked \in BOOLEAN, DrainSends(has, acked) PROVE SInv'
  BY <1>3 DEF DrainSends, Publish
<1>4. ASSUME NEW n \in Notes, LateOk(n) PROVE SInv'
  BY <1>4 DEF LateOk
<1>5. ASSUME NEW f \in SUBSET relay, OpenTrade(f) PROVE SInv'
  <2>a. \A m \in Notes : outbox'[m] = outbox[m] \/ (m \in relay /\ outbox'[m] = "none")
    BY <1>5 DEF OpenTrade
  <2>b. f \subseteq relay /\ seen' = seen \cup f
        /\ UNCHANGED <<mint, aged, relay, late, stash, sent, flow, drain, blind, crashes>>
    BY <1>5 DEF OpenTrade, Load
  <2>c. \A m \in Notes : NeverSent(m) => NeverSent(m)' /\ m \notin f
    BY <1>5, ReadingSendsNothing DEF OpenTrade
  <2>d. \A m : Alone(m)' <=> Alone(m)
    BY <2>b DEF Alone
  <2> HIDE NotesAreNat, BoxType, StandingRead DEF NeverSent, Alone
  <2>1. FlowFits'
    BY <2>a, <2>b, <2>c, <2>d
  <2>2. FreshNotes'
    BY <2>a, <2>b, <2>c, <2>d
  <2>3. EntryNotes'
    BY <2>a, <2>b, <2>c, <2>d
  <2>4. LocalLock'
    BY <2>a, <2>b, <2>c, <2>d
  <2>5. HomeIsHarmless'
    BY <2>a, <2>b, <2>c, <2>d
  <2>6. NotesAccounted'
    BY <2>a, <2>b, <2>c, <2>d
  <2>7. OutboxHoldsUnsent'
    BY <2>a, <2>b, <2>c, <2>d
  <2> QED BY <2>1, <2>2, <2>3, <2>4, <2>5, <2>6, <2>7
<1> HIDE NotesAreNat, BoxType, StandingRead DEF SInv, TInv
<1> QED BY <1>1, <1>2, <1>3, <1>4, <1>5 DEF OutboxStep

(* A crash, another device and the mint break nothing.                      *)
LEMMA WorldInv == TInv /\ SInv /\ WorldStep => SInv'
<1> SUFFICES ASSUME TInv, SInv, WorldStep PROVE SInv'
  OBVIOUS
<1>3. CASE CancelTrade
  <2>1. Cancel \notin Notes /\ relay' = relay \cup {Cancel}
        /\ UNCHANGED <<mint, aged, late, seen, stash, outbox, sent, flow, drain, blind, crashes>>
    BY <1>3, OthersAreNotOurs DEF CancelTrade
  <2> QED BY <2>1, OthersPublish
<1>4. ASSUME NEW l \in Rivals, RivalLock(l) PROVE SInv'
  <2>1. l \notin Notes /\ relay' = relay \cup {l} /\ late \subseteq late'
        /\ UNCHANGED <<mint, aged, seen, stash, outbox, sent, flow, drain, blind, crashes>>
    BY <1>4, OthersAreNotOurs DEF RivalLock
  <2> QED BY <2>1, OthersPublish
<1> USE NotesAreNat, BoxType, StandingRead
    DEF SInv, TInv, TypeOK, FlowFits, FreshNotes, EntryNotes, LocalLock, HomeIsHarmless,
        NotesAccounted, OutboxHoldsUnsent, At, Go, Failed, Settled, Settling, Spending, Flow,
        IdleFlow, IdleDrain, NoEntry, Intent, NoNotes, HasNotes, Funding, Taking, Retired,
        EmptyBox, NeverSent, Harmless, Alone, Locks
<1>1. CASE DropIntent
  BY <1>1 DEF DropIntent
<1>2. CASE Crash
  <2>a. PICK s \in SUBSET {drain.sending, IF At("sending") THEN flow.notes ELSE NoNotes} :
           relay' = relay \cup s /\ NoNotes \notin s
    BY <1>2 DEF Crash
  <2>b. UNCHANGED <<mint, aged, late, stash, outbox, blind>>
        /\ flow' = IdleFlow /\ drain' = IdleDrain /\ seen' = {}
    BY <1>2 DEF Crash
  <2>c. HasNotes /\ stash.stage = "spent" => stash.notes \notin s
    <3> SUFFICES ASSUME HasNotes, stash.stage = "spent", stash.notes \in s PROVE FALSE
      OBVIOUS
    <3>1. stash.notes # drain.sending /\ flow.pc # "sending"
      OBVIOUS
    <3>2. stash.notes \in {drain.sending, NoNotes}
      BY <2>a, <3>1
    <3> QED BY <2>a, <3>1, <3>2
  <2>1. FlowFits'
    BY <2>a, <2>b, <2>c
  <2>2. FreshNotes'
    BY <2>a, <2>b, <2>c
  <2>3. EntryNotes'
    BY <2>a, <2>b, <2>c
  <2>4. LocalLock'
    BY <2>a, <2>b, <2>c
  <2>5. HomeIsHarmless'
    BY <2>a, <2>b, <2>c
  <2>6. NotesAccounted'
    BY <2>a, <2>b, <2>c
  <2>7. OutboxHoldsUnsent'
    BY <2>a, <2>b, <2>c
  <2> QED BY <2>1, <2>2, <2>3, <2>4, <2>5, <2>6, <2>7
<1>5. ASSUME NEW n \in Notes, Age(n) PROVE SInv'
  BY <1>5 DEF Age
<1>6. ASSUME NEW n \in Notes, AutoRefund(n) PROVE SInv'
  BY <1>6 DEF AutoRefund
<1>7. ASSUME NEW n \in Notes, WinnerClaims(n) PROVE SInv'
  BY <1>7 DEF WinnerClaims
<1> HIDE NotesAreNat, BoxType, StandingRead DEF SInv, TInv
<1> QED BY <1>1, <1>2, <1>3, <1>4, <1>5, <1>6, <1>7 DEF WorldStep

(* All of it holds at first and survives every step.                         *)
LEMMA StashInvInit == Init => SInv
BY NotesAreNat
   DEF Init, SInv, FlowFits, FreshNotes, EntryNotes, LocalLock, HomeIsHarmless, NotesAccounted,
       OutboxHoldsUnsent, At, Flow, IdleFlow, IdleDrain, NoEntry, NoNotes, HasNotes, Funding,
       Taking, EmptyBox, NeverSent, Harmless

(* And the invariant.                                                        *)
LEMMA StashInvNext == TInv /\ SInv /\ [Next]_vars => SInv'
<1>1. SInv /\ UNCHANGED vars => SInv'
  BY DEF SInv, FlowFits, FreshNotes, EntryNotes, LocalLock, HomeIsHarmless, NotesAccounted,
       OutboxHoldsUnsent, At, HasNotes, Funding, Taking, NeverSent, Harmless, Alone, vars
<1> QED BY <1>1, FundInv, SettleInv, OutboxInv, WorldInv DEF Next

(* What every reachable state satisfies.                                     *)
LEMMA StashInvariant == Spec => [](TInv /\ SInv)
BY StashTypeInit, StashTypeNext, StashInvInit, StashInvNext, PTL DEF Spec

\* NotesAccounted: whatever crashes, is lost or fails, bearer notes are in the
\* stash, in a LOCK on a relay, or were cleared for one that memory shows.
THEOREM NotesStayAccounted == Spec => []NotesAccounted
BY StashInvariant, PTL DEF SInv

\* OutboxHoldsUnsent: a LOCK shown as the trade's is on a relay or queued.
THEOREM ShownLocksAreSent == Spec => []OutboxHoldsUnsent
BY StashInvariant, PTL DEF SInv

\* NoHollowLock: before the horizon, no LOCK that reads as funded is left on a
\* relay by a settle that took its notes home.
THEOREM NoHollowLocks == Spec => []NoHollowLock
<1>1. SInv => NoHollowLock
  BY DEF SInv, HomeIsHarmless, Harmless, NeverSent, NoHollowLock
<1> QED BY <1>1, StashInvariant, PTL

\* DeadMeansHome: an entry dropped on the mint's "already spent" loses nothing,
\* unless another LOCK competes.
THEOREM DeadEntriesAreHome == Spec => DeadMeansHome
<1>1. TInv /\ SInv /\ [Next]_vars =>
        (At("redeemed") /\ flow.res = "dead" /\ stash'.stage # stash.stage
           => mint[stash.notes] = "back" \/ ~ Alone(stash.notes))
  <2> SUFFICES ASSUME TInv, SInv, [Next]_vars, At("redeemed"), flow.res = "dead",
                      stash'.stage # stash.stage
               PROVE  mint[stash.notes] = "back" \/ ~ Alone(stash.notes)
    OBVIOUS
  <2>1. AfterRedeem
    <3>1. ~ FundStep
      BY DEF FundStep, FundTap, SpendAtMint, SpendFails, OnSpent, CheckFails, Check, Sign,
         SignFails, Send, Confirm, ConfirmFails, At
    <3>2. SettleStep => AfterRedeem
      BY DEF SettleStep, StartSettle, SettleKeeps, SettleOwnLock, SettleNoLock, SettleRefused,
         SettleWaits, SettleReads, RedeemAtMint, At
    <3>3. stash' # stash
      OBVIOUS
    <3>4. ~ OutboxStep /\ ~ WorldStep /\ ~ UNCHANGED vars
      BY <3>3 DEF OutboxStep, DrainStarts, DrainNext, DrainSends, LateOk, OpenTrade, WorldStep,
         DropIntent, Crash, CancelTrade, RivalLock, Age, AutoRefund, WinnerClaims, vars, At
    <3> QED BY <3>1, <3>2, <3>4 DEF Next
  <2>2. flow.back # "credit"
    BY <2>1 DEF AfterRedeem, Settled
  <2>3. HasNotes /\ stash.notes \in Notes
        /\ mint[stash.notes] \notin {"out", "unspent", "issued"}
    BY DEF SInv, FlowFits, EntryNotes, At, Taking
  <2>4. mint[stash.notes] = "claimed" => ~ Alone(stash.notes)
    BY <2>2, <2>3 DEF SInv, HomeIsHarmless, FreshNotes, NeverSent, At, Taking
  <2> QED BY <2>3, <2>4 DEF TInv, TypeOK
<1> QED BY <1>1, StashInvariant, PTL DEF Spec, DeadMeansHome

=============================================================================
