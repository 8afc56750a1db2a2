----------------------------- MODULE Redemption -----------------------------
(***************************************************************************)
(* The stash of claimed notes: how the bearer note of a won escrow is kept *)
(* until the wallet has it (pending-redemptions.ts), and the three parties *)
(* that redeem it under the mint lock (mint-mutex.ts): the drain of the    *)
(* boot, the claim and its payout (claim-and-payout.ts), and the tap on a  *)
(* recovery card, which asks the federation by taking the note             *)
(* (reabsorb-bearer-notes.ts).                                             *)
(*                                                                         *)
(* All notes are worth one unit.  That is the hard case: amounts are the   *)
(* only thing the history of the wallet and its balance know.              *)
(***************************************************************************)
EXTENDS Integers, FiniteSets

CONSTANTS
  Claims,       \* the escrows this user won, one note each
  NoClaim,      \* stands for the absence of one
  MaxAttempts,  \* MAX_DRAIN_ATTEMPTS
  MaxTaps,      \* bound: claims, exports and probes the user starts
  MaxDeposits,  \* bound: payments into the wallet from elsewhere
  MaxCrashes    \* bound: deaths of the page

ASSUME RedemptionAssumption ==
  /\ NoClaim \notin Claims
  /\ MaxAttempts \in Nat \ {0}
  /\ MaxTaps \in Nat
  /\ MaxDeposits \in Nat
  /\ MaxCrashes \in Nat

VARIABLES
  native,   \* the wallet of the native shell, not of the browser
  note,     \* what has become of each note at the federation
  recent,   \* the claims whose reissue is done, inside the history window
  kept,     \* the claims that have an entry in the stash
  entry,    \* the entries
  export,   \* the claim whose note is in the ecash-export slot
  due,      \* what the running drain has still to look at, ...
  copy,     \* ... in the copy it took of the stash when it began
  at,       \* where each party stands
  job,      \* the claim it is working on
  ahead,    \* the parties it waits for at the mint lock
  base,     \* the balance when its bracket was opened
  mark,     \* the balance when the lock was granted, of use to the native wallet
  balance,  \* the balance of the wallet
  begun,    \* history: the claims that were stashed at some time
  paid,     \* the claims whose payout is confirmed (the journal says so)
  covered,  \* history: those that were paid because the balance sufficed
  mixed,    \* history: those a credit of something else could be taken for
  deposits, taps, crashes

wallet == <<note, recent, balance, deposits>>
store  == <<kept, entry, export>>
drain  == <<due, copy>>
line   == <<at, job, ahead, base, mark>>
past   == <<begun, paid, covered, mixed, taps, crashes>>
vars   == <<native, wallet, store, drain, line, past>>

Procs == {"drain", "claim", "probe"}

Notes == {"live", "sent", "ours", "refused", "taken"}

\* recordBearerProbe also writes "unknown", which nothing reads.
Verdicts == {"none", "foreign", "consumed"}

\* What the stash remembers of one claim.  lastError and poisonedAt come and go
\* together.
Entry == [tries : 0 .. MaxAttempts, credited : BOOLEAN, poisoned : BOOLEAN,
          unresolved : BOOLEAN, resolved : BOOLEAN, verdict : Verdicts]

Fresh == [tries |-> 0, credited |-> FALSE, poisoned |-> FALSE,
          unresolved |-> FALSE, resolved |-> FALSE, verdict |-> "none"]

AtMint == {"sent", "again"}
InLine == {"waiting"} \cup AtMint
Stages == {"idle", "between", "verdict", "failed", "paying", "covering"}
            \cup InLine

TypeOK ==
  /\ native \in BOOLEAN
  /\ note \in [Claims -> Notes]
  /\ recent \subseteq Claims
  /\ kept \subseteq Claims
  /\ entry \in [Claims -> Entry]
  /\ export \in Claims \cup {NoClaim}
  /\ due \subseteq Claims
  /\ copy \in [Claims -> Entry]
  /\ at \in [Procs -> Stages]
  /\ job \in [Procs -> Claims \cup {NoClaim}]
  /\ ahead \in [Procs -> SUBSET Procs]
  /\ base \in [Procs -> Int]
  /\ mark \in Int
  /\ balance \in Int
  /\ begun \subseteq Claims
  /\ paid \subseteq Claims
  /\ covered \subseteq Claims
  /\ mixed \subseteq Claims
  /\ deposits \in 0 .. MaxDeposits
  /\ taps \in 0 .. MaxTaps
  /\ crashes \in 0 .. MaxCrashes

-----------------------------------------------------------------------------

(***************************************************************************)
(* Reading an entry.                                                       *)
(***************************************************************************)

\* isConsumedCreditUnconfirmed, the verdict of a probe.
Consumed(e) == e.verdict = "consumed"

\* Slip: one attempt too many.
DrainTriesSlip(e) ==
  ~e.credited /\ ~Consumed(e) /\ ~e.poisoned /\ e.tries <= MaxAttempts

\* What the drain does not skip.
DrainTries(e) ==
  ~e.credited /\ ~Consumed(e) /\ ~e.poisoned /\ e.tries < MaxAttempts

\* isRetryingAutomatically.
Retrying(e) ==
  /\ ~e.resolved /\ ~e.credited /\ ~Consumed(e)
  /\ ~e.unresolved /\ ~e.poisoned
  /\ e.tries < MaxAttempts

\* Slip: an entry that ran out of attempts counts only once it has an error.
StrandedSlip(e) == ~e.resolved /\ (e.unresolved \/ Consumed(e) \/ e.poisoned)

\* listStrandedRedemptions.  It does not ask whether the entry is credited.
Stranded(e) ==
  /\ ~e.resolved
  /\ e.unresolved \/ Consumed(e) \/ e.poisoned \/ e.tries >= MaxAttempts

Open(c) == c \in kept /\ Stranded(entry[c])

\* The stranded entries whose credit is in question; the sum the balance is
\* held against.
Doubtful == {c \in kept : ~entry[c].resolved
                            /\ (entry[c].unresolved \/ Consumed(entry[c]))}

(***************************************************************************)
(* Writing one.  A mark on an entry that is gone changes nothing.          *)
(***************************************************************************)
MarkedCredited(e) ==
  [e EXCEPT !.credited = TRUE, !.poisoned = FALSE, !.unresolved = FALSE]

MarkedUnresolved(e) == [e EXCEPT !.poisoned = TRUE, !.unresolved = TRUE]

MarkedPoisoned(e) == [e EXCEPT !.poisoned = TRUE]

MarkedConsumed(e) ==
  [e EXCEPT !.poisoned = TRUE, !.unresolved = TRUE, !.verdict = "consumed"]

MarkedResolved(e) == [e EXCEPT !.unresolved = TRUE, !.resolved = TRUE]

\* Slip: an answer that says nothing replaces one that did.
ProbedSlip(e, v) == [e EXCEPT !.verdict = v]

\* recordBearerProbe: no answer ("unknown") does not undo an answer.
Probed(e, v) == IF v = "none" THEN e ELSE [e EXCEPT !.verdict = v]

Marks(c, e) == IF c \in kept THEN entry' = [entry EXCEPT ![c] = e]
                             ELSE UNCHANGED entry

Clears(c) == kept' = kept \ {c} /\ entry' = [entry EXCEPT ![c] = Fresh]

\* Slip: a claim that is tried again forgets that its note was credited.
RestashedSlip(c) ==
  IF c \in kept THEN [entry[c] EXCEPT !.resolved = FALSE, !.credited = FALSE]
                ELSE Fresh

\* stashPendingRedemption, with the same note: only the archive mark goes.
Restashed(c) ==
  IF c \in kept THEN [entry[c] EXCEPT !.resolved = FALSE] ELSE Fresh

-----------------------------------------------------------------------------

(***************************************************************************)
(* The mint lock: whoever comes waits for all who are in line, and who     *)
(* leaves, served or not, frees those behind from waiting for him.         *)
(***************************************************************************)
Waiters == {p \in Procs : at[p] \in InLine}

\* Slip: a newcomer waits for the last in line alone.
LineForSlip(p) == {q \in Waiters : \A r \in Waiters : q \notin ahead[r]}

LineFor(p) == Waiters

Enlists(p, c) ==
  /\ at' = [at EXCEPT ![p] = "waiting"]
  /\ job' = [job EXCEPT ![p] = c]
  /\ ahead' = [ahead EXCEPT ![p] = LineFor(p)]

Without(p) == [q \in Procs |-> ahead[q] \ {p}]

\* At the head of the line.
Served(p) == at[p] \in AtMint \/ (at[p] = "waiting" /\ ahead[p] = {})

(***************************************************************************)
(* The wallet.                                                             *)
(***************************************************************************)

\* Those with a bracket open on the balance.
Watching == {p \in {"claim", "probe"} :
               at[p] \in InLine \cup {"verdict", "failed"}}

\* The balance moves for a reason that has nothing to do with what p watches.
Crossed(c) == {job[p] : p \in {q \in Watching : job[q] # c}}

\* reissueExternalNotes, by the party that is served.  The wallet tells a note
\* that it has submitted before; a call for one still under way may join that
\* call.  A note taken by someone else is refused, and the refusal may read like
\* a note submitted before.
Submits(p) ==
  LET c == job[p] IN
  /\ at[p] = "waiting" /\ Served(p)
  /\ \/ /\ note[c] = "live"
        /\ note' = [note EXCEPT ![c] = "sent"]
        /\ at' = [at EXCEPT ![p] = "sent"]
     \/ /\ note[c] = "taken"
        /\ note' = [note EXCEPT ![c] = "refused"]
        /\ \E s \in AtMint : at' = [at EXCEPT ![p] = s]
     \/ /\ note[c] = "sent"
        /\ at' = [at EXCEPT ![p] = "sent"]
        /\ UNCHANGED note
     \/ /\ note[c] \in {"sent", "ours", "refused"}
        /\ at' = [at EXCEPT ![p] = "again"]
        /\ UNCHANGED note
  /\ mark' = IF native THEN balance ELSE 0
  /\ UNCHANGED <<native, recent, balance, deposits, store, drain, job, ahead,
                 base, past>>

\* redeemWithRetry tries again, under the lock, and meets the note it submitted
\* before; a probe does not, nor does the claim of a browser wallet, which is
\* one.
Retries(p) ==
  /\ p = "drain" \/ (p = "claim" /\ native)
  /\ at[p] = "sent"
  /\ at' = [at EXCEPT ![p] = "again"]
  /\ UNCHANGED <<native, wallet, store, drain, job, ahead, base, mark, past>>

\* The reissue settles, whoever still listens.
Lands(c) ==
  /\ note[c] = "sent"
  /\ note' = [note EXCEPT ![c] = "ours"]
  /\ recent' = recent \cup {c}
  /\ balance' = balance + 1
  /\ mixed' = mixed \cup Crossed(c)
  /\ UNCHANGED <<native, deposits, store, drain, line, begun, paid,
                 covered, taps, crashes>>

\* The user's other device, or someone else who has the note, comes first.
TakenElsewhere(c) ==
  /\ note[c] \in {"live", "sent"}
  /\ note' = [note EXCEPT ![c] = IF @ = "live" THEN "taken" ELSE "refused"]
  /\ UNCHANGED <<native, recent, balance, deposits, store, drain, line, past>>

Deposit ==
  /\ deposits < MaxDeposits
  /\ deposits' = deposits + 1
  /\ balance' = balance + 1
  /\ mixed' = mixed \cup Crossed(NoClaim)
  /\ UNCHANGED <<native, note, recent, store, drain, line, begun, paid,
                 covered, taps, crashes>>

\* A reissue falls out of the window of MINT_REISSUE_HISTORY_SKEW_MS.
Ages(c) ==
  /\ c \in recent
  /\ recent' = recent \ {c}
  /\ UNCHANGED <<native, note, balance, deposits, store, drain, line, past>>

\* resumeMintReissueFromHistory: a reissue of the same amount that is done.
DoneInHistory == recent # {}

\* The browser wallet watches the reissue it submitted.  Of a note it had
\* submitted before, or that was refused as spent, it asks the history.
BrowserDone(p) ==
  LET c == job[p] IN
  \/ at[p] = "sent"  /\ note[c] = "ours"
  \/ at[p] = "sent"  /\ note[c] = "refused" /\ DoneInHistory
  \/ at[p] = "again" /\ DoneInHistory

\* The native one finds its own reissue by the note.  When that was refused,
\* confirmAlreadySpentCredit looks for the exact value in the balance.
NativeDone(p) ==
  LET c == job[p] IN
  /\ at[p] \in AtMint
  /\ note[c] = "ours" \/ (note[c] = "refused" /\ balance - mark = 1)

\* What a party hears at the end of its redeem, or of its wait for the lock:
\* done, consumed with no credit in sight, a note of another federation, or
\* nothing yet.
Hears(p, answer) ==
  CASE answer = "ok"       -> IF native THEN NativeDone(p) ELSE BrowserDone(p)
    [] answer = "consumed" -> /\ at[p] \in AtMint
                              /\ native => note[job[p]] = "refused"
    [] answer = "wrong"    -> at[p] = "waiting" /\ Served(p)
    [] answer = "later"    -> at[p] \in InLine

Answers == {"ok", "consumed", "wrong", "later"}

\* The history named the reissue of another claim, or the balance moved for
\* another reason.
Misread(p, answer) ==
  IF answer = "ok" /\ note[job[p]] # "ours" THEN {job[p]} ELSE {}

Taps == taps < MaxTaps /\ taps' = taps + 1

Leaves(p, stage) ==
  /\ at' = [at EXCEPT ![p] = stage]
  /\ job' = [job EXCEPT ![p] = IF stage \in {"idle", "between"} THEN NoClaim
                               ELSE @]
  /\ ahead' = Without(p)
  /\ mark' = IF Served(p) THEN 0 ELSE mark
  /\ base' = IF stage \in {"idle", "between"} THEN [base EXCEPT ![p] = 0]
             ELSE base

\* Slip: a balance that did not move is taken for the credit.
RecoveredSlip(p, answer) ==
  answer \in {"ok", "later"} /\ balance - base[p] \in {0, 1}

\* reabsorbBearerNotes: the note counts as recovered when the balance moved by
\* its value, exactly, and the federation did not reject it.
Recovered(p, answer) ==
  answer \in {"ok", "later"} /\ balance - base[p] = 1

-----------------------------------------------------------------------------

(***************************************************************************)
(* The drain of the boot, over a copy of the stash.                        *)
(***************************************************************************)
DrainStarts ==
  /\ at["drain"] = "idle"
  /\ due' = {c \in kept : DrainTries(entry[c])}
  /\ due' # {}
  /\ copy' = [c \in Claims |-> IF c \in due' THEN entry[c] ELSE Fresh]
  /\ at' = [at EXCEPT !["drain"] = "between"]
  /\ UNCHANGED <<native, wallet, store, job, ahead, base, mark, past>>

Bumped(e) == [e EXCEPT !.tries = @ + 1]

\* The attempt is counted in the copy, and the copy written back.
DrainTakes(c) ==
  /\ at["drain"] = "between" /\ c \in due
  /\ due' = due \ {c}
  /\ copy' = [copy EXCEPT ![c] = Fresh]
  /\ kept' = kept \cup {c}
  /\ entry' = [entry EXCEPT ![c] = Bumped(copy[c])]
  /\ Enlists("drain", c)
  /\ UNCHANGED <<native, wallet, export, base, mark, past>>

DrainHears(answer) ==
  LET c == job["drain"]
      e == entry[c]
  IN
  /\ Hears("drain", answer)
  /\ Leaves("drain", "between")
  /\ Marks(c, CASE answer = "ok"       -> MarkedCredited(e)
                [] answer = "consumed" -> MarkedUnresolved(e)
                [] answer = "wrong"    -> MarkedPoisoned(e)
                [] answer = "later"    -> e)
  /\ mixed' = mixed \cup Misread("drain", answer)
  /\ UNCHANGED <<native, wallet, kept, export, drain, begun, paid, covered, taps,
                 crashes>>

DrainEnds ==
  /\ at["drain"] = "between" /\ due = {}
  /\ at' = [at EXCEPT !["drain"] = "idle"]
  /\ UNCHANGED <<native, wallet, store, drain, job, ahead, base, mark, past>>

(***************************************************************************)
(* The claim: the note is stashed, in a browser in the export slot too,    *)
(* and redeemed; then growth or the mere size of the balance lets the      *)
(* payout go.                                                              *)
(***************************************************************************)
ClaimStarts(c) ==
  /\ Taps
  /\ at["claim"] = "idle" /\ c \notin paid
  /\ native \/ export \in {NoClaim, c}
  /\ kept' = kept \cup {c}
  /\ entry' = [entry EXCEPT ![c] = Restashed(c)]
  /\ export' = IF native THEN export ELSE c
  /\ begun' = begun \cup {c}
  /\ base' = [base EXCEPT !["claim"] = balance]
  /\ Enlists("claim", c)
  /\ UNCHANGED <<native, wallet, drain, mark, paid, covered, mixed, crashes>>

\* The payout in ecash: the note goes to the export slot and is not redeemed.
ClaimExports(c) ==
  /\ Taps
  /\ at["claim"] = "idle" /\ c \notin paid
  /\ export \in {NoClaim, c}
  /\ export' = c
  /\ begun' = begun \cup {c}
  /\ UNCHANGED <<native, wallet, kept, entry, drain, line, paid, covered,
                 mixed, crashes>>

\* claimAndRedeem of the bridge: only a consumed note leaves a mark.
NativeClaimHears(answer) ==
  LET c == job["claim"] IN
  /\ native
  /\ Hears("claim", answer)
  /\ Leaves("claim", IF answer = "consumed" THEN "failed" ELSE "verdict")
  /\ Marks(c, IF answer = "consumed" THEN MarkedUnresolved(entry[c])
                                     ELSE entry[c])
  /\ UNCHANGED <<native, wallet, kept, export, drain, past>>

\* claimIntoBrowserWalletSafely: a probe of the note.
BrowserClaimHears(answer) ==
  LET c == job["claim"]
      e == entry[c]
  IN
  /\ ~native
  /\ Hears("claim", answer)
  /\ \/ /\ Recovered("claim", answer)
        /\ Marks(c, MarkedCredited(e))
        /\ export' = NoClaim
        /\ Leaves("claim", "verdict")
        /\ UNCHANGED kept
     \/ /\ answer = "consumed"
        /\ kept' = kept \cup {c}
        /\ entry' = [entry EXCEPT ![c] = MarkedConsumed(e)]
        /\ export' = NoClaim
        /\ Leaves("claim", "failed")
     \/ /\ answer # "consumed" /\ ~Recovered("claim", answer)
        /\ Marks(c, Probed(e, IF answer = "wrong" THEN "foreign"
                                                  ELSE "none"))
        /\ Leaves("claim", "verdict")
        /\ UNCHANGED <<kept, export>>
  /\ mixed' = mixed \cup Misread("claim", answer)
  /\ UNCHANGED <<native, wallet, drain, begun, paid, covered, taps, crashes>>

Grown == balance - base["claim"] >= 1

\* Growth counts as the credit of this note.
ClaimGrows ==
  /\ at["claim"] = "verdict" /\ Grown
  /\ Marks(job["claim"], MarkedCredited(entry[job["claim"]]))
  /\ at' = [at EXCEPT !["claim"] = "paying"]
  /\ UNCHANGED <<native, wallet, kept, export, drain, job, ahead, base, mark,
                 past>>

\* balanceCoversPayout: the wallet can pay, wherever its money is from.
ClaimCovers ==
  /\ at["claim"] = "failed" \/ (at["claim"] = "verdict" /\ ~Grown)
  /\ balance >= 1
  /\ at' = [at EXCEPT !["claim"] = "covering"]
  /\ UNCHANGED <<native, wallet, store, drain, job, ahead, base, mark, past>>

ClaimEnds ==
  /\ at' = [at EXCEPT !["claim"] = "idle"]
  /\ job' = [job EXCEPT !["claim"] = NoClaim]
  /\ base' = [base EXCEPT !["claim"] = 0]

\* Nothing came and nothing covers, or the payout fails.
ClaimStops ==
  /\ \/ at["claim"] = "failed" /\ balance < 1
     \/ at["claim"] = "verdict" /\ ~Grown /\ balance < 1
     \/ at["claim"] \in {"paying", "covering"}
  /\ ClaimEnds
  /\ UNCHANGED <<native, wallet, store, drain, ahead, mark, past>>

\* The payout is confirmed, and the entry goes, whatever let it go.
ClaimPays ==
  LET c == job["claim"] IN
  /\ at["claim"] \in {"paying", "covering"} /\ balance >= 1
  /\ balance' = balance - 1
  /\ Clears(c)
  /\ paid' = paid \cup {c}
  /\ covered' = IF at["claim"] = "covering" THEN covered \cup {c} ELSE covered
  /\ mixed' = mixed \cup Crossed(NoClaim)
  /\ ClaimEnds
  /\ UNCHANGED <<native, note, recent, deposits, export, drain, ahead, mark,
                 begun, taps, crashes>>

\* The claim of a settled payout is opened once more.
SettledClaimOpens(c) ==
  /\ c \in paid \cap kept
  /\ Clears(c)
  /\ UNCHANGED <<native, wallet, export, drain, line, past>>

(***************************************************************************)
(* The cards: the note of the export slot, and the stranded entries.       *)
(***************************************************************************)
ProbeStarts(c) ==
  /\ Taps
  /\ at["probe"] = "idle"
  /\ export = c \/ Open(c)
  /\ base' = [base EXCEPT !["probe"] = balance]
  /\ Enlists("probe", c)
  /\ UNCHANGED <<native, wallet, store, drain, mark, begun, paid, covered, mixed, crashes>>

\* handleReabsorbBearerNotes.
ProbeHears(answer) ==
  LET c == job["probe"] IN
  /\ Hears("probe", answer)
  /\ Leaves("probe", "idle")
  /\ \/ /\ Recovered("probe", answer)
        /\ Clears(c)
        /\ export' = IF export = c THEN NoClaim ELSE export
        /\ \/ paid' = paid
           \/ export = c /\ paid' = paid \cup {c}
     \/ /\ answer = "consumed"
        /\ kept' = kept \cup {c}
        /\ entry' = [entry EXCEPT ![c] = MarkedConsumed(@)]
        /\ export' = IF export = c THEN NoClaim ELSE export
        /\ UNCHANGED paid
     \/ /\ answer # "consumed" /\ ~Recovered("probe", answer)
        /\ Marks(c, Probed(entry[c], IF answer = "wrong" THEN "foreign"
                                                         ELSE "none"))
        /\ UNCHANGED <<kept, export, paid>>
  /\ mixed' = mixed \cup Misread("probe", answer)
  /\ UNCHANGED <<native, wallet, drain, begun, covered, taps, crashes>>

\* The user has brought the note into another wallet and says so.
Imported(c) ==
  note' = [note EXCEPT ![c] = CASE @ = "live" -> "taken"
                                [] @ = "sent" -> "refused"
                                [] OTHER      -> @]

ExportConfirmed ==
  /\ export # NoClaim
  /\ Imported(export)
  /\ Clears(export)
  /\ paid' = paid \cup {export}
  /\ export' = NoClaim
  /\ UNCHANGED <<native, recent, balance, deposits, drain, line, begun,
                 covered, mixed, taps, crashes>>

StrandedSecured(c) ==
  /\ Open(c)
  /\ Imported(c)
  /\ Clears(c)
  /\ UNCHANGED <<native, recent, balance, deposits, export, drain, line, past>>

\* resolveUnresolvedCredit, by the user, on a card that Home shows.
Dismisses(c) ==
  /\ c \in Doubtful \ {export}
  /\ entry' = [entry EXCEPT ![c] = MarkedResolved(@)]
  /\ UNCHANGED <<native, wallet, kept, export, drain, line, past>>

\* partitionStrandedClaims: the balance covers all that is in question.
Reconciles ==
  LET shown == Doubtful \ {export} IN
  /\ shown # {} /\ balance >= Cardinality(shown)
  /\ entry' = [c \in Claims |-> IF c \in shown THEN MarkedResolved(entry[c])
                                ELSE entry[c]]
  /\ UNCHANGED <<native, wallet, kept, export, drain, line, past>>

-----------------------------------------------------------------------------

Idle == [p \in Procs |-> "idle"]

\* The page dies: storage and the wallet's operations stay.
Crash ==
  /\ crashes < MaxCrashes
  /\ crashes' = crashes + 1
  /\ due' = {} /\ copy' = [c \in Claims |-> Fresh]
  /\ at' = Idle /\ job' = [p \in Procs |-> NoClaim]
  /\ ahead' = [p \in Procs |-> {}]
  /\ base' = [p \in Procs |-> 0] /\ mark' = 0
  /\ UNCHANGED <<native, wallet, store, begun, paid, covered, mixed, taps>>

Init ==
  /\ native \in BOOLEAN
  /\ note = [c \in Claims |-> "live"] /\ recent = {}
  /\ kept = {} /\ entry = [c \in Claims |-> Fresh] /\ export = NoClaim
  /\ due = {} /\ copy = [c \in Claims |-> Fresh]
  /\ at = Idle /\ job = [p \in Procs |-> NoClaim]
  /\ ahead = [p \in Procs |-> {}]
  /\ base = [p \in Procs |-> 0] /\ mark = 0
  /\ balance = 0 /\ deposits = 0 /\ taps = 0 /\ crashes = 0
  /\ begun = {} /\ paid = {} /\ covered = {} /\ mixed = {}

Drain ==
  \/ DrainStarts \/ DrainEnds
  \/ \E c \in Claims : DrainTakes(c)
  \/ \E a \in Answers : DrainHears(a)

Claim ==
  \/ \E c \in Claims : ClaimStarts(c) \/ ClaimExports(c) \/ SettledClaimOpens(c)
  \/ \E a \in Answers : NativeClaimHears(a) \/ BrowserClaimHears(a)
  \/ ClaimGrows \/ ClaimCovers \/ ClaimStops \/ ClaimPays

Cards ==
  \/ \E c \in Claims : ProbeStarts(c) \/ StrandedSecured(c) \/ Dismisses(c)
  \/ \E a \in Answers : ProbeHears(a)
  \/ ExportConfirmed \/ Reconciles

Mint ==
  \/ \E p \in Procs : Submits(p) \/ Retries(p)
  \/ \E c \in Claims : Lands(c) \/ TakenElsewhere(c) \/ Ages(c)
  \/ Deposit

Next == Drain \/ Claim \/ Cards \/ Mint \/ Crash

Spec == Init /\ [][Next]_vars

-----------------------------------------------------------------------------

\* The mint lock (mint-mutex.ts) has one holder, whoever gave up waiting for it.
OneAtTheMint ==
  \A p, q \in Procs : at[p] \in AtMint /\ at[q] \in AtMint => p = q

\* Home shows the note, or the drain goes on trying it.
Shown(c) == export = c \/ (c \in kept /\ (Retrying(entry[c])
                                            \/ Stranded(entry[c])))

\* A note that the wallet may still get is in the stash or the export slot, and
\* one that nobody has asked for yet is in sight (listStrandedRedemptions,
\* isRetryingAutomatically).  Two ways out are left: a payout that was covered
\* by other money (claim-and-payout.ts), and evidence that belonged to another
\* credit.
NoteIsKept ==
  \A c \in begun \ (covered \cup mixed) :
    /\ note[c] \in {"live", "sent"} => c \in kept \/ export = c
    /\ note[c] = "live" => Shown(c)

\* An entry marked credited stands for a note that this wallet has
\* (markPendingRedemptionCredited), unless another credit fell into a bracket
\* that was open on it or the history named another reissue.
CreditHasGrounds ==
  \A c \in kept \ mixed : entry[c].credited => note[c] = "ours"

\* What a step may not take back: the mark that a note is credited, and an
\* answer of the federation (stashPendingRedemption and recordBearerProbe keep
\* them).  Only a running drain does, with a copy it took before.
MarksStand ==
  [][\A c \in (kept \cap kept') \ due :
       /\ entry[c].credited => entry'[c].credited
       /\ entry[c].verdict \in {"foreign", "consumed"} =>
            entry'[c].verdict \in {"foreign", "consumed"}]_vars

\* balanceCoversPayout: when the payout is covered by other money, "the
\* pending-redemption stash stays intact, and the boot drain reconciles the late
\* credit".
CoverKeepsTheStash ==
  \A c \in covered \ mixed : note[c] = "live" => c \in kept \/ export = c

=============================================================================
