-------------------------- MODULE RedemptionProofs --------------------------
(* What Redemption guarantees for any number of claims, attempts, taps,     *)
(* deposits and deaths of the page: its types, one party at the mint, and   *)
(* that a claimed note stays in sight until the wallet has it.              *)
EXTENDS Redemption, TLAPS

\* Who is past the start of a redeem works on a claim, and a drain has
\* attempts left for what is due.
Works ==
  /\ \A p \in Procs : at[p] \notin {"idle", "between"} => job[p] \in Claims
  /\ \A c \in due : copy[c].tries < MaxAttempts

TInv == TypeOK /\ Works

\* Of two in line one waits for the other, and the one at the mint for nobody.
Line ==
  /\ \A p \in Procs : at[p] \in AtMint => ahead[p] = {}
  /\ \A p, q \in Procs :
       at[p] \in InLine /\ at[q] \in InLine /\ p # q => p \in ahead[q] \/ q \in ahead[p]

\* A note that was brought to the mint is not live any more.
Asked == \A p \in Procs : at[p] \in AtMint => note[job[p]] # "live"

\* What an entry for c may say, given the notes and the mixed-up claims: of a
\* live note no verdict, no question and no archive; credited when it is.
Plain(e) == ~e.unresolved /\ ~e.resolved /\ ~Consumed(e)

Honest(n, m, c, e) ==
  /\ n[c] = "live" => Plain(e)
  /\ e.credited => n[c] = "ours" \/ c \in m

\* The stash is honest, and the copy of it that a running drain will write back.
HonestStash ==
  \A c \in Claims : Honest(note, mixed, c, entry[c]) /\ Honest(note, mixed, c, copy[c])

\* A bracket holds until the note it watches is ours.
Bracket ==
  \A p \in Watching :
    job[p] \in mixed \/ note[job[p]] = "ours" \/ balance = base[p]

\* A payout that growth let go.
PayingIsOurs ==
  at["claim"] = "paying" => job["claim"] \in mixed \/ note[job["claim"]] = "ours"

\* What was paid is settled, or was covered by other money.
PaidIsGone ==
  \A c \in paid \ (covered \cup mixed) : note[c] \notin {"live", "sent"}

\* A note that may still come has its place in storage.
InStore ==
  \A c \in begun \ (covered \cup mixed) :
    note[c] \in {"live", "sent"} => c \in kept \/ export = c

\* The export slot of a browser wallet is the claim's while it redeems.
SlotIsHis ==
  at["claim"] \in InLine /\ ~native => export \in {NoClaim, job["claim"]}

RInv ==
  HonestStash /\ Asked /\ Bracket /\ PayingIsOurs /\ PaidIsGone /\ InStore /\ SlotIsHis

-----------------------------------------------------------------------------
(* Types *)

(* What is written into the stash is an entry.                              *)
LEMMA EntryWrites ==
  ASSUME NEW e \in Entry
  PROVE  /\ Fresh \in Entry
         /\ MarkedCredited(e) \in Entry /\ MarkedUnresolved(e) \in Entry
         /\ MarkedPoisoned(e) \in Entry /\ MarkedConsumed(e) \in Entry
         /\ MarkedResolved(e) \in Entry
         /\ [e EXCEPT !.resolved = FALSE] \in Entry
         /\ \A v \in {"none", "foreign"} : Probed(e, v) \in Entry
         /\ e.tries < MaxAttempts => Bumped(e) \in Entry
<1> USE RedemptionAssumption DEF Entry, Verdicts
<1>1. Fresh \in Entry
  BY DEF Fresh
<1>2. MarkedCredited(e) \in Entry /\ MarkedUnresolved(e) \in Entry
  BY DEF MarkedCredited, MarkedUnresolved
<1>3. MarkedPoisoned(e) \in Entry /\ MarkedConsumed(e) \in Entry
  BY DEF MarkedPoisoned, MarkedConsumed
<1>4. MarkedResolved(e) \in Entry /\ [e EXCEPT !.resolved = FALSE] \in Entry
  BY DEF MarkedResolved
<1>5. \A v \in {"none", "foreign"} : Probed(e, v) \in Entry
  BY DEF Probed
<1>6. e.tries < MaxAttempts => Bumped(e) \in Entry
  BY DEF Bumped
<1> QED BY <1>1, <1>2, <1>3, <1>4, <1>5, <1>6

(* A mark keeps the stash well formed.                                      *)
LEMMA MarkType ==
  ASSUME TypeOK, NEW c \in Claims, NEW e \in Entry
  PROVE  /\ Marks(c, e) => entry' \in [Claims -> Entry]
         /\ Clears(c) => entry' \in [Claims -> Entry] /\ kept' \subseteq Claims
BY EntryWrites DEF TypeOK, Marks, Clears

(* Joining the line and leaving it.                                         *)
LEMMA LineType ==
  ASSUME TInv, NEW p \in Procs, NEW c \in Claims, NEW s \in Stages,
         s \in {"idle", "between"} \/ at[p] \notin {"idle", "between"}
  PROVE  /\ Enlists(p, c) =>
              /\ at' \in [Procs -> Stages] /\ job' \in [Procs -> Claims \cup {NoClaim}]
              /\ ahead' \in [Procs -> SUBSET Procs]
              /\ \A q \in Procs : at'[q] \notin {"idle", "between"} => job'[q] \in Claims
         /\ Leaves(p, s) =>
              /\ at' \in [Procs -> Stages] /\ job' \in [Procs -> Claims \cup {NoClaim}]
              /\ ahead' \in [Procs -> SUBSET Procs] /\ base' \in [Procs -> Int] /\ mark' \in Int
              /\ \A q \in Procs : at'[q] \notin {"idle", "between"} => job'[q] \in Claims
  <1>1. ASSUME Enlists(p, c)
        PROVE  /\ at' \in [Procs -> Stages] /\ job' \in [Procs -> Claims \cup {NoClaim}]
               /\ ahead' \in [Procs -> SUBSET Procs]
               /\ \A q \in Procs : at'[q] \notin {"idle", "between"} => job'[q] \in Claims
    BY <1>1 DEF TInv, TypeOK, Works, Enlists, LineFor, Waiters, Stages, InLine
  <1>2. ASSUME Leaves(p, s)
        PROVE  /\ at' \in [Procs -> Stages] /\ job' \in [Procs -> Claims \cup {NoClaim}]
               /\ ahead' \in [Procs -> SUBSET Procs] /\ base' \in [Procs -> Int] /\ mark' \in Int
               /\ \A q \in Procs : at'[q] \notin {"idle", "between"} => job'[q] \in Claims
    BY <1>2 DEF TInv, TypeOK, Works, Leaves, Without
  <1> QED BY <1>1, <1>2

(* Who hears something was in line, for a claim of his.                     *)
LEMMA HearsWhat ==
  ASSUME TInv, NEW p \in Procs, NEW a \in Answers, Hears(p, a)
  PROVE  /\ at[p] \in InLine /\ job[p] \in Claims
         /\ a = "consumed" => at[p] \in AtMint
         /\ Misread(p, a) \subseteq Claims
         /\ a = "ok" => note[job[p]] = "ours" \/ job[p] \in Misread(p, a)
<1>1. at[p] \in InLine /\ (a = "consumed" => at[p] \in AtMint)
  BY DEF Answers, Hears, NativeDone, BrowserDone, Served, InLine, AtMint
<1>2. job[p] \in Claims
  BY <1>1 DEF TInv, Works, InLine, AtMint
<1> QED BY <1>1, <1>2 DEF Misread

(* A step of the drain keeps the types.                                      *)
LEMMA DrainType == TInv /\ Drain => TInv'
<1> SUFFICES ASSUME TInv, Drain PROVE TInv'
  OBVIOUS
<1> USE DEF TInv
<1>1. CASE DrainStarts
  <2>1. /\ due' \subseteq Claims /\ copy' \in [Claims -> Entry]
        /\ \A c \in due' : copy'[c].tries < MaxAttempts
    BY <1>1, EntryWrites DEF DrainStarts, TypeOK, DrainTries
  <2>2. at' \in [Procs -> Stages]
        /\ \A q \in Procs : at'[q] \notin {"idle", "between"} => job'[q] \in Claims
    BY <1>1 DEF DrainStarts, TypeOK, Works, Stages
  <2> QED BY <1>1, <2>1, <2>2 DEF DrainStarts, TypeOK, Works, wallet, store, past
<1>2. CASE DrainEnds
  BY <1>2 DEF DrainEnds, TypeOK, Works, Stages, wallet, store, drain, past
<1>3. ASSUME NEW c \in Claims, DrainTakes(c) PROVE TInv'
  <2>1. /\ entry' \in [Claims -> Entry] /\ copy' \in [Claims -> Entry]
        /\ due' \subseteq Claims /\ kept' \subseteq Claims
        /\ \A d \in due' : copy'[d].tries < MaxAttempts
    BY <1>3, EntryWrites DEF DrainTakes, TypeOK, Works
  <2>2. "drain" \in Procs /\ "idle" \in Stages
    BY DEF Procs, Stages
  <2> QED BY <1>3, <2>1, <2>2, LineType DEF DrainTakes, TypeOK, Works, wallet, past
<1>4. ASSUME NEW a \in Answers, DrainHears(a) PROVE TInv'
  <2>1. "drain" \in Procs /\ "between" \in Stages
    BY DEF Procs, Stages
  <2>2. job["drain"] \in Claims /\ Misread("drain", a) \subseteq Claims
    BY <1>4, <2>1, HearsWhat DEF DrainHears
  <2>3. entry' \in [Claims -> Entry]
    <3>1. entry[job["drain"]] \in Entry
      BY <2>2 DEF TypeOK
    <3>2. \E e \in Entry : Marks(job["drain"], e)
      BY <1>4, <3>1, EntryWrites DEF DrainHears, Answers
    <3> QED BY <2>2, <3>2, MarkType
  <2> QED BY <1>4, <2>1, <2>2, <2>3, LineType DEF DrainHears, TypeOK, Works, wallet, drain
<1> QED BY <1>1, <1>2, <1>3, <1>4 DEF Drain

(* A step of the claim keeps the types.                                      *)
LEMMA ClaimType == TInv /\ Claim => TInv'
<1> SUFFICES ASSUME TInv, Claim PROVE TInv'
  OBVIOUS
<1> USE DEF TInv
<1>0. /\ "claim" \in Procs /\ {"idle", "verdict", "failed", "paying", "covering"} \subseteq Stages
      /\ MaxTaps \in Nat
  BY RedemptionAssumption DEF Procs, Stages
<1>1. ASSUME NEW c \in Claims, ClaimStarts(c) PROVE TInv'
  <2>1. entry' \in [Claims -> Entry] /\ kept' \subseteq Claims
    BY <1>1, EntryWrites DEF ClaimStarts, Restashed, TypeOK
  <2>2. taps' \in 0 .. MaxTaps
    BY <1>0, <1>1 DEF ClaimStarts, Taps, TypeOK
  <2>3. base' \in [Procs -> Int] /\ export' \in Claims \cup {NoClaim}
    BY <1>1 DEF ClaimStarts, TypeOK
  <2> QED BY <1>0, <1>1, <2>1, <2>2, <2>3, LineType DEF ClaimStarts, TypeOK, Works, wallet, drain
<1>2. ASSUME NEW c \in Claims, ClaimExports(c) PROVE TInv'
  <2>1. taps' \in 0 .. MaxTaps
    BY <1>0, <1>2 DEF ClaimExports, Taps, TypeOK
  <2> QED BY <1>2, <2>1 DEF ClaimExports, TypeOK, Works, wallet, drain, line
<1>3. ASSUME NEW c \in Claims, SettledClaimOpens(c) PROVE TInv'
  BY <1>3, EntryWrites DEF SettledClaimOpens, Clears, TypeOK, Works, wallet, drain, line, past
<1>4. ASSUME NEW a \in Answers, NativeClaimHears(a) PROVE TInv'
  <2>1. job["claim"] \in Claims /\ at["claim"] \notin {"idle", "between"}
    BY <1>0, <1>4, HearsWhat DEF NativeClaimHears, InLine, AtMint
  <2>2. entry' \in [Claims -> Entry]
    <3>1. entry[job["claim"]] \in Entry
      BY <2>1 DEF TypeOK
    <3>2. \E e \in Entry : Marks(job["claim"], e)
      BY <1>4, <3>1, EntryWrites DEF NativeClaimHears
    <3> QED BY <2>1, <3>2, MarkType
  <2>3. PICK s \in {"failed", "verdict"} : Leaves("claim", s)
    BY <1>4 DEF NativeClaimHears
  <2> QED BY <1>0, <1>4, <2>1, <2>2, <2>3, LineType DEF NativeClaimHears, TypeOK, Works, wallet, drain, past
<1>5. ASSUME NEW a \in Answers, BrowserClaimHears(a) PROVE TInv'
  <2>1. /\ job["claim"] \in Claims /\ at["claim"] \notin {"idle", "between"}
        /\ Misread("claim", a) \subseteq Claims
    BY <1>0, <1>5, HearsWhat DEF BrowserClaimHears, InLine, AtMint
  <2>2. entry' \in [Claims -> Entry]
    <3>1. entry[job["claim"]] \in Entry
      BY <2>1 DEF TypeOK
    <3>2. (\E e \in Entry : Marks(job["claim"], e))
          \/ entry' = [entry EXCEPT ![job["claim"]] = MarkedConsumed(entry[job["claim"]])]
      BY <1>5, <3>1, EntryWrites DEF BrowserClaimHears
    <3> QED BY <2>1, <3>1, <3>2, MarkType, EntryWrites DEF TypeOK
  <2>3. PICK s \in {"failed", "verdict"} : Leaves("claim", s)
    BY <1>5 DEF BrowserClaimHears
  <2>4. kept' \subseteq Claims /\ export' \in Claims \cup {NoClaim}
    BY <1>5, <2>1 DEF BrowserClaimHears, TypeOK
  <2> QED BY <1>0, <1>5, <2>1, <2>2, <2>3, <2>4, LineType
          DEF BrowserClaimHears, TypeOK, Works, wallet, drain
<1>6. CASE ClaimGrows
  <2>1. job["claim"] \in Claims
    BY <1>0, <1>6 DEF ClaimGrows, Works
  <2>2. entry' \in [Claims -> Entry]
    <3>1. MarkedCredited(entry[job["claim"]]) \in Entry
      BY <2>1, EntryWrites DEF TypeOK
    <3> QED BY <1>6, <2>1, <3>1, MarkType DEF ClaimGrows
  <2> QED BY <1>0, <1>6, <2>1, <2>2 DEF ClaimGrows, TypeOK, Works, wallet, drain, past
<1>7. CASE ClaimCovers
  BY <1>0, <1>7 DEF ClaimCovers, TypeOK, Works, wallet, store, drain, past
<1>8. CASE ClaimStops
  BY <1>0, <1>8 DEF ClaimStops, ClaimEnds, TypeOK, Works, wallet, store, drain, past
<1>9. CASE ClaimPays
  <2>1. job["claim"] \in Claims
    BY <1>0, <1>9 DEF ClaimPays, Works
  <2>2. mixed' \subseteq Claims
    BY <1>9 DEF ClaimPays, Crossed, Watching, InLine, AtMint, Procs, TypeOK, Works
  <2>3. entry' \in [Claims -> Entry] /\ kept' \subseteq Claims
    BY <1>9, <2>1, EntryWrites DEF ClaimPays, Clears, TypeOK
  <2> QED BY <1>0, <1>9, <2>1, <2>2, <2>3 DEF ClaimPays, ClaimEnds, TypeOK, Works, drain
<1> QED BY <1>1, <1>2, <1>3, <1>4, <1>5, <1>6, <1>7, <1>8, <1>9 DEF Claim

(* A step of the cards keeps the types.                                      *)
LEMMA CardsType == TInv /\ Cards => TInv'
<1> SUFFICES ASSUME TInv, Cards PROVE TInv'
  OBVIOUS
<1> USE DEF TInv
<1>0. "probe" \in Procs /\ "idle" \in Stages /\ MaxTaps \in Nat
  BY RedemptionAssumption DEF Procs, Stages
<1>1. ASSUME NEW c \in Claims, ProbeStarts(c) PROVE TInv'
  <2>1. taps' \in 0 .. MaxTaps /\ base' \in [Procs -> Int]
    BY <1>0, <1>1 DEF ProbeStarts, Taps, TypeOK
  <2> QED BY <1>0, <1>1, <2>1, LineType DEF ProbeStarts, TypeOK, Works, wallet, store, drain
<1>2. ASSUME NEW c \in Claims, StrandedSecured(c) PROVE TInv'
  <2>1. note' \in [Claims -> Notes]
    BY <1>2 DEF StrandedSecured, Imported, TypeOK, Notes
  <2>2. entry' \in [Claims -> Entry] /\ kept' \subseteq Claims
    BY <1>2, EntryWrites DEF StrandedSecured, Clears, TypeOK
  <2> QED BY <1>2, <2>1, <2>2 DEF StrandedSecured, TypeOK, Works, drain, line, past
<1>3. ASSUME NEW c \in Claims, Dismisses(c) PROVE TInv'
  BY <1>3, EntryWrites DEF Dismisses, TypeOK, Works, wallet, drain, line, past
<1>4. ASSUME NEW a \in Answers, ProbeHears(a) PROVE TInv'
  <2>1. /\ job["probe"] \in Claims /\ at["probe"] \notin {"idle", "between"}
        /\ Misread("probe", a) \subseteq Claims
    BY <1>0, <1>4, HearsWhat DEF ProbeHears, InLine, AtMint
  <2>2. entry' \in [Claims -> Entry]
    <3>1. entry[job["probe"]] \in Entry
      BY <2>1 DEF TypeOK
    <3>2. \/ \E e \in Entry : Marks(job["probe"], e)
          \/ entry' = [entry EXCEPT ![job["probe"]] = MarkedConsumed(entry[job["probe"]])]
          \/ Clears(job["probe"])
      BY <1>4, <3>1, EntryWrites DEF ProbeHears
    <3> QED BY <2>1, <3>1, <3>2, MarkType, EntryWrites DEF TypeOK
  <2>3. kept' \subseteq Claims /\ export' \in Claims \cup {NoClaim} /\ paid' \subseteq Claims
    BY <1>4, <2>1 DEF ProbeHears, Clears, TypeOK
  <2> QED BY <1>0, <1>4, <2>1, <2>2, <2>3, LineType DEF ProbeHears, TypeOK, Works, wallet, drain
<1>5. CASE ExportConfirmed
  <2>1. export \in Claims
    BY <1>5 DEF ExportConfirmed, TypeOK
  <2>2. note' \in [Claims -> Notes]
    BY <1>5, <2>1 DEF ExportConfirmed, Imported, TypeOK, Notes
  <2>3. entry' \in [Claims -> Entry] /\ kept' \subseteq Claims
    BY <1>5, <2>1, EntryWrites DEF ExportConfirmed, Clears, TypeOK
  <2> QED BY <1>5, <2>1, <2>2, <2>3 DEF ExportConfirmed, TypeOK, Works, drain, line
<1>6. CASE Reconciles
  <2>1. entry' \in [Claims -> Entry]
    BY <1>6, EntryWrites DEF Reconciles, TypeOK
  <2> QED BY <1>6, <2>1 DEF Reconciles, TypeOK, Works, wallet, drain, line, past
<1> QED BY <1>1, <1>2, <1>3, <1>4, <1>5, <1>6 DEF Cards

(* A step of the mint or the wallet keeps the types.                         *)
LEMMA MintType == TInv /\ Mint => TInv'
<1> SUFFICES ASSUME TInv, Mint PROVE TInv'
  OBVIOUS
<1> USE DEF TInv
<1>1. ASSUME NEW p \in Procs, Submits(p) PROVE TInv'
  <2>1. job[p] \in Claims
    BY <1>1 DEF Submits, Works
  <2>2. note' \in [Claims -> Notes] /\ mark' \in Int
    BY <1>1, <2>1 DEF Submits, TypeOK, Notes
  <2>3. at' \in [Procs -> Stages]
        /\ \A q \in Procs : at'[q] \notin {"idle", "between"} => job[q] \in Claims
    BY <1>1, <2>1 DEF Submits, TypeOK, Works, Stages, InLine, AtMint
  <2> QED BY <1>1, <2>2, <2>3 DEF Submits, TypeOK, Works, store, drain, past
<1>2. ASSUME NEW p \in Procs, Retries(p) PROVE TInv'
  BY <1>2 DEF Retries, TypeOK, Works, Stages, InLine, AtMint, wallet, store, drain, past
<1>3. \A c \in Claims \cup {NoClaim} : Crossed(c) \subseteq Claims
  BY DEF Crossed, Watching, InLine, AtMint, Procs, Works
<1>4. ASSUME NEW c \in Claims, Lands(c) PROVE TInv'
  <2>1. note' \in [Claims -> Notes] /\ balance' \in Int /\ mixed' \subseteq Claims
    BY <1>3, <1>4 DEF Lands, TypeOK, Notes
  <2> QED BY <1>4, <2>1 DEF Lands, TypeOK, Works, store, drain, line
<1>5. ASSUME NEW c \in Claims, TakenElsewhere(c) PROVE TInv'
  <2>1. note' \in [Claims -> Notes]
    BY <1>5 DEF TakenElsewhere, TypeOK, Notes
  <2> QED BY <1>5, <2>1 DEF TakenElsewhere, TypeOK, Works, store, drain, line, past
<1>6. ASSUME NEW c \in Claims, Ages(c) PROVE TInv'
  BY <1>6 DEF Ages, TypeOK, Works, store, drain, line, past
<1>7. CASE Deposit
  <2>1. deposits' \in 0 .. MaxDeposits /\ balance' \in Int /\ mixed' \subseteq Claims
    BY <1>3, <1>7, RedemptionAssumption DEF Deposit, TypeOK
  <2> QED BY <1>7, <2>1 DEF Deposit, TypeOK, Works, store, drain, line
<1> QED BY <1>1, <1>2, <1>4, <1>5, <1>6, <1>7 DEF Mint

(* The death of the page keeps the types.                                    *)
LEMMA CrashType == TInv /\ Crash => TInv'
<1> SUFFICES ASSUME TInv, Crash PROVE TInv'
  OBVIOUS
<1>1. /\ at' \in [Procs -> Stages] /\ job' \in [Procs -> Claims \cup {NoClaim}]
      /\ ahead' \in [Procs -> SUBSET Procs] /\ base' \in [Procs -> Int] /\ mark' \in Int
      /\ \A p \in Procs : at'[p] = "idle"
  BY DEF Crash, Idle, Stages
<1>2. due' = {} /\ copy' \in [Claims -> Entry] /\ crashes' \in 0 .. MaxCrashes
  BY EntryWrites, RedemptionAssumption DEF Crash, TInv, TypeOK, Entry, Fresh, Verdicts
<1> QED BY <1>1, <1>2 DEF Crash, TInv, TypeOK, Works, wallet, store

(* Every step keeps the types.                                               *)
LEMMA TypeStep == TInv /\ [Next]_vars => TInv'
<1>1. TInv /\ UNCHANGED vars => TInv'
  BY DEF vars, wallet, store, drain, line, past, TInv, TypeOK, Works
<1> QED BY <1>1, DrainType, ClaimType, CardsType, MintType, CrashType DEF Next

(* RedemptionTypes: every variable keeps its type (Redemption.TypeOK).      *)
THEOREM RedemptionTypes == Spec => [](TypeOK /\ Works)
<1>1. Init => TInv
  BY EntryWrites, RedemptionAssumption DEF Init, TInv, TypeOK, Works, Idle, Stages, Notes, Fresh, Entry,
     Verdicts, Procs
<1>2. TInv /\ [Next]_vars => TInv'
  BY TypeStep
<1> QED BY <1>1, <1>2, PTL DEF Spec, TInv

-----------------------------------------------------------------------------
(* The mint lock *)

(* Who joins the line waits for all in it; who leaves it frees the others.  *)
LEMMA LineMoves ==
  ASSUME TInv, Line, NEW p \in Procs
  PROVE  /\ \A c : at[p] \notin InLine /\ Enlists(p, c) => Line'
         /\ \A s : s \notin InLine /\ Leaves(p, s) => Line'
<1>1. ASSUME NEW c, at[p] \notin InLine, Enlists(p, c) PROVE Line'
  <2>1. /\ at' = [at EXCEPT ![p] = "waiting"] /\ at \in [Procs -> Stages]
        /\ ahead' = [ahead EXCEPT ![p] = Waiters] /\ ahead \in [Procs -> SUBSET Procs]
    BY <1>1 DEF Enlists, LineFor, TInv, TypeOK
  <2>2. \A q \in Procs : at[q] \in InLine => q \in ahead'[p]
    BY <2>1 DEF Waiters
  <2>3. \A q \in Procs \ {p} : at'[q] = at[q] /\ ahead'[q] = ahead[q]
    BY <2>1
  <2>4. at'[p] = "waiting" /\ "waiting" \notin AtMint
    BY <2>1 DEF AtMint
  <2> QED BY <2>2, <2>3, <2>4 DEF Line
<1>2. ASSUME NEW s, s \notin InLine, Leaves(p, s) PROVE Line'
  <2>1. /\ \A q \in Procs \ {p} : at'[q] = at[q] /\ ahead'[q] = ahead[q] \ {p}
        /\ at'[p] = s
    BY <1>2 DEF Leaves, Without, TInv, TypeOK
  <2>2. s \notin AtMint
    BY <1>2 DEF InLine
  <2> QED BY <1>2, <2>1, <2>2 DEF Line
<1> QED BY <1>1, <1>2

(* A step that moves nobody in or out of line.                              *)
LEMMA LineStays ==
  ASSUME TInv, Line, UNCHANGED ahead, NEW p \in Procs, NEW s,
         at' = [at EXCEPT ![p] = s], s \notin InLine \/ at[p] \in InLine,
         s \in AtMint => ahead[p] = {}
  PROVE  Line'
<1>1. \A q \in Procs \ {p} : at'[q] = at[q] /\ at'[p] = s
  BY DEF TInv, TypeOK
<1>2. at'[p] = s
  BY DEF TInv, TypeOK
<1> QED BY <1>1, <1>2 DEF Line

(* The order of the line holds in every step.                                *)
LEMMA LineStep == TInv /\ Line /\ [Next]_vars => Line'
<1> SUFFICES ASSUME TInv, Line, [Next]_vars PROVE Line'
  OBVIOUS
<1>0. /\ Procs = {"drain", "claim", "probe"} /\ InLine = {"waiting", "sent", "again"}
      /\ AtMint = {"sent", "again"}
  BY DEF Procs, InLine, AtMint
<1>1. CASE UNCHANGED <<at, ahead>>
  BY <1>1 DEF Line
<1>2. CASE Drain
  <2>1. CASE DrainStarts \/ DrainEnds
    BY <1>0, <2>1, LineStays DEF DrainStarts, DrainEnds
  <2>2. ASSUME NEW c \in Claims, DrainTakes(c) PROVE Line'
    BY <1>0, <2>2, LineMoves DEF DrainTakes
  <2>3. ASSUME NEW a \in Answers, DrainHears(a) PROVE Line'
    BY <1>0, <2>3, LineMoves DEF DrainHears
  <2> QED BY <1>2, <2>1, <2>2, <2>3 DEF Drain
<1>3. CASE Claim
  <2>1. ASSUME NEW c \in Claims, ClaimStarts(c) PROVE Line'
    BY <1>0, <2>1, LineMoves DEF ClaimStarts
  <2>2. ASSUME NEW c \in Claims, ClaimExports(c) \/ SettledClaimOpens(c) PROVE Line'
    BY <1>1, <2>2 DEF ClaimExports, SettledClaimOpens, line
  <2>3. ASSUME NEW a \in Answers, NativeClaimHears(a) \/ BrowserClaimHears(a) PROVE Line'
    <3>1. \E s \in {"failed", "verdict"} : Leaves("claim", s)
      BY <2>3 DEF NativeClaimHears, BrowserClaimHears
    <3> QED BY <1>0, <3>1, LineMoves
  <2>4. CASE ClaimGrows \/ ClaimCovers
    BY <1>0, <2>4, LineStays DEF ClaimGrows, ClaimCovers
  <2>5. CASE ClaimStops \/ ClaimPays
    BY <1>0, <2>5, LineStays DEF ClaimStops, ClaimPays, ClaimEnds
  <2> QED BY <1>3, <2>1, <2>2, <2>3, <2>4, <2>5 DEF Claim
<1>4. CASE Cards
  <2>1. ASSUME NEW c \in Claims, ProbeStarts(c) PROVE Line'
    BY <1>0, <2>1, LineMoves DEF ProbeStarts
  <2>2. ASSUME NEW a \in Answers, ProbeHears(a) PROVE Line'
    BY <1>0, <2>2, LineMoves DEF ProbeHears
  <2>3. ASSUME NEW c \in Claims, StrandedSecured(c) \/ Dismisses(c) PROVE Line'
    BY <1>1, <2>3 DEF StrandedSecured, Dismisses, line
  <2>4. CASE ExportConfirmed \/ Reconciles
    BY <1>1, <2>4 DEF ExportConfirmed, Reconciles, line
  <2> QED BY <1>4, <2>1, <2>2, <2>3, <2>4 DEF Cards
<1>5. CASE Mint
  <2>1. ASSUME NEW p \in Procs, Submits(p) PROVE Line'
    <3>1. \E s \in AtMint : at' = [at EXCEPT ![p] = s]
      BY <1>0, <2>1 DEF Submits
    <3>2. at[p] \in InLine /\ ahead[p] = {} /\ ahead' = ahead
      BY <1>0, <2>1 DEF Submits, Served
    <3> QED BY <3>1, <3>2, LineStays
  <2>2. ASSUME NEW p \in Procs, Retries(p) PROVE Line'
    <3>1. at' = [at EXCEPT ![p] = "again"] /\ at[p] \in AtMint /\ ahead' = ahead
      BY <1>0, <2>2 DEF Retries
    <3>2. at[p] \in InLine /\ ahead[p] = {}
      BY <1>0, <3>1 DEF Line
    <3> QED BY <3>1, <3>2, LineStays
  <2>3. ASSUME NEW c \in Claims, Lands(c) \/ TakenElsewhere(c) \/ Ages(c) PROVE Line'
    BY <1>1, <2>3 DEF Lands, TakenElsewhere, Ages, line
  <2>4. CASE Deposit
    BY <1>1, <2>4 DEF Deposit, line
  <2> QED BY <1>5, <2>1, <2>2, <2>3, <2>4 DEF Mint
<1>6. CASE Crash
  <2>1. \A p \in Procs : at'[p] = "idle"
    BY <1>6 DEF Crash, Idle
  <2> QED BY <1>0, <2>1 DEF Line
<1>7. CASE UNCHANGED vars
  BY <1>1, <1>7 DEF vars, line
<1> QED BY <1>2, <1>3, <1>4, <1>5, <1>6, <1>7 DEF Next

(* OneHolder: the mint lock never has two holders, whoever gave up waiting,  *)
(* timed out or died (Redemption.OneAtTheMint; mint-mutex.ts).              *)
THEOREM OneHolder == Spec => []OneAtTheMint
<1>1. Init => Line
  BY DEF Init, Line, Idle, InLine, AtMint
<1>2. Spec => []TInv
  BY RedemptionTypes, PTL DEF TInv
<1>3. TInv /\ Line /\ [Next]_vars => Line'
  BY LineStep
<1>4. Line => OneAtTheMint
  BY DEF Line, OneAtTheMint, InLine
<1> QED BY <1>1, <1>2, <1>3, <1>4, PTL DEF Spec

-----------------------------------------------------------------------------
(* What a step may not take back *)

(* MarksAreFinal: outside the copy a running drain took, the mark that a    *)
(* note is credited and an answer of the federation are never lost          *)
(* (Redemption.MarksStand; stashPendingRedemption, recordBearerProbe).      *)
THEOREM MarksAreFinal == Spec => MarksStand
<1> DEFINE Stands ==
      \A c \in (kept \cap kept') \ due :
        /\ entry[c].credited => entry'[c].credited
        /\ entry[c].verdict \in {"foreign", "consumed"} =>
             entry'[c].verdict \in {"foreign", "consumed"}
<1>1. ASSUME TInv, [Next]_vars PROVE Stands
  <2>0. kept \subseteq Claims /\ entry \in [Claims -> Entry]
    BY <1>1 DEF TInv, TypeOK
  <2>1. CASE UNCHANGED entry
    BY <2>1
  <2>2. ASSUME NEW d \in Claims, NEW e,
               entry' = [entry EXCEPT ![d] = e],
               /\ entry[d].credited => e.credited
               /\ entry[d].verdict \in {"foreign", "consumed"} => e.verdict \in {"foreign", "consumed"}
        PROVE  Stands
    BY <2>0, <2>2
  <2>3. ASSUME NEW d \in Claims, Clears(d) PROVE Stands
    BY <2>0, <2>3 DEF Clears
  <2>4. \A e \in Entry :
          /\ MarkedCredited(e).credited /\ MarkedCredited(e).verdict = e.verdict
          /\ MarkedUnresolved(e).credited = e.credited /\ MarkedUnresolved(e).verdict = e.verdict
          /\ MarkedPoisoned(e).credited = e.credited /\ MarkedPoisoned(e).verdict = e.verdict
          /\ MarkedConsumed(e).credited = e.credited /\ MarkedConsumed(e).verdict = "consumed"
          /\ MarkedResolved(e).credited = e.credited /\ MarkedResolved(e).verdict = e.verdict
          /\ Probed(e, "none") = e
          /\ Probed(e, "foreign").credited = e.credited /\ Probed(e, "foreign").verdict = "foreign"
    BY DEF Entry, MarkedCredited, MarkedUnresolved, MarkedPoisoned, MarkedConsumed, MarkedResolved, Probed
  <2>5. ASSUME NEW d \in Claims, NEW e \in {entry[d], MarkedCredited(entry[d]), MarkedUnresolved(entry[d]),
                 MarkedPoisoned(entry[d]), MarkedConsumed(entry[d]), MarkedResolved(entry[d]),
                 Probed(entry[d], "none"), Probed(entry[d], "foreign")},
               Marks(d, e) \/ entry' = [entry EXCEPT ![d] = e]
        PROVE  Stands
    <3>1. entry[d] \in Entry
      BY <2>0
    <3>2. entry[d].credited => e.credited
      BY <2>4, <2>5, <3>1
    <3>3. entry[d].verdict \in {"foreign", "consumed"} => e.verdict \in {"foreign", "consumed"}
      BY <2>4, <2>5, <3>1
    <3> QED BY <2>1, <2>2, <2>5, <3>2, <3>3 DEF Marks
  <2>6. /\ at["drain"] \in InLine => job["drain"] \in Claims
        /\ at["claim"] \notin {"idle", "between"} => job["claim"] \in Claims
        /\ at["probe"] \in InLine => job["probe"] \in Claims
    BY <1>1 DEF TInv, Works, Procs, InLine, AtMint
  <2>7. CASE Drain
    <3>1. CASE DrainStarts \/ DrainEnds
      BY <2>1, <3>1 DEF DrainStarts, DrainEnds, store
    <3>2. ASSUME NEW c \in Claims, DrainTakes(c) PROVE Stands
      BY <2>0, <3>2 DEF DrainTakes
    <3>3. ASSUME NEW a \in Answers, DrainHears(a) PROVE Stands
      <4>1. job["drain"] \in Claims
        BY <1>1, <3>3, HearsWhat DEF DrainHears, Procs
      <4> QED BY <2>5, <3>3, <4>1 DEF DrainHears, Answers
    <3> QED BY <2>7, <3>1, <3>2, <3>3 DEF Drain
  <2>8. CASE Claim
    <3>1. ASSUME NEW c \in Claims, ClaimStarts(c) PROVE Stands
      BY <2>0, <3>1 DEF ClaimStarts, Restashed, Entry
    <3>2. ASSUME NEW c \in Claims, ClaimExports(c) PROVE Stands
      BY <2>1, <3>2 DEF ClaimExports
    <3>3. ASSUME NEW c \in Claims, SettledClaimOpens(c) PROVE Stands
      BY <2>3, <3>3 DEF SettledClaimOpens
    <3>4. ASSUME NEW a \in Answers, NativeClaimHears(a) \/ BrowserClaimHears(a) PROVE Stands
      <4>1. job["claim"] \in Claims
        BY <1>1, <3>4, HearsWhat DEF NativeClaimHears, BrowserClaimHears, Procs
      <4>2. CASE NativeClaimHears(a)
        BY <2>5, <4>1, <4>2 DEF NativeClaimHears
      <4>3. CASE BrowserClaimHears(a)
        BY <2>5, <4>1, <4>3 DEF BrowserClaimHears
      <4> QED BY <3>4, <4>2, <4>3
    <3>5. CASE ClaimGrows
      BY <2>5, <2>6, <3>5 DEF ClaimGrows
    <3>6. CASE ClaimCovers \/ ClaimStops
      BY <2>1, <3>6 DEF ClaimCovers, ClaimStops, store
    <3>7. CASE ClaimPays
      BY <2>3, <2>6, <3>7 DEF ClaimPays
    <3> QED BY <2>8, <3>1, <3>2, <3>3, <3>4, <3>5, <3>6, <3>7 DEF Claim
  <2>9. CASE Cards
    <3>1. ASSUME NEW c \in Claims, ProbeStarts(c) PROVE Stands
      BY <2>1, <3>1 DEF ProbeStarts, store
    <3>2. ASSUME NEW c \in Claims, StrandedSecured(c) PROVE Stands
      BY <2>3, <3>2 DEF StrandedSecured
    <3>3. ASSUME NEW c \in Claims, Dismisses(c) PROVE Stands
      BY <2>5, <3>3 DEF Dismisses
    <3>4. ASSUME NEW a \in Answers, ProbeHears(a) PROVE Stands
      <4>1. job["probe"] \in Claims
        BY <1>1, <3>4, HearsWhat DEF ProbeHears, Procs
      <4> QED BY <2>3, <2>5, <3>4, <4>1 DEF ProbeHears
    <3>5. CASE ExportConfirmed
      <4>1. export \in Claims
        BY <1>1, <3>5 DEF ExportConfirmed, TInv, TypeOK
      <4> QED BY <2>3, <3>5, <4>1 DEF ExportConfirmed
    <3>6. CASE Reconciles
      BY <2>0, <2>4, <3>6 DEF Reconciles
    <3> QED BY <2>9, <3>1, <3>2, <3>3, <3>4, <3>5, <3>6 DEF Cards
  <2>10. CASE Mint \/ Crash \/ UNCHANGED vars
    BY <2>1, <2>10 DEF Mint, Submits, Retries, Lands, TakenElsewhere, Ages, Deposit, Crash, vars, store
  <2> QED BY <1>1, <2>7, <2>8, <2>9, <2>10 DEF Next
<1>2. Spec => []TInv
  BY RedemptionTypes, PTL DEF TInv
<1>3. TInv /\ [Next]_vars => [Stands]_vars
  BY <1>1
<1> QED BY <1>2, <1>3, PTL DEF Spec, MarksStand

-----------------------------------------------------------------------------
(* The note and its entry *)

(* A note only goes on: it is never live again, and ours for good.          *)
LEMMA NoteMoves ==
  ASSUME TInv, [Next]_vars, NEW c \in Claims
  PROVE  /\ note'[c] = "live" => note[c] = "live"
         /\ note'[c] = "sent" => note[c] \in {"live", "sent"}
         /\ note[c] = "ours" => note'[c] = "ours"
         /\ mixed \subseteq mixed' /\ covered \subseteq covered'
<1> DEFINE Moves ==
      /\ note'[c] = "live" => note[c] = "live"
      /\ note'[c] = "sent" => note[c] \in {"live", "sent"}
      /\ note[c] = "ours" => note'[c] = "ours"
      /\ mixed \subseteq mixed' /\ covered \subseteq covered'
<1>0. note \in [Claims -> Notes]
  BY DEF TInv, TypeOK
<1>1. CASE UNCHANGED <<note, mixed, covered>>
  BY <1>1
<1>2. CASE Drain
  BY <1>1, <1>2 DEF Drain, DrainStarts, DrainEnds, DrainTakes, DrainHears, wallet, past
<1>3. CASE Claim
  <2>1. CASE \E a \in Answers : NativeClaimHears(a) \/ BrowserClaimHears(a)
    BY <2>1 DEF NativeClaimHears, BrowserClaimHears, wallet, past
  <2>2. CASE ClaimPays
    BY <2>2 DEF ClaimPays
  <2>3. CASE ClaimGrows \/ ClaimCovers \/ ClaimStops
    BY <2>3 DEF ClaimGrows, ClaimCovers, ClaimStops, wallet, past
  <2>4. CASE \E d \in Claims : ClaimStarts(d) \/ ClaimExports(d) \/ SettledClaimOpens(d)
    BY <2>4 DEF ClaimStarts, ClaimExports, SettledClaimOpens, wallet, past
  <2> QED BY <1>3, <2>1, <2>2, <2>3, <2>4 DEF Claim
<1>4. CASE Cards
  <2>1. CASE ExportConfirmed
    BY <1>0, <2>1 DEF ExportConfirmed, Imported
  <2>2. ASSUME NEW d \in Claims, StrandedSecured(d) PROVE Moves
    BY <1>0, <2>2 DEF StrandedSecured, Imported, past
  <2>3. CASE Reconciles \/ (\E d \in Claims : ProbeStarts(d) \/ Dismisses(d))
             \/ (\E a \in Answers : ProbeHears(a))
    BY <2>3 DEF Reconciles, ProbeStarts, Dismisses, ProbeHears, wallet, past
  <2> QED BY <1>4, <2>1, <2>2, <2>3 DEF Cards
<1>5. CASE Mint
  <2>1. ASSUME NEW p \in Procs, Submits(p) PROVE Moves
    BY <1>0, <2>1 DEF Submits, past
  <2>2. ASSUME NEW d \in Claims, Lands(d) \/ TakenElsewhere(d) PROVE Moves
    BY <1>0, <2>2 DEF Lands, TakenElsewhere, past
  <2>3. CASE Deposit \/ (\E p \in Procs : Retries(p)) \/ (\E d \in Claims : Ages(d))
    BY <2>3 DEF Deposit, Retries, Ages, wallet, past
  <2> QED BY <1>5, <2>1, <2>2, <2>3 DEF Mint
<1>6. CASE Crash \/ UNCHANGED vars
  BY <1>1, <1>6 DEF Crash, vars, wallet, past
<1> QED BY <1>2, <1>3, <1>4, <1>5, <1>6 DEF Next

(* An honest entry stays honest while it is not written.                    *)
LEMMA HonestStays ==
  ASSUME TInv, [Next]_vars, NEW c \in Claims, NEW e, Honest(note, mixed, c, e)
  PROVE  Honest(note', mixed', c, e)
BY NoteMoves DEF Honest

(* Writes that keep an honest entry honest, and those that need a reason.   *)
LEMMA HonestWrites ==
  ASSUME NEW n, NEW m, NEW c, NEW e \in Entry, Honest(n, m, c, e)
  PROVE  /\ Honest(n, m, c, Fresh) /\ Honest(n, m, c, MarkedPoisoned(e))
         /\ Honest(n, m, c, Probed(e, "none")) /\ Honest(n, m, c, Probed(e, "foreign"))
         /\ Honest(n, m, c, Bumped(e)) /\ Honest(n, m, c, [e EXCEPT !.resolved = FALSE])
         /\ n[c] = "ours" \/ c \in m => Honest(n, m, c, MarkedCredited(e))
         /\ n[c] # "live" =>
              /\ Honest(n, m, c, MarkedUnresolved(e)) /\ Honest(n, m, c, MarkedConsumed(e))
              /\ Honest(n, m, c, MarkedResolved(e))
<1> USE DEF Honest, Plain, Consumed, Entry
<1>1. Honest(n, m, c, Fresh) /\ Honest(n, m, c, MarkedPoisoned(e)) /\ Honest(n, m, c, Bumped(e))
  BY DEF Fresh, MarkedPoisoned, Bumped
<1>2. /\ Honest(n, m, c, Probed(e, "none")) /\ Honest(n, m, c, Probed(e, "foreign"))
      /\ Honest(n, m, c, [e EXCEPT !.resolved = FALSE])
  BY DEF Probed
<1>3. n[c] = "ours" \/ c \in m => Honest(n, m, c, MarkedCredited(e))
  BY DEF MarkedCredited
<1>4. ASSUME n[c] # "live"
      PROVE  /\ Honest(n, m, c, MarkedUnresolved(e)) /\ Honest(n, m, c, MarkedConsumed(e))
             /\ Honest(n, m, c, MarkedResolved(e))
  BY <1>4 DEF MarkedUnresolved, MarkedConsumed, MarkedResolved
<1> QED BY <1>1, <1>2, <1>3, <1>4

(* A balance that grew in a bracket grew by its note, or the claim is mixed  *)
(* up with another.                                                         *)
LEMMA GrowthIsGrounds ==
  ASSUME TInv, Bracket, NEW p \in {"claim", "probe"},
         at[p] \in InLine \cup {"verdict", "failed"}, balance - base[p] # 0
  PROVE  note[job[p]] = "ours" \/ job[p] \in mixed
<1>1. balance \in Int /\ base[p] \in Int /\ p \in Watching
  BY DEF TInv, TypeOK, Watching, Procs
<1> QED BY <1>1 DEF Bracket

(* What is doubtful is not live.                                            *)
LEMMA DoubtIsNotLive ==
  ASSUME TInv, HonestStash, NEW c \in Doubtful
  PROVE  note[c] # "live"
BY DEF TInv, TypeOK, HonestStash, Honest, Plain, Doubtful

(* What is written into the stash is honest.                                 *)
LEMMA HonestStep == TInv /\ RInv /\ [Next]_vars => HonestStash'
<1> SUFFICES ASSUME TInv, RInv, [Next]_vars PROVE HonestStash'
  OBVIOUS
<1>0. /\ kept \subseteq Claims /\ entry \in [Claims -> Entry] /\ copy \in [Claims -> Entry]
      /\ \A c \in Claims : Honest(note, mixed, c, entry[c]) /\ Honest(note, mixed, c, copy[c])
  BY DEF TInv, TypeOK, RInv, HonestStash
<1>1. \A c \in Claims : Honest(note', mixed', c, entry[c]) /\ Honest(note', mixed', c, copy[c])
  BY <1>0, HonestStays
<1>2. CASE UNCHANGED <<entry, copy>>
  BY <1>1, <1>2 DEF HonestStash
<1>3. ASSUME NEW d \in Claims, NEW e, Honest(note', mixed', d, e), UNCHANGED copy,
             Marks(d, e) \/ entry' = [entry EXCEPT ![d] = e]
      PROVE  HonestStash'
  BY <1>0, <1>1, <1>3 DEF HonestStash, Marks
<1>4. ASSUME NEW d \in Claims, Clears(d), UNCHANGED copy PROVE HonestStash'
  <2>1. Honest(note', mixed', d, Fresh)
    BY <1>0, <1>1, HonestWrites
  <2> QED BY <1>3, <1>4, <2>1 DEF Clears
<1>5. CASE Drain
  <2>1. CASE DrainStarts
    <3>1. \A c \in Claims : Honest(note', mixed', c, Fresh)
      BY <1>0, <1>1, HonestWrites
    <3>2. entry' = entry /\ \A c \in Claims : copy'[c] \in {entry[c], Fresh}
      BY <2>1 DEF DrainStarts, store
    <3> QED BY <1>1, <3>1, <3>2 DEF HonestStash
  <2>2. CASE DrainEnds
    BY <1>2, <2>2 DEF DrainEnds, store, drain
  <2>3. ASSUME NEW c \in Claims, DrainTakes(c) PROVE HonestStash'
    <3>1. Honest(note', mixed', c, Bumped(copy[c])) /\ Honest(note', mixed', c, Fresh)
      BY <1>0, <1>1, HonestWrites
    <3>2. entry' = [entry EXCEPT ![c] = Bumped(copy[c])] /\ copy' = [copy EXCEPT ![c] = Fresh]
      BY <2>3 DEF DrainTakes
    <3> QED BY <1>0, <1>1, <3>1, <3>2 DEF HonestStash
  <2>4. ASSUME NEW a \in Answers, DrainHears(a) PROVE HonestStash'
    <3>1. /\ job["drain"] \in Claims /\ note' = note
          /\ a = "consumed" => note[job["drain"]] # "live"
          /\ a = "ok" => note[job["drain"]] = "ours" \/ job["drain"] \in mixed'
      BY <2>4, HearsWhat DEF DrainHears, Procs, RInv, Asked, wallet
    <3>2. entry[job["drain"]] \in Entry
      BY <1>0, <3>1
    <3>3. \E e : Honest(note', mixed', job["drain"], e) /\ Marks(job["drain"], e)
      BY <1>1, <2>4, <3>1, <3>2, HonestWrites DEF DrainHears, Answers
    <3> QED BY <1>3, <2>4, <3>1, <3>3 DEF DrainHears, drain
  <2> QED BY <1>5, <2>1, <2>2, <2>3, <2>4 DEF Drain
<1>6. CASE Claim
  <2>1. ASSUME NEW c \in Claims, ClaimStarts(c) PROVE HonestStash'
    <3>1. Honest(note', mixed', c, Restashed(c))
      BY <1>0, <1>1, HonestWrites DEF Restashed
    <3> QED BY <1>3, <2>1, <3>1 DEF ClaimStarts, drain
  <2>2. ASSUME NEW c \in Claims, ClaimExports(c) PROVE HonestStash'
    BY <1>2, <2>2 DEF ClaimExports, drain
  <2>3. ASSUME NEW c \in Claims, SettledClaimOpens(c) PROVE HonestStash'
    BY <1>4, <2>3 DEF SettledClaimOpens, drain
  <2>4. ASSUME NEW a \in Answers, NativeClaimHears(a) PROVE HonestStash'
    <3>1. /\ job["claim"] \in Claims /\ note' = note
          /\ a = "consumed" => note[job["claim"]] # "live"
      BY <2>4, HearsWhat DEF NativeClaimHears, Procs, RInv, Asked, wallet
    <3>2. entry[job["claim"]] \in Entry
      BY <1>0, <3>1
    <3>3. \E e : Honest(note', mixed', job["claim"], e) /\ Marks(job["claim"], e)
      BY <1>1, <2>4, <3>1, <3>2, HonestWrites DEF NativeClaimHears
    <3> QED BY <1>3, <2>4, <3>1, <3>3 DEF NativeClaimHears, drain
  <2>5. ASSUME NEW a \in Answers, BrowserClaimHears(a) PROVE HonestStash'
    <3>1. /\ job["claim"] \in Claims /\ note' = note
          /\ a = "consumed" => note[job["claim"]] # "live"
      BY <2>5, HearsWhat DEF BrowserClaimHears, Procs, RInv, Asked, wallet
    <3>2. entry[job["claim"]] \in Entry
      BY <1>0, <3>1
    <3>3. Recovered("claim", a) => note[job["claim"]] = "ours" \/ job["claim"] \in mixed'
      <4>1. at["claim"] \in InLine /\ mixed \subseteq mixed'
        BY <2>5, HearsWhat DEF BrowserClaimHears, Procs
      <4> QED BY <4>1, GrowthIsGrounds DEF RInv, Recovered
    <3>4. \E e : Honest(note', mixed', job["claim"], e)
                 /\ (Marks(job["claim"], e) \/ entry' = [entry EXCEPT ![job["claim"]] = e])
      BY <1>1, <2>5, <3>1, <3>2, <3>3, HonestWrites DEF BrowserClaimHears
    <3> QED BY <1>3, <2>5, <3>1, <3>4 DEF BrowserClaimHears, drain
  <2>6. CASE ClaimGrows
    <3>1. job["claim"] \in Claims /\ note' = note /\ mixed' = mixed /\ balance - base["claim"] >= 1
      BY <2>6 DEF ClaimGrows, Grown, TInv, Works, Procs, wallet, past
    <3>2. note[job["claim"]] = "ours" \/ job["claim"] \in mixed
      BY <2>6, <3>1, GrowthIsGrounds DEF RInv, ClaimGrows
    <3>3. Honest(note', mixed', job["claim"], MarkedCredited(entry[job["claim"]]))
      BY <1>0, <1>1, <3>1, <3>2, HonestWrites
    <3> QED BY <1>3, <2>6, <3>1, <3>3 DEF ClaimGrows, drain
  <2>7. CASE ClaimCovers \/ ClaimStops
    BY <1>2, <2>7 DEF ClaimCovers, ClaimStops, store, drain
  <2>8. CASE ClaimPays
    <3>1. job["claim"] \in Claims
      BY <2>8 DEF ClaimPays, TInv, Works, Procs
    <3> QED BY <1>4, <2>8, <3>1 DEF ClaimPays, drain
  <2> QED BY <1>6, <2>1, <2>2, <2>3, <2>4, <2>5, <2>6, <2>7, <2>8 DEF Claim
<1>7. CASE Cards
  <2>1. ASSUME NEW c \in Claims, ProbeStarts(c) PROVE HonestStash'
    BY <1>2, <2>1 DEF ProbeStarts, store, drain
  <2>2. ASSUME NEW c \in Claims, StrandedSecured(c) PROVE HonestStash'
    BY <1>4, <2>2 DEF StrandedSecured, drain
  <2>3. ASSUME NEW c \in Claims, Dismisses(c) PROVE HonestStash'
    <3>1. note[c] # "live" /\ note' = note
      BY <2>3, DoubtIsNotLive DEF Dismisses, RInv, wallet
    <3>2. Honest(note', mixed', c, MarkedResolved(entry[c]))
      BY <1>0, <1>1, <3>1, HonestWrites
    <3> QED BY <1>3, <2>3, <3>2 DEF Dismisses, drain
  <2>4. ASSUME NEW a \in Answers, ProbeHears(a) PROVE HonestStash'
    <3>1. /\ job["probe"] \in Claims /\ note' = note
          /\ a = "consumed" => note[job["probe"]] # "live"
      BY <2>4, HearsWhat DEF ProbeHears, Procs, RInv, Asked, wallet
    <3>2. entry[job["probe"]] \in Entry
      BY <1>0, <3>1
    <3>3. \/ Clears(job["probe"])
          \/ \E e : Honest(note', mixed', job["probe"], e)
                 /\ (Marks(job["probe"], e) \/ entry' = [entry EXCEPT ![job["probe"]] = e])
      BY <1>1, <2>4, <3>1, <3>2, HonestWrites DEF ProbeHears
    <3> QED BY <1>3, <1>4, <2>4, <3>1, <3>3 DEF ProbeHears, drain
  <2>5. CASE ExportConfirmed
    <3>1. export \in Claims
      BY <2>5 DEF ExportConfirmed, TInv, TypeOK
    <3> QED BY <1>4, <2>5, <3>1 DEF ExportConfirmed, drain
  <2>6. CASE Reconciles
    <3>1. \A c \in Doubtful : note[c] # "live" /\ note' = note /\ c \in Claims
      BY <1>0, <2>6, DoubtIsNotLive DEF Reconciles, RInv, wallet, Doubtful
    <3>2. \A c \in Doubtful : Honest(note', mixed', c, MarkedResolved(entry[c]))
      BY <1>0, <1>1, <3>1, HonestWrites
    <3>3. /\ \A c \in Claims : entry'[c] = entry[c] \/ (c \in Doubtful /\ entry'[c] = MarkedResolved(entry[c]))
          /\ copy' = copy
      BY <2>6 DEF Reconciles, drain
    <3> QED BY <1>1, <3>2, <3>3 DEF HonestStash
  <2> QED BY <1>7, <2>1, <2>2, <2>3, <2>4, <2>5, <2>6 DEF Cards
<1>8. CASE Mint \/ UNCHANGED vars
  BY <1>2, <1>8 DEF Mint, Submits, Retries, Lands, TakenElsewhere, Ages, Deposit, vars, store, drain
<1>9. CASE Crash
  <2>1. \A c \in Claims : Honest(note', mixed', c, Fresh)
    BY <1>0, <1>1, HonestWrites
  <2> QED BY <1>1, <1>9, <2>1 DEF Crash, HonestStash, store
<1> QED BY <1>5, <1>6, <1>7, <1>8, <1>9 DEF Next

-----------------------------------------------------------------------------
(* The parties and the balance *)

(* How a step moves a party: to the mint from the line, elsewhere, or on     *)
(* with the claim it has.                                                   *)
LEMMA PartyMoves ==
  ASSUME TInv, [Next]_vars, NEW p \in Procs
  PROVE  /\ at'[p] \in AtMint =>
              job'[p] = job[p] /\ (at[p] \in AtMint \/ Submits(p))
         /\ p \in Watching' =>
              \/ p \in Watching /\ job'[p] = job[p] /\ base'[p] = base[p]
              \/ base'[p] = balance /\ balance' = balance
         /\ at'["claim"] = "paying" =>
              job'["claim"] = job["claim"] /\ (at["claim"] = "paying" \/ ClaimGrows)
<1> DEFINE Moves ==
      /\ at'[p] \in AtMint =>
           job'[p] = job[p] /\ (at[p] \in AtMint \/ Submits(p))
      /\ p \in Watching' =>
           \/ p \in Watching /\ job'[p] = job[p] /\ base'[p] = base[p]
           \/ base'[p] = balance /\ balance' = balance
      /\ at'["claim"] = "paying" =>
           job'["claim"] = job["claim"] /\ (at["claim"] = "paying" \/ ClaimGrows)
<1>0. /\ at \in [Procs -> Stages] /\ job \in [Procs -> Claims \cup {NoClaim}] /\ base \in [Procs -> Int]
      /\ Procs = {"drain", "claim", "probe"} /\ AtMint = {"sent", "again"}
      /\ InLine = {"waiting", "sent", "again"}
  BY DEF TInv, TypeOK, Procs, AtMint, InLine
<1>1. CASE UNCHANGED <<at, job, base>>
  BY <1>0, <1>1 DEF Watching
<1>2. ASSUME NEW q \in Procs, NEW s \in {"idle", "between", "verdict", "failed"}, at[q] \in InLine,
             Leaves(q, s)
      PROVE  Moves
  <2>1. at' = [at EXCEPT ![q] = s]
        /\ job' = [job EXCEPT ![q] = IF s \in {"idle", "between"} THEN NoClaim ELSE job[q]]
        /\ base' = IF s \in {"idle", "between"} THEN [base EXCEPT ![q] = 0] ELSE base
    BY <1>2 DEF Leaves
  <2> QED BY <1>0, <1>2, <2>1 DEF Watching
<1>3. ASSUME NEW q \in Procs, NEW c \in Claims, Enlists(q, c), UNCHANGED balance,
             (base' = base /\ q = "drain") \/ base' = [base EXCEPT ![q] = balance]
      PROVE  Moves
  <2>1. at' = [at EXCEPT ![q] = "waiting"] /\ job' = [job EXCEPT ![q] = c]
    BY <1>3 DEF Enlists
  <2> QED BY <1>0, <1>3, <2>1 DEF Watching
<1>4. CASE Drain
  <2>1. CASE DrainStarts \/ DrainEnds
    BY <1>0, <2>1 DEF DrainStarts, DrainEnds, Watching
  <2>2. ASSUME NEW c \in Claims, DrainTakes(c) PROVE Moves
    BY <1>0, <1>3, <2>2 DEF DrainTakes, wallet
  <2>3. ASSUME NEW a \in Answers, DrainHears(a) PROVE Moves
    BY <1>0, <1>2, <2>3, HearsWhat DEF DrainHears
  <2> QED BY <1>4, <2>1, <2>2, <2>3 DEF Drain
<1>5. CASE Claim
  <2>1. ASSUME NEW c \in Claims, ClaimStarts(c) PROVE Moves
    BY <1>0, <1>3, <2>1 DEF ClaimStarts, wallet
  <2>2. ASSUME NEW c \in Claims, ClaimExports(c) \/ SettledClaimOpens(c) PROVE Moves
    BY <1>1, <2>2 DEF ClaimExports, SettledClaimOpens, line
  <2>3. ASSUME NEW a \in Answers, NativeClaimHears(a) \/ BrowserClaimHears(a) PROVE Moves
    <3>1. at["claim"] \in InLine /\ \E s \in {"failed", "verdict"} : Leaves("claim", s)
      BY <1>0, <2>3, HearsWhat DEF NativeClaimHears, BrowserClaimHears
    <3> QED BY <1>0, <1>2, <3>1
  <2>4. CASE ClaimGrows \/ ClaimCovers
    BY <1>0, <2>4 DEF ClaimGrows, ClaimCovers, Watching
  <2>5. CASE ClaimStops \/ ClaimPays
    BY <1>0, <2>5 DEF ClaimStops, ClaimPays, ClaimEnds, Watching
  <2> QED BY <1>5, <2>1, <2>2, <2>3, <2>4, <2>5 DEF Claim
<1>6. CASE Cards
  <2>1. ASSUME NEW c \in Claims, ProbeStarts(c) PROVE Moves
    BY <1>0, <1>3, <2>1 DEF ProbeStarts, wallet
  <2>2. ASSUME NEW a \in Answers, ProbeHears(a) PROVE Moves
    BY <1>0, <1>2, <2>2, HearsWhat DEF ProbeHears
  <2>3. ASSUME NEW c \in Claims, StrandedSecured(c) \/ Dismisses(c) PROVE Moves
    BY <1>1, <2>3 DEF StrandedSecured, Dismisses, line
  <2>4. CASE ExportConfirmed \/ Reconciles
    BY <1>1, <2>4 DEF ExportConfirmed, Reconciles, line
  <2> QED BY <1>6, <2>1, <2>2, <2>3, <2>4 DEF Cards
<1>7. CASE Mint
  <2>1. ASSUME NEW q \in Procs, Submits(q) PROVE Moves
    <3>1. /\ at[q] = "waiting" /\ \E s \in AtMint : at' = [at EXCEPT ![q] = s]
          /\ UNCHANGED <<job, base>>
      BY <1>0, <2>1 DEF Submits
    <3> QED BY <1>0, <2>1, <3>1 DEF Watching
  <2>2. ASSUME NEW q \in Procs, Retries(q) PROVE Moves
    BY <1>0, <2>2 DEF Retries, Watching
  <2>3. CASE Deposit \/ (\E c \in Claims : Lands(c) \/ TakenElsewhere(c) \/ Ages(c))
    BY <1>1, <2>3 DEF Deposit, Lands, TakenElsewhere, Ages, line
  <2> QED BY <1>7, <2>1, <2>2, <2>3 DEF Mint
<1>8. CASE Crash
  BY <1>0, <1>8 DEF Crash, Idle, Watching
<1>9. CASE UNCHANGED vars
  BY <1>1, <1>9 DEF vars, line
<1> QED BY <1>4, <1>5, <1>6, <1>7, <1>8, <1>9 DEF Next

(* Who has just submitted his note has a note that is not live.             *)
LEMMA AskedStep == TInv /\ RInv /\ [Next]_vars => Asked'
<1> SUFFICES ASSUME TInv, RInv, [Next]_vars, NEW p \in Procs, at'[p] \in AtMint
             PROVE  note'[job'[p]] # "live"
  BY DEF Asked
<1>1. job'[p] = job[p] /\ (at[p] \in AtMint \/ Submits(p))
  BY PartyMoves
<1>2. CASE at[p] \in AtMint
  <2>1. job[p] \in Claims /\ note[job[p]] # "live"
    BY <1>2 DEF TInv, Works, RInv, Asked, AtMint
  <2> QED BY <1>1, <2>1, NoteMoves
<1>3. CASE Submits(p)
  <2>1. job[p] \in Claims /\ note \in [Claims -> Notes]
    BY <1>3 DEF TInv, TypeOK, Works, Submits
  <2> QED BY <1>1, <1>3, <2>1 DEF Submits
<1> QED BY <1>1, <1>2, <1>3

(* The balance moves while a bracket is open only for the note it watches, or *)
(* the claim counts as mixed up.                                            *)
LEMMA BalanceMoves ==
  ASSUME TInv, [Next]_vars, NEW p \in Watching
  PROVE  balance' = balance \/ job[p] \in mixed' \/ note'[job[p]] = "ours"
<1> DEFINE Moves == balance' = balance \/ job[p] \in mixed' \/ note'[job[p]] = "ours"
<1>0. note \in [Claims -> Notes]
  BY DEF TInv, TypeOK
<1>1. CASE UNCHANGED balance
  BY <1>1
<1>2. ASSUME NEW c, mixed' = mixed \cup Crossed(c), job[p] # c PROVE Moves
  BY <1>2 DEF Crossed
<1>3. job[p] \in Claims
  BY DEF TInv, Works, Watching, InLine, AtMint, Procs
<1>4. job[p] # NoClaim
  BY <1>3, RedemptionAssumption
<1>5. CASE Drain
  BY <1>1, <1>5 DEF Drain, DrainStarts, DrainEnds, DrainTakes, DrainHears, wallet
<1>6. CASE Claim
  <2>1. CASE ClaimPays
    BY <1>2, <1>4, <2>1 DEF ClaimPays
  <2>2. CASE \E a \in Answers : NativeClaimHears(a) \/ BrowserClaimHears(a)
    BY <1>1, <2>2 DEF NativeClaimHears, BrowserClaimHears, wallet
  <2>3. CASE \/ ClaimGrows \/ ClaimCovers \/ ClaimStops
             \/ \E c \in Claims : ClaimStarts(c) \/ ClaimExports(c) \/ SettledClaimOpens(c)
    BY <1>1, <2>3 DEF ClaimGrows, ClaimCovers, ClaimStops, ClaimStarts, ClaimExports, SettledClaimOpens,
       wallet
  <2> QED BY <1>6, <2>1, <2>2, <2>3 DEF Claim
<1>7. CASE Cards
  BY <1>1, <1>7 DEF Cards, ProbeStarts, StrandedSecured, Dismisses, ProbeHears, ExportConfirmed, Reconciles,
     wallet
<1>8. CASE Mint
  <2>1. ASSUME NEW c \in Claims, Lands(c) PROVE Moves
    <3>1. CASE job[p] = c
      BY <1>0, <1>3, <2>1, <3>1 DEF Lands
    <3>2. CASE job[p] # c
      BY <1>2, <2>1, <3>2 DEF Lands
    <3> QED BY <3>1, <3>2
  <2>2. CASE Deposit
    BY <1>2, <1>4, <2>2 DEF Deposit
  <2>3. CASE \/ \E q \in Procs : Submits(q) \/ Retries(q)
             \/ \E c \in Claims : TakenElsewhere(c) \/ Ages(c)
    BY <1>1, <2>3 DEF Submits, Retries, TakenElsewhere, Ages, wallet
  <2> QED BY <1>8, <2>1, <2>2, <2>3 DEF Mint
<1>9. CASE Crash \/ UNCHANGED vars
  BY <1>1, <1>9 DEF Crash, vars, wallet
<1> QED BY <1>5, <1>6, <1>7, <1>8, <1>9 DEF Next

(* A bracket opens at the balance and holds until its note is ours.          *)
LEMMA BracketStep == TInv /\ RInv /\ [Next]_vars => Bracket'
<1> SUFFICES ASSUME TInv, RInv, [Next]_vars, NEW p \in Watching'
             PROVE  job'[p] \in mixed' \/ note'[job'[p]] = "ours" \/ balance' = base'[p]
  BY DEF Bracket
<1>1. p \in Procs
  BY DEF Watching, Procs
<1>2. CASE base'[p] = balance /\ balance' = balance
  BY <1>2
<1>3. CASE p \in Watching /\ job'[p] = job[p] /\ base'[p] = base[p]
  <2>1. job[p] \in mixed \/ note[job[p]] = "ours" \/ balance = base[p]
    BY <1>3 DEF RInv, Bracket
  <2>2. job[p] \in Claims
    BY <1>1, <1>3 DEF TInv, Works, Watching, InLine, AtMint
  <2> QED BY <1>3, <2>1, <2>2, NoteMoves, BalanceMoves
<1> QED BY <1>1, <1>2, <1>3, PartyMoves

(* Growth lets a payout go for a note that is ours.                          *)
LEMMA PayingStep == TInv /\ RInv /\ [Next]_vars => PayingIsOurs'
<1> SUFFICES ASSUME TInv, RInv, [Next]_vars, at'["claim"] = "paying"
             PROVE  job'["claim"] \in mixed' \/ note'[job'["claim"]] = "ours"
  BY DEF PayingIsOurs
<1>0. "claim" \in Procs
  BY DEF Procs
<1>1. job'["claim"] = job["claim"] /\ (at["claim"] = "paying" \/ ClaimGrows)
  BY <1>0, PartyMoves
<1>2. CASE at["claim"] = "paying"
  <2>1. job["claim"] \in Claims /\ (job["claim"] \in mixed \/ note[job["claim"]] = "ours")
    BY <1>0, <1>2 DEF TInv, Works, RInv, PayingIsOurs
  <2> QED BY <1>1, <2>1, NoteMoves
<1>3. CASE ClaimGrows
  <2>1. /\ job["claim"] \in Claims /\ note' = note /\ mixed' = mixed
        /\ at["claim"] = "verdict" /\ balance - base["claim"] >= 1
    BY <1>0, <1>3 DEF ClaimGrows, Grown, TInv, Works, wallet, past
  <2> QED BY <1>1, <2>1, GrowthIsGrounds DEF RInv
<1> QED BY <1>1, <1>2, <1>3

-----------------------------------------------------------------------------
(* The way out of storage *)

(* A claim leaves the list of the unpaid, or a note leaves storage, only     *)
(* when the wallet or someone else has the note, other money covered it, or *)
(* the evidence was another's.                                              *)
LEMMA WaysOut ==
  ASSUME TInv, RInv, [Next]_vars, NEW c \in Claims, c \notin covered' \cup mixed'
  PROVE  /\ c \in paid' \ paid => note'[c] \notin {"live", "sent"}
         /\ c \in begun' /\ (c \in begun => c \in kept \/ export = c) =>
              c \in kept' \/ export' = c \/ note'[c] \notin {"live", "sent"}
<1> DEFINE Out ==
      /\ c \in paid' \ paid => note'[c] \notin {"live", "sent"}
      /\ c \in begun' /\ (c \in begun => c \in kept \/ export = c) =>
           c \in kept' \/ export' = c \/ note'[c] \notin {"live", "sent"}
<1>0. /\ note \in [Claims -> Notes] /\ c \notin mixed /\ c \notin covered
      /\ c \in paid => note[c] \notin {"live", "sent"}
  BY NoteMoves DEF TInv, TypeOK, RInv, PaidIsGone
<1>1. CASE kept \subseteq kept' /\ UNCHANGED <<export, begun, paid>>
  BY <1>1
<1>2. CASE Drain
  BY <1>1, <1>2 DEF Drain, DrainStarts, DrainEnds, DrainTakes, DrainHears, store, past
<1>3. CASE Claim
  <2>1. ASSUME NEW d \in Claims, ClaimStarts(d) PROVE Out
    BY <2>1, RedemptionAssumption DEF ClaimStarts
  <2>2. ASSUME NEW d \in Claims, ClaimExports(d) PROVE Out
    BY <2>2, RedemptionAssumption DEF ClaimExports
  <2>3. ASSUME NEW d \in Claims, SettledClaimOpens(d) PROVE Out
    BY <1>0, <2>3 DEF SettledClaimOpens, Clears, wallet, past
  <2>4. ASSUME NEW a \in Answers, NativeClaimHears(a) PROVE Out
    BY <1>1, <2>4 DEF NativeClaimHears, past
  <2>5. ASSUME NEW a \in Answers, BrowserClaimHears(a) PROVE Out
    <3>1. /\ job["claim"] \in Claims /\ at["claim"] \in InLine
          /\ note' = note /\ paid' = paid /\ begun' = begun
      BY <2>5, HearsWhat DEF BrowserClaimHears, Procs, wallet
    <3>2. export \in {NoClaim, job["claim"]} /\ c # NoClaim
      BY <2>5, <3>1, RedemptionAssumption DEF BrowserClaimHears, RInv, SlotIsHis
    <3>3. CASE Recovered("claim", a) /\ kept' = kept
      <4>1. note[job["claim"]] = "ours" \/ job["claim"] \in mixed
        BY <3>1, <3>3, GrowthIsGrounds DEF RInv, Recovered
      <4> QED BY <1>0, <3>1, <3>2, <3>3, <4>1
    <3>4. CASE kept' = kept \cup {job["claim"]}
      BY <3>1, <3>2, <3>4
    <3> QED BY <1>1, <2>5, <3>1, <3>3, <3>4 DEF BrowserClaimHears
  <2>6. CASE ClaimGrows \/ ClaimCovers \/ ClaimStops
    BY <1>1, <2>6 DEF ClaimGrows, ClaimCovers, ClaimStops, store, past
  <2>7. CASE ClaimPays
    <3>1. CASE at["claim"] = "paying"
      <4>1. job["claim"] \in mixed \/ note[job["claim"]] = "ours"
        BY <3>1 DEF RInv, PayingIsOurs
      <4> QED BY <1>0, <2>7, <4>1 DEF ClaimPays, Clears
    <3>2. CASE at["claim"] = "covering"
      BY <1>0, <2>7, <3>2 DEF ClaimPays, Clears
    <3> QED BY <2>7, <3>1, <3>2 DEF ClaimPays
  <2> QED BY <1>3, <2>1, <2>2, <2>3, <2>4, <2>5, <2>6, <2>7 DEF Claim
<1>4. CASE Cards
  <2>1. ASSUME NEW d \in Claims, ProbeStarts(d) \/ Dismisses(d) PROVE Out
    BY <1>1, <2>1 DEF ProbeStarts, Dismisses, store, past
  <2>2. ASSUME NEW d \in Claims, StrandedSecured(d) PROVE Out
    BY <1>0, <2>2 DEF StrandedSecured, Imported, Clears, past
  <2>3. ASSUME NEW a \in Answers, ProbeHears(a) PROVE Out
    <3>1. job["probe"] \in Claims /\ at["probe"] \in InLine /\ note' = note /\ begun' = begun
      BY <2>3, HearsWhat DEF ProbeHears, Procs, wallet
    <3>2. CASE Recovered("probe", a)
      <4>1. note[job["probe"]] = "ours" \/ job["probe"] \in mixed
        BY <3>1, <3>2, GrowthIsGrounds DEF RInv, Recovered
      <4> QED BY <1>0, <2>3, <3>1, <3>2, <4>1 DEF ProbeHears, Clears
    <3> QED BY <2>3, <3>1, <3>2 DEF ProbeHears, Recovered
  <2>4. CASE ExportConfirmed
    <3>1. export \in Claims
      BY <2>4 DEF ExportConfirmed, TInv, TypeOK
    <3> QED BY <1>0, <2>4, <3>1 DEF ExportConfirmed, Imported, Clears
  <2>5. CASE Reconciles
    BY <1>1, <2>5 DEF Reconciles, past
  <2> QED BY <1>4, <2>1, <2>2, <2>3, <2>4, <2>5 DEF Cards
<1>5. CASE Mint \/ Crash \/ UNCHANGED vars
  BY <1>1, <1>5 DEF Mint, Submits, Retries, Lands, TakenElsewhere, Ages, Deposit, Crash, vars, store, past
<1> QED BY <1>2, <1>3, <1>4, <1>5 DEF Next

(* Only the claim writes to the slot, and only when it begins.              *)
LEMMA SlotStep == TInv /\ RInv /\ [Next]_vars => SlotIsHis'
<1> SUFFICES ASSUME TInv, RInv, [Next]_vars PROVE SlotIsHis'
  OBVIOUS
<1>0. /\ at \in [Procs -> Stages] /\ job \in [Procs -> Claims \cup {NoClaim}] /\ SlotIsHis
      /\ Procs = {"drain", "claim", "probe"} /\ InLine = {"waiting", "sent", "again"}
  BY DEF TInv, TypeOK, RInv, Procs, InLine, AtMint
<1>1. ASSUME at'["claim"] \in InLine => at["claim"] \in InLine /\ job'["claim"] = job["claim"],
             UNCHANGED native, export' \in {NoClaim, export}
      PROVE  SlotIsHis'
  BY <1>0, <1>1 DEF SlotIsHis
<1>2. CASE Drain
  <2>1. at'["claim"] = at["claim"] /\ job'["claim"] = job["claim"]
    BY <1>0, <1>2 DEF Drain, DrainStarts, DrainEnds, DrainTakes, DrainHears, Enlists, Leaves
  <2> QED BY <1>1, <1>2, <2>1 DEF Drain, DrainStarts, DrainEnds, DrainTakes, DrainHears, store
<1>3. CASE Claim
  <2>1. ASSUME NEW c \in Claims, ClaimStarts(c) PROVE SlotIsHis'
    BY <1>0, <2>1 DEF ClaimStarts, Enlists, SlotIsHis
  <2>2. ASSUME NEW c \in Claims, ClaimExports(c) PROVE SlotIsHis'
    BY <1>0, <2>2 DEF ClaimExports, SlotIsHis, line
  <2>3. ASSUME NEW c \in Claims, SettledClaimOpens(c) PROVE SlotIsHis'
    BY <1>1, <2>3 DEF SettledClaimOpens, line
  <2>4. ASSUME NEW a \in Answers, NativeClaimHears(a) \/ BrowserClaimHears(a) PROVE SlotIsHis'
    <3>1. at'["claim"] \in {"failed", "verdict"}
      BY <1>0, <2>4 DEF NativeClaimHears, BrowserClaimHears, Leaves
    <3> QED BY <1>0, <3>1 DEF SlotIsHis
  <2>5. CASE ClaimGrows \/ ClaimCovers \/ ClaimStops \/ ClaimPays
    <3>1. at'["claim"] \in {"paying", "covering", "idle"}
      BY <1>0, <2>5 DEF ClaimGrows, ClaimCovers, ClaimStops, ClaimPays, ClaimEnds
    <3> QED BY <1>0, <3>1 DEF SlotIsHis
  <2> QED BY <1>3, <2>1, <2>2, <2>3, <2>4, <2>5 DEF Claim
<1>4. CASE Cards
  <2>1. at'["claim"] = at["claim"] /\ job'["claim"] = job["claim"] /\ UNCHANGED native
    BY <1>0, <1>4 DEF Cards, ProbeStarts, StrandedSecured, Dismisses, ProbeHears, ExportConfirmed,
       Reconciles, Enlists, Leaves, line
  <2>2. export' \in {NoClaim, export}
    BY <1>4 DEF Cards, ProbeStarts, StrandedSecured, Dismisses, ProbeHears, ExportConfirmed, Reconciles,
       store
  <2> QED BY <1>1, <2>1, <2>2
<1>5. CASE Mint \/ UNCHANGED vars
  <2>1. UNCHANGED <<native, export, job>>
    BY <1>5 DEF Mint, Submits, Retries, Lands, TakenElsewhere, Ages, Deposit, vars, store, line
  <2>2. at'["claim"] \in InLine => at["claim"] \in InLine
    BY <1>0, <1>5 DEF Mint, Submits, Retries, Lands, TakenElsewhere, Ages, Deposit, vars, line
  <2> QED BY <1>1, <2>1, <2>2
<1>6. CASE Crash
  BY <1>0, <1>6 DEF Crash, Idle, SlotIsHis
<1> QED BY <1>2, <1>3, <1>4, <1>5, <1>6 DEF Next

(* The paid are settled and the begun are in storage.                        *)
LEMMA StoreStep == TInv /\ RInv /\ [Next]_vars => PaidIsGone' /\ InStore'
<1> SUFFICES ASSUME TInv, RInv, [Next]_vars PROVE PaidIsGone' /\ InStore'
  OBVIOUS
<1>1. ASSUME NEW c \in paid' \ (covered' \cup mixed') PROVE note'[c] \notin {"live", "sent"}
  <2>1. c \in Claims /\ c \notin covered \cup mixed
    <3>1. TInv'
      BY TypeStep
    <3>2. c \in Claims
      BY <1>1, <3>1 DEF TInv, TypeOK
    <3> QED BY <1>1, <3>2, NoteMoves
  <2>2. CASE c \in paid
    BY <2>1, <2>2, NoteMoves DEF RInv, PaidIsGone
  <2> QED BY <1>1, <2>1, <2>2, WaysOut
<1>2. ASSUME NEW c \in begun' \ (covered' \cup mixed'), note'[c] \in {"live", "sent"}
      PROVE  c \in kept' \/ export' = c
  <2>1. c \in Claims /\ c \notin covered \cup mixed
    <3>1. TInv'
      BY TypeStep
    <3>2. c \in Claims
      BY <1>2, <3>1 DEF TInv, TypeOK
    <3> QED BY <1>2, <3>2, NoteMoves
  <2>2. note[c] \in {"live", "sent"}
    BY <1>2, <2>1, NoteMoves
  <2>3. c \in begun => c \in kept \/ export = c
    BY <2>1, <2>2 DEF RInv, InStore
  <2> QED BY <1>2, <2>1, <2>3, WaysOut
<1> QED BY <1>1, <1>2 DEF PaidIsGone, InStore

-----------------------------------------------------------------------------
(* The invariant and what follows from it *)

(* The inductive invariant holds throughout.                                 *)
LEMMA Invariant == Spec => [](TInv /\ RInv)
<1>1. Init => RInv
  <2>1. Init => HonestStash
    BY DEF Init, HonestStash, Honest, Plain, Consumed, Fresh
  <2> QED BY <2>1 DEF Init, RInv, Asked, Bracket, PayingIsOurs, PaidIsGone, InStore, SlotIsHis, Watching,
              Idle, InLine, AtMint, Procs
<1>2. TInv /\ RInv /\ [Next]_vars => RInv'
  BY HonestStep, AskedStep, BracketStep, PayingStep, StoreStep, SlotStep DEF RInv
<1>3. Spec => []TInv
  BY RedemptionTypes, PTL DEF TInv
<1> QED BY <1>1, <1>2, <1>3, PTL DEF Spec

(* CreditIsGrounded: an entry is marked credited only when the wallet has    *)
(* the note, or the evidence was mixed up with another credit               *)
(* (Redemption.CreditHasGrounds; markPendingRedemptionCredited).            *)
THEOREM CreditIsGrounded == Spec => []CreditHasGrounds
<1>1. TInv /\ RInv => CreditHasGrounds
  BY DEF TInv, TypeOK, RInv, HonestStash, Honest, CreditHasGrounds
<1> QED BY <1>1, Invariant, PTL

(* NotesStayInSight: a claimed note that may still come is in storage, and   *)
(* while it is live the drain tries it or Home shows it                     *)
(* (Redemption.NoteIsKept; pending-redemptions.ts).                         *)
THEOREM NotesStayInSight == Spec => []NoteIsKept
<1>1. ASSUME TInv, RInv, NEW c \in begun \ (covered \cup mixed), note[c] = "live" PROVE Shown(c)
  <2>1. CASE export = c
    BY <2>1 DEF Shown
  <2>2. CASE c \in kept
    <3>1. entry[c] \in Entry /\ c \in Claims /\ Honest(note, mixed, c, entry[c])
      BY <1>1, <2>2 DEF TInv, TypeOK, RInv, HonestStash
    <3>2. ~entry[c].credited /\ ~entry[c].unresolved /\ ~entry[c].resolved /\ ~Consumed(entry[c])
      BY <1>1, <3>1 DEF Honest, Plain
    <3>3. entry[c].tries < MaxAttempts \/ entry[c].tries >= MaxAttempts
      BY <3>1, RedemptionAssumption DEF Entry
    <3> QED BY <2>2, <3>2, <3>3 DEF Shown, Retrying, Stranded
  <2> QED BY <1>1, <2>1, <2>2 DEF RInv, InStore
<1>2. TInv /\ RInv => NoteIsKept
  BY <1>1 DEF RInv, InStore, NoteIsKept
<1> QED BY <1>2, Invariant, PTL

=============================================================================
