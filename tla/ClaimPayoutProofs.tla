------------------------- MODULE ClaimPayoutProofs -------------------------
(***************************************************************************)
(* Theorems about ClaimPayout, for any number of payments and crashes and  *)
(* any circumstances.                                                      *)
(***************************************************************************)
EXTENDS ClaimPayout, FiniteSetTheorems, TLAPS

(* The inductive invariant, by parts.  The first holds in every world.     *)

\* Whoever is about to publish, or has been told of a settlement, knows of a
\* payment that settled.
Honest ==
  /\ record.status = "settled" => Paid
  /\ \A a \in Actors :
       /\ pc[a] \in {"close", "finish"} => Paid
       /\ (pc[a] = "apply" /\ mem[a].told.verdict = "settled") => Paid
  /\ pc["claim"] = "watch" => Paying \in Ops

(* The others hold in a guarded world.                                     *)

\* One of the two rests, and a sweep never redeems or pays.
OneAtATime ==
  /\ pc["claim"] = "idle" \/ pc["sweep"] = "idle"
  /\ pc["sweep"] \in {"idle", "look", "apply", "close"}

\* The record covers what is out.
RecordCovers ==
  /\ Out # {} => record.status # "none"
  /\ record.status \in {"none", "intent"} => record.op = 0
  /\ (record.status = "submitted" /\ record.op # 0)
       => (Out \subseteq {record.op} /\ op[record.op] # "unused")

\* A claim that got past the guard finds nothing out, and what it pays is all
\* that is out.
ClaimAlone ==
  /\ pc["claim"] \in {"redeem", "confirm", "pay"} => (record.status = "none" /\ Out = {})
  /\ pc["claim"] = "dispatch" => (record.status = "intent" /\ Out = {})
  /\ pc["claim"] = "watch" =>
       /\ record.status = "intent" /\ Paying \in Ops
       /\ Out \subseteq {Paying} /\ op[Paying] # "unused"

\* What was read is still there, and what was told is still true.
GuardInformed ==
  \A a \in Actors :
    /\ pc[a] \in {"look", "apply"} =>
         mem[a].prior = record /\ record.status \in {"intent", "submitted"}
    /\ pc[a] = "apply" =>
         /\ mem[a].told.verdict = "refunded" => Out = {}
         /\ (mem[a].told.verdict = "none" /\ record.status = "intent") => Out = {}
         /\ mem[a].told.verdict = "inflight" =>
              /\ mem[a].told.op \in Ops
              /\ Out \subseteq {mem[a].told.op} /\ op[mem[a].told.op] # "unused"

\* The record of an old version is never resolved, so nothing is paid again.
OldRecordStays ==
  world.legacy =>
    /\ record = [status |-> "submitted", op |-> 0]
    /\ \A a \in Actors :
         /\ pc[a] \in {"idle", "look", "apply"}
         /\ mem[a].told.verdict \in {"none", "unknown"}
    /\ \A o \in Ops : op[o] # "unused" => o = 1

Careful ==
  /\ OneAtATime /\ RecordCovers /\ ClaimAlone /\ GuardInformed /\ OldRecordStays
  /\ \A o, q \in Out : o = q

PInv == TypeOK /\ Honest /\ PublishedMeansPaid /\ (Guarded => Careful)

-----------------------------------------------------------------------------
(* Type correctness.                                                       *)

(* The balance is a number: the wallet sent finitely many payments.        *)
LEMMA BalanceType == TypeOK => Balance \in Int
<1> SUFFICES ASSUME TypeOK PROVE Balance \in Int
  OBVIOUS
<1> USE PayoutAssumption DEF TypeOK
<1>1. IsFiniteSet(Ops)
  BY FS_Interval DEF Ops
<1>2. IsFiniteSet(Out)
  BY <1>1, FS_Subset DEF Out
<1>3. Cardinality(Out) \in Nat
  BY <1>2, FS_CardinalityType
<1>4. world.spare \in Nat
  BY DEF WorldType
<1> QED BY <1>3, <1>4 DEF Balance

(* Where a step leaves its actor and what it leaves him in memory.         *)
LEMMA GotoType ==
  ASSUME TypeOK, NEW a \in Actors, NEW m \in MemType,
         NEW where \in {"idle", "look", "apply", "redeem", "confirm", "pay",
                        "dispatch", "watch", "close", "finish"},
         GotoWith(a, where, m)
  PROVE  /\ pc' \in [Actors -> {"idle", "look", "apply", "redeem", "confirm", "pay",
                                "dispatch", "watch", "close", "finish"}]
         /\ mem' \in [Actors -> MemType]
<1>1. Blank \in MemType
  BY DEF Blank, NoRecord, Nothing, MemType, RecordType, FoundType
<1> QED BY <1>1 DEF GotoWith, TypeOK

(* The replayed record and the empty log of a fresh claim are well typed.  *)
LEMMA PayoutInitType == Init => TypeOK
BY PayoutAssumption
   DEF Init, TypeOK, Blank, NoRecord, Nothing, MemType, RecordType, FoundType, Ops

(* Every await of the claim and of the sweep hands on values of their kind.*)
LEMMA PayoutNextType == TypeOK /\ [Next]_vars => TypeOK'
<1> SUFFICES ASSUME TypeOK, [Next]_vars PROVE TypeOK'
  OBVIOUS
<1> USE DEF TypeOK
<1>a. "claim" \in Actors /\ "sweep" \in Actors
  BY DEF Actors
<1>m. /\ \A a \in Actors : mem[a] \in MemType
      /\ \A a \in Actors : mem[a].kind \in {"lightning", "onchain"}
      /\ \A a \in Actors : mem[a].told \in FoundType
  BY DEF MemType
<1>b. Blank \in MemType /\ NoRecord \in RecordType
  BY DEF Blank, NoRecord, Nothing, MemType, RecordType, FoundType
<1>r. \A ok \in BOOLEAN : Cleared(ok) \in RecordType
  BY <1>b DEF Cleared
<1>s. \A o \in {0} \cup Ops : WithSubmitted(o) \in RecordType
  BY DEF WithSubmitted, RecordType
<1>g. ASSUME NEW a \in Actors,
             NEW where \in {"idle", "look", "apply", "redeem", "confirm", "pay",
                            "dispatch", "watch", "close", "finish"},
             Goto(a, where)
      PROVE  /\ pc' \in [Actors -> {"idle", "look", "apply", "redeem", "confirm", "pay",
                                    "dispatch", "watch", "close", "finish"}]
             /\ mem' \in [Actors -> MemType]
  BY <1>g, <1>m, GotoType DEF Goto
<1>1. ASSUME NEW k \in {"lightning", "onchain"}, StartClaim(k) PROVE TypeOK'
  <2>1. [Blank EXCEPT !.kind = k, !.prior = PriorRecord(k)] \in MemType
    BY <1>b DEF PriorRecord, MemType
  <2> QED BY <1>1, <1>a, <2>1, GotoType DEF StartClaim, AfterReading, PriorRecord, wallet
<1>2. CASE StartSweep
  <2>1. [Blank EXCEPT !.kind = "lightning", !.prior = record] \in MemType
    BY <1>b DEF MemType
  <2> QED BY <1>2, <1>a, <2>1, GotoType DEF StartSweep, AfterReading, wallet
<1>3. ASSUME NEW a \in Actors, NEW verdict \in Verdicts, Look(a, verdict) PROVE TypeOK'
  <2>1. PICK o \in {0} \cup Ops :
          GotoWith(a, "apply", [mem[a] EXCEPT !.told = [verdict |-> verdict, op |-> o]])
    BY <1>3 DEF Look
  <2>2. [mem[a] EXCEPT !.told = [verdict |-> verdict, op |-> o]] \in MemType
    BY <1>m DEF MemType, FoundType, Verdicts
  <2> QED BY <1>3, <2>1, <2>2, GotoType DEF Look, wallet
<1>4. ASSUME NEW a \in Actors, NEW ok \in BOOLEAN, Apply(a, ok) PROVE TypeOK'
  <2>t. mem[a].told.op \in {0} \cup Ops
    BY <1>m DEF FoundType
  <2>1. CASE ApplySettled(a, ok)
    BY <1>4, <1>g, <2>1, <2>t DEF Apply, ApplySettled, RecordType, wallet
  <2>2. CASE ApplyInflight(a, ok)
    BY <1>4, <1>g, <1>s, <2>2, <2>t DEF Apply, ApplyInflight, wallet
  <2>3. CASE ApplyPayAgain(a, ok)
    <3>1. [Blank EXCEPT !.kind = mem[a].kind] \in MemType
      BY <1>b, <1>m DEF MemType
    <3> QED BY <1>4, <1>r, <2>3, <3>1, GotoType DEF Apply, ApplyPayAgain, wallet
  <2>4. CASE ApplyUnknown(a)
    BY <1>4, <1>g, <2>4 DEF Apply, ApplyUnknown, wallet
  <2> QED BY <1>4, <2>1, <2>2, <2>3, <2>4 DEF Apply
<1>5. CASE RedeemStep
  <2>1. CASE ResumeCovered
    BY <1>a, <1>g, <2>1 DEF ResumeCovered, wallet
  <2>2. CASE Redeem
    <3>1. [mem["claim"] EXCEPT !.base = Balance] \in MemType
      BY <1>a, <1>m, BalanceType DEF MemType
    <3> QED BY <1>a, <2>2, <3>1, GotoType DEF Redeem, CreditedStash, Stashed
  <2>3. CASE RedeemConsumed
    BY <1>a, <1>g, <2>3 DEF RedeemConsumed, Stashed, wallet
  <2>4. CASE RedeemFails
    BY <1>a, <1>g, <2>4 DEF RedeemFails, wallet
  <2>5. CASE Confirm
    <3>1. [mem["claim"] EXCEPT !.base = 0] \in MemType
      BY <1>a, <1>m DEF MemType
    <3> QED BY <1>a, <2>5, <3>1, GotoType DEF Confirm, CreditedStash, wallet
  <2> QED BY <1>5, <2>1, <2>2, <2>3, <2>4, <2>5 DEF RedeemStep
<1>6. CASE PayStep
  <2>p. Paying \in {0} \cup Ops
    BY <1>a, <1>m DEF Paying, MemType
  <2>1. CASE WriteIntent
    BY <1>a, <1>g, <2>1 DEF WriteIntent, WithIntent, RecordType, wallet
  <2>2. CASE CannotWriteIntent
    BY <1>a, <1>g, <2>2 DEF CannotWriteIntent, wallet
  <2>3. CASE Dispatch
    <3>1. PICK o \in Ops :
            /\ op' = [op EXCEPT ![o] = "live"]
            /\ GotoWith("claim", "watch", [mem["claim"] EXCEPT !.paying = o])
      BY <2>3 DEF Dispatch
    <3>2. [mem["claim"] EXCEPT !.paying = o] \in MemType
      BY <1>a, <1>m DEF MemType
    <3> QED BY <1>a, <2>3, <3>1, <3>2, GotoType DEF Dispatch
  <2>4. ASSUME NEW ok \in BOOLEAN, SubmitFails(ok) PROVE TypeOK'
    BY <1>a, <1>g, <1>r, <2>4 DEF SubmitFails, wallet
  <2>5. ASSUME NEW ok \in BOOLEAN, WatchSettles(ok) PROVE TypeOK'
    BY <1>a, <1>g, <2>p, <2>5 DEF WatchSettles, RecordType, wallet
  <2>6. ASSUME NEW ok \in BOOLEAN, WatchRefunds(ok) PROVE TypeOK'
    BY <1>a, <1>g, <1>r, <2>6 DEF WatchRefunds, wallet
  <2>7. ASSUME NEW ok \in BOOLEAN, WatchTimesOut(ok) PROVE TypeOK'
    BY <1>a, <1>g, <1>s, <2>p, <2>7 DEF WatchTimesOut, wallet
  <2>8. CASE PayOnchain
    BY <1>a, <1>g, <2>8 DEF PayOnchain
  <2>9. CASE OnchainFails
    BY <1>a, <1>g, <2>9 DEF OnchainFails, wallet
  <2> QED BY <1>6, <2>1, <2>2, <2>3, <2>4, <2>5, <2>6, <2>7, <2>8, <2>9 DEF PayStep
<1>7. ASSUME NEW a \in Actors, Close(a) PROVE TypeOK'
  BY <1>7, <1>g DEF Close, wallet
<1>8. CASE Finish
  BY <1>8, <1>a, <1>g DEF Finish, wallet
<1>9. CASE NoteLands
  BY <1>9 DEF NoteLands
<1>10. ASSUME NEW o \in Ops, PaymentEnds(o) PROVE TypeOK'
  BY <1>10 DEF PaymentEnds
<1>11. CASE Crash
  BY <1>11, <1>b, PayoutAssumption DEF Crash, wallet
<1>12. CASE UNCHANGED vars
  BY <1>12 DEF vars
<1> QED
  BY <1>a, <1>1, <1>2, <1>3, <1>4, <1>5, <1>6, <1>7, <1>8, <1>9, <1>10, <1>11, <1>12
     DEF Next, ClaimStep, SweepStep, Guard

(* The record, the log and the memory of both actors always hold values of *)
(* their declared kinds.                                                   *)
THEOREM PayoutTypeCorrect == Spec => []TypeOK
BY PayoutInitType, PayoutNextType, PTL DEF Spec

-----------------------------------------------------------------------------
(* What is true in every world.                                            *)

(* Only one actor moves in a step of the claim or of the sweep.            *)
LEMMA Moves ==
  ASSUME TypeOK, NEW a \in Actors, NEW where, NEW m, GotoWith(a, where, m)
  PROVE  /\ pc'[a] = where
         /\ mem'[a] = IF where \in {"idle", "close", "finish"} THEN Blank ELSE m
         /\ \A b \in Actors \ {a} : pc'[b] = pc[b] /\ mem'[b] = mem[b]
BY DEF GotoWith, TypeOK

(* A settled payment stays settled, a broadcast one stays broadcast.       *)
LEMMA PaidStays == TypeOK /\ [Next]_vars /\ Paid => Paid'
<1> SUFFICES ASSUME TypeOK, [Next]_vars, Paid PROVE Paid'
  OBVIOUS
<1> USE DEF TypeOK, Paid
<1>1. CASE Dispatch
  <2>1. PICK o \in Ops : /\ \A q \in Ops : op[q] = "unused" <=> q >= o
                         /\ op' = [op EXCEPT ![o] = "live"]
    BY <1>1 DEF Dispatch
  <2>2. op[o] = "unused"
    BY <2>1, PayoutAssumption DEF Ops
  <2>3. onchain' = onchain
    BY <1>1 DEF Dispatch
  <2> QED BY <2>1, <2>2, <2>3
<1>2. CASE PayOnchain
  BY <1>2 DEF PayOnchain
<1>3. ASSUME NEW o \in Ops, PaymentEnds(o) PROVE Paid'
  BY <1>3 DEF PaymentEnds
<1>4. CASE UNCHANGED <<op, onchain>>
  BY <1>4
<1> QED
  BY <1>1, <1>2, <1>3, <1>4
     DEF Next, StartClaim, StartSweep, ClaimStep, SweepStep, Guard, Look, Apply,
         RedeemStep, ResumeCovered, Redeem, RedeemConsumed, RedeemFails, Confirm,
         PayStep, WriteIntent, CannotWriteIntent, SubmitFails, WatchSettles,
         WatchRefunds, WatchTimesOut, OnchainFails, Close, Finish, NoteLands, Crash,
         wallet, vars

(* A step that neither publishes nor settles the record, and that leads    *)
(* its actor to no place where he would have to know of a settlement.      *)
LEMMA PlainStep ==
  ASSUME TypeOK, Honest, PublishedMeansPaid, Paid => Paid',
         NEW a \in Actors, NEW where, NEW m, GotoWith(a, where, m),
         where \in {"close", "finish"} => Paid,
         where = "apply" /\ m.told.verdict = "settled" => Paid,
         where = "watch" => a = "claim" /\ m.paying \in Ops,
         record'.status = "settled" => Paid,
         UNCHANGED <<world, trade>>
  PROVE  Honest' /\ PublishedMeansPaid'
<1>1. /\ pc'[a] = where
      /\ mem'[a] = IF where \in {"idle", "close", "finish"} THEN Blank ELSE m
      /\ \A b \in Actors \ {a} : pc'[b] = pc[b] /\ mem'[b] = mem[b]
  BY Moves
<1>2. "claim" \in Actors
  BY DEF Actors
<1>3. \A b \in Actors :
        /\ pc'[b] \in {"close", "finish"} => Paid'
        /\ (pc'[b] = "apply" /\ mem'[b].told.verdict = "settled") => Paid'
  BY <1>1 DEF Honest
<1>4. pc'["claim"] = "watch" => Paying' \in Ops
  BY <1>1, <1>2 DEF Honest, Paying
<1>5. Honest'
  BY <1>3, <1>4 DEF Honest
<1>6. PublishedMeansPaid'
  BY DEF PublishedMeansPaid
<1> QED BY <1>5, <1>6

(* A refused or failed write, a clear and a downgrade leave no settled     *)
(* record that was not settled before.                                     *)
LEMMA WritesAreHonest ==
  /\ \A ok : Cleared(ok).status = "settled" => record.status = "settled"
  /\ \A o : WithSubmitted(o).status = "settled" => record.status = "settled"
  /\ WithIntent.status = "settled" => record.status = "settled"
BY DEF Cleared, WithSubmitted, WithIntent, NoRecord

(* Every step of every actor keeps what is published and what is recorded  *)
(* as settled true.                                                        *)
LEMMA HonestNext ==
  TypeOK /\ Honest /\ PublishedMeansPaid /\ [Next]_vars => Honest' /\ PublishedMeansPaid'
<1> SUFFICES ASSUME TypeOK, Honest, PublishedMeansPaid, [Next]_vars
             PROVE  Honest' /\ PublishedMeansPaid'
  OBVIOUS
<1>p. Paid => Paid'
  BY PaidStays
<1>a. "claim" \in Actors /\ "sweep" \in Actors
  BY DEF Actors
<1>s. record.status = "settled" => Paid
  BY DEF Honest
<1>1. ASSUME NEW k \in {"lightning", "onchain"}, StartClaim(k)
      PROVE  Honest' /\ PublishedMeansPaid'
  BY <1>1, <1>p, <1>a, <1>s, PlainStep DEF StartClaim, AfterReading, PriorRecord
<1>2. CASE StartSweep
  BY <1>2, <1>p, <1>a, <1>s, PlainStep DEF StartSweep, AfterReading
<1>3. ASSUME NEW a \in Actors, NEW verdict \in Verdicts, Look(a, verdict)
      PROVE  Honest' /\ PublishedMeansPaid'
  <2>1. PICK o \in {0} \cup Ops :
          /\ IF mem[a].prior.op = 0 THEN ScanFinds(verdict, o)
             ELSE o = mem[a].prior.op /\ AwaitFinds(verdict, o)
          /\ GotoWith(a, "apply", [mem[a] EXCEPT !.told = [verdict |-> verdict, op |-> o]])
    BY <1>3 DEF Look
  <2>2. mem[a] \in MemType /\ mem[a].prior.op \in {0} \cup Ops
    BY DEF TypeOK, MemType, RecordType
  <2>3. verdict = "settled" => Paid
    <3>1. CASE mem[a].prior.op = 0 /\ verdict = "settled"
      BY <2>1, <3>1 DEF ScanFinds, ScanSays, Paid, Stamped
    <3>2. CASE mem[a].prior.op # 0 /\ verdict = "settled"
      BY <2>1, <2>2, <3>2 DEF AwaitFinds, Paid
    <3> QED BY <3>1, <3>2
  <2> DEFINE m == [mem[a] EXCEPT !.told = [verdict |-> verdict, op |-> o]]
  <2>4. m.told.verdict = verdict
    BY <2>2 DEF MemType
  <2>5. GotoWith(a, "apply", m) /\ UNCHANGED <<world, trade, record>>
    BY <1>3, <2>1 DEF Look
  <2> HIDE DEF m
  <2> QED BY <1>p, <1>s, <2>3, <2>4, <2>5, PlainStep
<1>4. ASSUME NEW a \in Actors, NEW ok \in BOOLEAN, Apply(a, ok)
      PROVE  Honest' /\ PublishedMeansPaid'
  <2>0. UNCHANGED <<world, trade>> /\ pc[a] = "apply"
    BY <1>4 DEF Apply
  <2>1. CASE ApplySettled(a, ok)
    <3>1. Paid
      BY <2>0, <2>1 DEF ApplySettled, Honest
    <3> QED BY <1>p, <2>0, <2>1, <3>1, PlainStep DEF ApplySettled, Goto
  <2>2. CASE ApplyInflight(a, ok)
    BY <1>p, <1>s, <2>0, <2>2, WritesAreHonest, PlainStep DEF ApplyInflight, Goto
  <2>3. CASE ApplyPayAgain(a, ok)
    BY <1>p, <1>s, <2>0, <2>3, WritesAreHonest, PlainStep DEF ApplyPayAgain
  <2>4. CASE ApplyUnknown(a)
    BY <1>p, <1>s, <2>0, <2>4, PlainStep DEF ApplyUnknown, Goto
  <2> QED BY <1>4, <2>1, <2>2, <2>3, <2>4 DEF Apply
<1>5. CASE RedeemStep
  <2>1. CASE ResumeCovered
    BY <1>p, <1>a, <1>s, <2>1, PlainStep DEF ResumeCovered, Goto
  <2>2. CASE Redeem
    BY <1>p, <1>a, <1>s, <2>2, PlainStep DEF Redeem
  <2>3. CASE RedeemConsumed
    BY <1>p, <1>a, <1>s, <2>3, PlainStep DEF RedeemConsumed, Goto
  <2>4. CASE RedeemFails
    BY <1>p, <1>a, <1>s, <2>4, PlainStep DEF RedeemFails, Goto
  <2>5. CASE Confirm
    BY <1>p, <1>a, <1>s, <2>5, PlainStep DEF Confirm
  <2> QED BY <1>5, <2>1, <2>2, <2>3, <2>4, <2>5 DEF RedeemStep
<1>6. CASE PayStep
  <2>1. CASE WriteIntent
    BY <1>p, <1>a, <1>s, <2>1, WritesAreHonest, PlainStep DEF WriteIntent, Goto
  <2>2. CASE CannotWriteIntent
    BY <1>p, <1>a, <1>s, <2>2, PlainStep DEF CannotWriteIntent, Goto
  <2>3. CASE Dispatch
    <3>1. PICK o \in Ops : GotoWith("claim", "watch", [mem["claim"] EXCEPT !.paying = o])
      BY <2>3 DEF Dispatch
    <3> DEFINE m == [mem["claim"] EXCEPT !.paying = o]
    <3>2. m.paying = o
      BY <1>a DEF TypeOK, MemType
    <3>3. GotoWith("claim", "watch", m) /\ UNCHANGED <<world, trade, record>>
      BY <2>3, <3>1 DEF Dispatch
    <3> HIDE DEF m
    <3> QED BY <1>p, <1>a, <1>s, <3>2, <3>3, PlainStep
  <2>4. ASSUME NEW ok \in BOOLEAN, SubmitFails(ok) PROVE Honest' /\ PublishedMeansPaid'
    BY <1>p, <1>a, <1>s, <2>4, WritesAreHonest, PlainStep DEF SubmitFails, Goto
  <2>5. ASSUME NEW ok \in BOOLEAN, WatchSettles(ok) PROVE Honest' /\ PublishedMeansPaid'
    <3>1. Paid
      BY <2>5 DEF WatchSettles, Honest, Paid
    <3> QED BY <1>p, <1>a, <2>5, <3>1, PlainStep DEF WatchSettles, Goto
  <2>6. ASSUME NEW ok \in BOOLEAN, WatchRefunds(ok) PROVE Honest' /\ PublishedMeansPaid'
    BY <1>p, <1>a, <1>s, <2>6, WritesAreHonest, PlainStep DEF WatchRefunds, Goto
  <2>7. ASSUME NEW ok \in BOOLEAN, WatchTimesOut(ok) PROVE Honest' /\ PublishedMeansPaid'
    BY <1>p, <1>a, <1>s, <2>7, WritesAreHonest, PlainStep DEF WatchTimesOut, Goto
  <2>8. CASE PayOnchain
    \* The broadcast is what makes it true.
    <3>1. Paid'
      BY <2>8 DEF PayOnchain, Paid, TypeOK
    <3>2. /\ pc'["claim"] = "close"
          /\ \A b \in Actors \ {"claim"} : pc'[b] = pc[b] /\ mem'[b] = mem[b]
      BY <1>a, <2>8, Moves DEF PayOnchain, Goto
    <3> QED BY <2>8, <3>1, <3>2 DEF PayOnchain, Honest, PublishedMeansPaid
  <2>9. CASE OnchainFails
    BY <1>p, <1>a, <1>s, <2>9, PlainStep DEF OnchainFails, Goto
  <2> QED BY <1>6, <2>1, <2>2, <2>3, <2>4, <2>5, <2>6, <2>7, <2>8, <2>9 DEF PayStep
<1>7. ASSUME NEW a \in Actors, Close(a) PROVE Honest' /\ PublishedMeansPaid'
  <2>1. Paid
    BY <1>7 DEF Close, Honest
  <2>2. /\ pc'[a] \in {"finish", "idle"}
        /\ \A b \in Actors \ {a} : pc'[b] = pc[b] /\ mem'[b] = mem[b]
    BY <1>7, Moves DEF Close, Goto
  <2>3. pc'["claim"] = "watch" => (pc["claim"] = "watch" /\ Paying' = Paying)
    BY <1>a, <2>2 DEF Paying
  <2> QED BY <1>7, <1>p, <2>1, <2>3 DEF Close, Honest, PublishedMeansPaid
<1>8. CASE Finish
  <2>1. pc["claim"] = "finish"
    BY <1>8 DEF Finish
  <2> QED BY <1>8, <1>p, <1>a, <1>s, PlainStep DEF Finish, Goto
<1>9. CASE UNCHANGED <<world, trade, record, pc, mem>>
  BY <1>9, <1>p DEF Honest, PublishedMeansPaid, Paying
<1>10. CASE Crash
  <2>1. \A b \in Actors : pc'[b] = "idle"
    BY <1>10 DEF Crash
  <2> QED BY <1>10, <1>p, <1>a, <2>1 DEF Crash, Honest, PublishedMeansPaid
<1> QED
  BY <1>a, <1>1, <1>2, <1>3, <1>4, <1>5, <1>6, <1>7, <1>8, <1>9, <1>10
     DEF Next, ClaimStep, SweepStep, Guard, NoteLands, PaymentEnds, vars

(* CLAIM and COMPLETE are published after a payment that settled, whatever *)
(* crashes, retries and overlapping sweeps the page sees.                  *)
THEOREM PublishedOnlyWhenPaid == Spec => []PublishedMeansPaid
<1>1. Init => Honest /\ PublishedMeansPaid
  BY PayoutAssumption
     DEF Init, Honest, PublishedMeansPaid, NoRecord, Actors, WorldType
<1>2. TypeOK /\ Honest /\ PublishedMeansPaid /\ [Next]_vars
        => (Honest /\ PublishedMeansPaid)'
  BY HonestNext
<1> QED BY <1>1, <1>2, PayoutTypeCorrect, PTL DEF Spec

-----------------------------------------------------------------------------
(* What is true in a guarded world.                                        *)

(* An actor that ends his run, or is left to publish, owes nothing but a   *)
(* record that covers what is out.                                         *)
LEMMA Retires ==
  ASSUME TypeOK, Careful, NEW a \in Actors, NEW where \in {"idle", "close", "finish"}, NEW m,
         pc[a] # "idle", GotoWith(a, where, m),
         a = "sweep" => where # "finish",
         world.legacy => where = "idle" /\ record' = record,
         op' = op, world' = world, RecordCovers'
  PROVE  Careful'
<1>1. /\ pc'[a] = where /\ mem'[a] = Blank
      /\ \A b \in Actors \ {a} : pc'[b] = pc[b] /\ mem'[b] = mem[b]
  BY Moves
<1>2. \A b \in Actors \ {a} : pc'[b] = "idle"
  BY <1>1 DEF Careful, OneAtATime, Actors
<1>3. "claim" \in Actors /\ "sweep" \in Actors
  BY DEF Actors
<1>4. OneAtATime'
  BY <1>1, <1>2, <1>3 DEF OneAtATime, Actors
<1>5. ClaimAlone' /\ GuardInformed'
  BY <1>1, <1>2, <1>3 DEF ClaimAlone, GuardInformed
<1>6. OldRecordStays'
  <2> SUFFICES ASSUME world.legacy PROVE OldRecordStays'
    BY DEF OldRecordStays
  <2>1. Blank.told.verdict = "unknown"
    BY DEF Blank, Nothing
  <2> QED BY <1>1, <1>2, <2>1 DEF Careful, OldRecordStays
<1>7. \A o, q \in Out' : o = q
  BY DEF Careful, Out
<1> QED BY <1>4, <1>5, <1>6, <1>7 DEF Careful

(* A claim may redeem and prepare to pay when nothing is out and the       *)
(* journal holds nothing.                                                  *)
LEMMA ClaimGoesOn ==
  ASSUME TypeOK, Careful, NEW where \in {"redeem", "confirm", "pay"}, NEW m,
         GotoWith("claim", where, m), pc["sweep"] = "idle",
         ~world.legacy, Out = {}, record' = NoRecord, op' = op, world' = world
  PROVE  Careful'
<1>1. /\ pc'["claim"] = where /\ pc'["sweep"] = "idle"
      /\ Out' = {} /\ record'.status = "none" /\ record'.op = 0
  BY Moves DEF Actors, Out, NoRecord
<1>2. OneAtATime' /\ RecordCovers' /\ ClaimAlone'
  BY <1>1 DEF OneAtATime, RecordCovers, ClaimAlone
<1>3. GuardInformed' /\ OldRecordStays'
  BY <1>1 DEF GuardInformed, OldRecordStays, Actors
<1> QED BY <1>1, <1>2, <1>3 DEF Careful

(* The guard reads the record once and acts on what it read.               *)
LEMMA ReadingIsCareful ==
  ASSUME TypeOK, Careful, Guarded, NEW a \in Actors, NEW k,
         MayStart(a), AfterReading(a, record, k),
         a = "sweep" => record # NoRecord,
         UNCHANGED <<world, op, record>>
  PROVE  Careful'
<1>1. \A b \in Actors : pc[b] = "idle"
  BY DEF Guarded, MayStart
<1>2. Out' = Out
  BY DEF Out
<1> DEFINE m == [Blank EXCEPT !.kind = k, !.prior = record]
<1>3. m.prior = record /\ m.told.verdict = "unknown"
  BY DEF Blank, Nothing
<1>4. PICK where : /\ GotoWith(a, where, m)
                   /\ where = CASE record.status = "settled" -> "close"
                                [] record.status = "none"    -> "redeem"
                                [] OTHER                     -> "look"
  BY DEF AfterReading
<1> HIDE DEF m
<1>5. /\ pc'[a] = where
      /\ mem'[a] = IF where \in {"idle", "close", "finish"} THEN Blank ELSE m
      /\ \A b \in Actors \ {a} : pc'[b] = "idle" /\ mem'[b] = mem[b]
  BY <1>1, <1>4, Moves
<1>6. record.status \in {"none", "intent", "submitted", "settled"}
  BY DEF TypeOK, RecordType
<1>7. \/ where = "close" /\ record.status = "settled"
      \/ where = "redeem" /\ record.status = "none"
      \/ where = "look" /\ record.status \in {"intent", "submitted"}
  BY <1>4, <1>6
\* A sweep never starts on an empty journal.
<1>8. a = "sweep" => where # "redeem"
  <2>1. record.status = "none" => record.op = 0
    BY DEF Careful, RecordCovers
  <2>2. record = [status |-> record.status, op |-> record.op]
    BY DEF TypeOK, RecordType
  <2> QED BY <1>7, <2>1, <2>2 DEF NoRecord
<1>9. OneAtATime' /\ RecordCovers'
  <2>1. OneAtATime'
    BY <1>5, <1>7, <1>8 DEF OneAtATime, Actors
  <2>2. RecordCovers'
    BY <1>2 DEF Careful, RecordCovers
  <2> QED BY <2>1, <2>2
<1>10. ClaimAlone'
  <2>1. where = "redeem" => Out = {}
    BY <1>7 DEF Careful, RecordCovers
  <2>2. pc'["claim"] \in {"idle", where}
    BY <1>5 DEF Actors
  <2> QED BY <1>2, <1>7, <2>1, <2>2 DEF ClaimAlone
<1>11. GuardInformed'
  BY <1>3, <1>5, <1>7 DEF GuardInformed
<1>12. OldRecordStays'
  <2>1. Blank.told.verdict = "unknown"
    BY DEF Blank, Nothing
  <2> QED BY <1>3, <1>5, <1>7, <2>1 DEF Careful, OldRecordStays
<1> QED BY <1>2, <1>9, <1>10, <1>11, <1>12 DEF Careful

(* In a guarded world a log that answers tells the truth: the scan has     *)
(* seen every payment, and only a payment that came back is known as       *)
(* refunded.                                                               *)
LEMMA ScanIsTrue ==
  ASSUME TypeOK, Guarded, \A p, q \in Out : p = q,
         NEW verdict, NEW o, ScanFinds(verdict, o)
  PROVE  /\ verdict \in {"settled", "refunded", "inflight"} => o \in Stamped
         /\ verdict = "refunded" => Out \cap Stamped = {}
         /\ verdict = "none" => Stamped = {}
         /\ verdict = "inflight" => Out \cap Stamped = {o}
<1>1. PICK seen \in SUBSET Stamped :
        \E known \in SUBSET seen : Complete(seen, known) /\ ScanSays(verdict, o, seen, known)
  BY DEF ScanFinds, Guarded
<1>k. PICK known \in SUBSET seen : Complete(seen, known) /\ ScanSays(verdict, o, seen, known)
  BY <1>1
<1> DEFINE settled == {q \in known : op[q] = "settled"}
           open    == {q \in seen : q \notin known \/ op[q] = "live"}
<1>2. /\ seen = Stamped
      /\ \/ verdict = "settled" /\ o \in settled
         \/ verdict = "inflight" /\ settled = {} /\ o \in open
         \/ verdict = "refunded" /\ settled = {} /\ open = {} /\ o \in seen
         \/ verdict = "none" /\ Stamped = {}
         \/ verdict = "unknown"
  BY <1>k DEF Complete, ScanSays
<1>3. Out \cap Stamped = settled \cup open
  <2>1. \A q \in Stamped : op[q] \in {"live", "settled", "refunded"}
    BY DEF Stamped, TypeOK
  <2>2. \A q \in Stamped : q \notin known => op[q] # "refunded"
    BY <1>k DEF Complete
  <2>3. \A q \in Stamped : q \in Out <=> q \in settled \cup open
    BY <1>k, <1>2, <2>1, <2>2 DEF Out, Stamped
  <2> QED BY <1>k, <1>2, <2>3
<1>4. settled \subseteq Stamped /\ open \subseteq Stamped
  BY <1>k
<1> HIDE DEF settled, open
<1>5. verdict = "inflight" => Out \cap Stamped = {o}
  BY <1>2, <1>3
<1> QED BY <1>2, <1>3, <1>4, <1>5

(* A look keeps what was read and adds only what is true of the payments.  *)
LEMMA LookIsCareful ==
  ASSUME TypeOK, Careful, Guarded, NEW a \in Actors, NEW verdict \in Verdicts, Look(a, verdict)
  PROVE  Careful'
<1>1. PICK o \in {0} \cup Ops :
        /\ IF mem[a].prior.op = 0 THEN ScanFinds(verdict, o)
           ELSE o = mem[a].prior.op /\ AwaitFinds(verdict, o)
        /\ GotoWith(a, "apply", [mem[a] EXCEPT !.told = [verdict |-> verdict, op |-> o]])
  BY DEF Look
<1>2. /\ pc[a] = "look" /\ mem[a].prior = record
      /\ record.status \in {"intent", "submitted"}
      /\ world' = world /\ record' = record /\ op' = op /\ Out' = Out
  BY DEF Look, wallet, Out, Careful, GuardInformed
<1>3. \A b \in Actors \ {a} : pc[b] = "idle"
  BY <1>2 DEF Careful, OneAtATime, Actors
<1> DEFINE m == [mem[a] EXCEPT !.told = [verdict |-> verdict, op |-> o]]
<1>4. m.prior = record /\ m.told.verdict = verdict /\ m.told.op = o
  BY <1>2 DEF TypeOK, MemType
<1>5. GotoWith(a, "apply", m)
  BY <1>1
<1> HIDE DEF m
<1>6. /\ pc'[a] = "apply" /\ mem'[a] = m
      /\ \A b \in Actors \ {a} : pc'[b] = "idle" /\ mem'[b] = mem[b]
  BY <1>3, <1>5, Moves
<1>7. \A p, q \in Out : p = q
  BY DEF Careful
<1>8. OneAtATime' /\ RecordCovers' /\ ClaimAlone'
  <2>1. OneAtATime'
    BY <1>6 DEF OneAtATime, Actors
  <2>2. RecordCovers'
    BY <1>2 DEF Careful, RecordCovers
  <2>3. ClaimAlone'
    BY <1>6 DEF ClaimAlone, Actors
  <2> QED BY <2>1, <2>2, <2>3
<1>9. /\ verdict = "refunded" => Out = {}
      /\ (verdict = "none" /\ record.status = "intent") => Out = {}
      /\ verdict = "inflight" => o \in Ops /\ Out \subseteq {o} /\ op[o] # "unused"
  <2>1. CASE record.op = 0 /\ ~world.legacy
    <3>1. Stamped = {q \in Ops : op[q] # "unused"}
      BY <2>1 DEF Stamped
    <3>2. Out \subseteq Stamped
      BY <3>1 DEF Out
    <3>3. ScanFinds(verdict, o)
      BY <1>1, <1>2, <2>1
    <3>4. /\ verdict \in {"settled", "refunded", "inflight"} => o \in Stamped
          /\ verdict = "refunded" => Out \cap Stamped = {}
          /\ verdict = "none" => Stamped = {}
          /\ verdict = "inflight" => Out \cap Stamped = {o}
      BY <1>7, <3>3, ScanIsTrue
    <3> QED BY <3>1, <3>2, <3>4
  <2>2. CASE world.legacy
    <3>1. Stamped = {}
      BY <2>2 DEF Stamped, Careful, OldRecordStays
    <3>2. record.op = 0 /\ record.status = "submitted"
      BY <2>2 DEF Careful, OldRecordStays
    <3>3. verdict \notin {"refunded", "inflight"}
      BY <1>1, <1>2, <1>7, <3>1, <3>2, ScanIsTrue
    <3> QED BY <3>2, <3>3
  <2>3. CASE record.op # 0
    <3>1. o = record.op /\ AwaitFinds(verdict, o)
      BY <1>1, <1>2, <2>3
    <3>2. Out \subseteq {o}
      BY <1>2, <2>3, <3>1 DEF Careful, RecordCovers
    <3>3. verdict \in {"settled", "refunded", "unknown"}
      BY <3>1 DEF AwaitFinds
    <3>4. verdict = "refunded" => o \notin Out
      BY <3>1 DEF AwaitFinds, Out
    <3> QED BY <3>2, <3>3, <3>4
  <2> QED BY <2>1, <2>2, <2>3
<1>10. GuardInformed'
  BY <1>2, <1>4, <1>6, <1>9 DEF GuardInformed
<1>11. OldRecordStays'
  <2> SUFFICES ASSUME world.legacy PROVE OldRecordStays'
    BY <1>2 DEF OldRecordStays
  <2>1. Stamped = {}
    BY DEF Stamped, Careful, OldRecordStays
  <2>2. ScanFinds(verdict, o)
    BY <1>1, <1>2 DEF Careful, OldRecordStays
  <2>3. verdict \in {"none", "unknown"}
    BY <1>7, <2>1, <2>2, ScanIsTrue DEF Verdicts
  <2> QED BY <1>2, <1>4, <1>6, <2>3 DEF Careful, OldRecordStays
<1> QED BY <1>2, <1>7, <1>8, <1>10, <1>11 DEF Careful

(* Acting on the answer: a record is cleared only when nothing is out.     *)
LEMMA ApplyIsCareful ==
  ASSUME TypeOK, Careful, Guarded, NEW a \in Actors, NEW ok \in BOOLEAN, Apply(a, ok)
  PROVE  Careful'
<1>1. /\ pc[a] = "apply" /\ mem[a].prior = record
      /\ record.status \in {"intent", "submitted"}
      /\ world' = world /\ op' = op /\ Out' = Out
  BY DEF Apply, wallet, Out, Careful, GuardInformed
<1>2. CASE ApplySettled(a, ok)
  <2>1. PICK where \in {"idle", "close"} : GotoWith(a, where, mem[a])
    BY <1>2 DEF ApplySettled, Goto
  <2>2. ~world.legacy
    BY <1>1, <1>2 DEF ApplySettled, Careful, OldRecordStays
  <2>3. RecordCovers'
    <3>1. CASE record' = record
      BY <1>1, <3>1 DEF Careful, RecordCovers
    <3>2. CASE record' = [status |-> "settled", op |-> mem[a].told.op]
      BY <3>2 DEF RecordCovers
    <3> QED BY <1>2, <3>1, <3>2 DEF ApplySettled
  <2> QED BY <1>1, <2>1, <2>2, <2>3, Retires
<1>3. CASE ApplyInflight(a, ok)
  <2>1. GotoWith(a, "idle", mem[a])
    BY <1>3 DEF ApplyInflight, Goto
  <2>2. ~world.legacy
    BY <1>1, <1>3 DEF ApplyInflight, Careful, OldRecordStays
  <2>3. /\ mem[a].told.op \in Ops
        /\ Out \subseteq {mem[a].told.op} /\ op[mem[a].told.op] # "unused"
    BY <1>1, <1>3 DEF ApplyInflight, Careful, GuardInformed
  <2>4. RecordCovers'
    <3>1. CASE record' = record
      BY <1>1, <3>1 DEF Careful, RecordCovers
    <3>2. CASE record' = [status |-> "submitted", op |-> mem[a].told.op]
      BY <1>1, <2>3, <3>2 DEF RecordCovers
    <3> QED BY <1>1, <1>3, <3>1, <3>2 DEF ApplyInflight, WithSubmitted
  <2> QED BY <1>1, <2>1, <2>2, <2>4, Retires
<1>4. CASE ApplyPayAgain(a, ok)
  <2>1. Out = {} /\ ~world.legacy
    BY <1>1, <1>4 DEF ApplyPayAgain, MayPayAgain, TrustNone, Careful, GuardInformed,
                      OldRecordStays
  <2>2. record' = NoRecord
    BY <1>4 DEF ApplyPayAgain, Cleared, Guarded
  <2>3. CASE a = "claim"
    <3>1. GotoWith("claim", "redeem", [Blank EXCEPT !.kind = mem["claim"].kind])
      BY <1>4, <2>3 DEF ApplyPayAgain
    <3>2. pc["sweep"] = "idle"
      BY <1>1, <2>3 DEF Careful, OneAtATime
    <3> QED BY <1>1, <2>1, <2>2, <3>1, <3>2, ClaimGoesOn
  <2>4. CASE a = "sweep"
    <3>1. GotoWith(a, "idle", [Blank EXCEPT !.kind = mem[a].kind])
      BY <1>4, <2>4 DEF ApplyPayAgain
    <3>2. RecordCovers'
      BY <1>1, <2>1, <2>2 DEF RecordCovers, NoRecord
    <3> QED BY <1>1, <2>1, <3>1, <3>2, Retires
  <2> QED BY <2>3, <2>4 DEF Actors
<1>5. CASE ApplyUnknown(a)
  <2>1. GotoWith(a, "idle", mem[a]) /\ record' = record
    BY <1>5 DEF ApplyUnknown, Goto
  <2>2. RecordCovers'
    BY <1>1, <2>1 DEF Careful, RecordCovers
  <2> QED BY <1>1, <2>1, <2>2, Retires
<1> QED BY <1>2, <1>3, <1>4, <1>5 DEF Apply

(* Redeeming touches neither the journal nor what is out.                  *)
LEMMA RedeemIsCareful ==
  ASSUME TypeOK, Careful, RedeemStep PROVE Careful'
<1>1. /\ pc["claim"] \in {"redeem", "confirm"}
      /\ world' = world /\ record' = record /\ op' = op
  BY DEF RedeemStep, ResumeCovered, Redeem, RedeemConsumed, RedeemFails, Confirm, wallet
<1>2. pc["sweep"] = "idle" /\ Out = {} /\ record.status = "none" /\ ~world.legacy
  BY <1>1 DEF Careful, OneAtATime, ClaimAlone, OldRecordStays, Actors
<1>3. record' = NoRecord
  <2>1. record = [status |-> record.status, op |-> record.op]
    BY DEF TypeOK, RecordType
  <2> QED BY <1>1, <1>2, <2>1 DEF Careful, RecordCovers, NoRecord
<1>4. RecordCovers'
  BY <1>1 DEF Careful, RecordCovers, Out
<1>5. PICK where, m : /\ where \in {"idle", "confirm", "pay"}
                      /\ GotoWith("claim", where, m)
  BY DEF RedeemStep, ResumeCovered, Redeem, RedeemConsumed, RedeemFails, Confirm, Goto
<1>6. CASE where = "idle"
  BY <1>1, <1>2, <1>4, <1>5, <1>6, Retires DEF Actors
<1>7. CASE where # "idle"
  BY <1>1, <1>2, <1>3, <1>5, <1>7, ClaimGoesOn
<1> QED BY <1>6, <1>7

(* Paying: the intent stands before anything is sent, the record of what   *)
(* was sent stands until it came back.                                     *)
LEMMA PayIsCareful ==
  ASSUME TypeOK, Careful, Guarded, PayStep PROVE Careful'
<1>0. "claim" \in Actors
  BY DEF Actors
<1>1. /\ pc["claim"] \in {"pay", "dispatch", "watch"}
      /\ world' = world
  BY DEF PayStep, WriteIntent, CannotWriteIntent, Dispatch, SubmitFails, WatchSettles,
         WatchRefunds, WatchTimesOut, PayOnchain, OnchainFails
<1>2. pc["sweep"] = "idle" /\ ~world.legacy
  BY <1>1 DEF Careful, OneAtATime, OldRecordStays, Actors
\* Whatever ends here leaves a record that covers what is out.
<1>3. ASSUME NEW where \in {"idle", "close"}, Goto("claim", where), op' = op, RecordCovers'
      PROVE  Careful'
  BY <1>0, <1>1, <1>2, <1>3, Retires DEF Goto
<1>4. ASSUME record' = record, op' = op PROVE RecordCovers'
  BY <1>4 DEF Careful, RecordCovers, Out
<1>5. ASSUME NEW ok \in BOOLEAN, Out = {}, record' = Cleared(ok), op' = op PROVE RecordCovers'
  <2>1. record' = NoRecord /\ Out' = {}
    BY <1>5 DEF Cleared, Guarded, Out
  <2> QED BY <2>1 DEF RecordCovers, NoRecord
<1>6. CASE WriteIntent
  <2>1. /\ pc["claim"] = "pay" /\ record.status = "none" /\ Out = {} /\ op' = op
    BY <1>6 DEF WriteIntent, wallet, Careful, ClaimAlone
  <2>2. record' = [status |-> "intent", op |-> 0] /\ Out' = {}
    BY <1>6, <2>1 DEF WriteIntent, WithIntent, Out
  <2>3. pc'["claim"] = "dispatch" /\ pc'["sweep"] = "idle"
    BY <1>0, <1>2, <1>6, Moves DEF WriteIntent, Goto, Actors
  <2>4. OneAtATime' /\ RecordCovers' /\ ClaimAlone'
    BY <2>2, <2>3 DEF OneAtATime, RecordCovers, ClaimAlone
  <2>5. GuardInformed' /\ OldRecordStays'
    BY <1>1, <1>2, <2>3 DEF GuardInformed, OldRecordStays, Actors
  <2> QED BY <2>2, <2>4, <2>5 DEF Careful
<1>7. CASE CannotWriteIntent
  BY <1>3, <1>4, <1>7 DEF CannotWriteIntent, wallet
<1>8. CASE Dispatch
  <2>1. pc["claim"] = "dispatch" /\ record.status = "intent" /\ Out = {} /\ record' = record
    BY <1>8 DEF Dispatch, Careful, ClaimAlone
  <2>2. PICK o \in Ops :
          /\ op' = [op EXCEPT ![o] = "live"]
          /\ GotoWith("claim", "watch", [mem["claim"] EXCEPT !.paying = o])
    BY <1>8 DEF Dispatch
  <2>3. Out' = {o} /\ op'[o] # "unused"
    BY <2>1, <2>2 DEF Out, TypeOK
  <2> DEFINE m == [mem["claim"] EXCEPT !.paying = o]
  <2>4. m.paying = o /\ GotoWith("claim", "watch", m)
    BY <1>0, <2>2 DEF TypeOK, MemType
  <2> HIDE DEF m
  <2>5. pc'["claim"] = "watch" /\ pc'["sweep"] = "idle" /\ Paying' = o
    <3>1. pc'["claim"] = "watch" /\ mem'["claim"] = m
      BY <1>0, <2>4, Moves
    <3>2. pc'["sweep"] = "idle"
      BY <1>0, <1>2, <2>4, Moves DEF Actors
    <3> QED BY <2>4, <3>1, <3>2 DEF Paying
  <2>6. OneAtATime' /\ RecordCovers' /\ ClaimAlone'
    BY <2>1, <2>3, <2>5 DEF Careful, OneAtATime, RecordCovers, ClaimAlone
  <2>7. GuardInformed' /\ OldRecordStays'
    BY <1>1, <1>2, <2>5 DEF GuardInformed, OldRecordStays, Actors
  <2> QED BY <2>3, <2>6, <2>7 DEF Careful
<1>9. ASSUME NEW ok \in BOOLEAN, SubmitFails(ok) PROVE Careful'
  <2>1. Out = {}
    BY <1>9 DEF SubmitFails, Careful, ClaimAlone
  <2> QED BY <1>3, <1>5, <1>9, <2>1 DEF SubmitFails, wallet
<1>10. ASSUME NEW ok \in BOOLEAN, WatchSettles(ok) PROVE Careful'
  <2>1. CASE ok
    <3>1. RecordCovers'
      BY <1>10, <2>1 DEF WatchSettles, RecordCovers
    <3> QED BY <1>3, <1>10, <2>1, <3>1 DEF WatchSettles, wallet
  <2>2. CASE ~ok
    BY <1>3, <1>4, <1>10, <2>2 DEF WatchSettles, wallet
  <2> QED BY <2>1, <2>2
<1>11. ASSUME NEW ok \in BOOLEAN, WatchRefunds(ok) PROVE Careful'
  <2>1. Out = {}
    BY <1>11 DEF WatchRefunds, Careful, ClaimAlone, Out
  <2> QED BY <1>3, <1>5, <1>11, <2>1 DEF WatchRefunds, wallet
<1>12. ASSUME NEW ok \in BOOLEAN, WatchTimesOut(ok) PROVE Careful'
  <2>1. /\ record.status = "intent" /\ Paying \in Ops
        /\ Out \subseteq {Paying} /\ op[Paying] # "unused"
    BY <1>12 DEF WatchTimesOut, Careful, ClaimAlone
  <2>2. op' = op /\ Out' = Out
    BY <1>12 DEF WatchTimesOut, wallet, Out
  <2>3. CASE ok
    <3>1. record' = [status |-> "submitted", op |-> Paying]
      BY <1>12, <2>1, <2>3 DEF WatchTimesOut, WithSubmitted
    <3>2. RecordCovers'
      BY <2>1, <2>2, <3>1 DEF RecordCovers
    <3> QED BY <1>3, <1>12, <2>2, <3>2 DEF WatchTimesOut
  <2>4. CASE ~ok
    BY <1>3, <1>4, <1>12, <2>2, <2>4 DEF WatchTimesOut
  <2> QED BY <2>3, <2>4
<1>13. CASE PayOnchain
  BY <1>3, <1>4, <1>13 DEF PayOnchain
<1>14. CASE OnchainFails
  BY <1>3, <1>4, <1>14 DEF OnchainFails, wallet
<1> QED
  BY <1>6, <1>7, <1>8, <1>9, <1>10, <1>11, <1>12, <1>13, <1>14 DEF PayStep

(* The federation only takes away from what is out, and a crash only       *)
(* forgets.                                                                *)
LEMMA OutsideIsCareful ==
  ASSUME TypeOK, Careful,
         Crash \/ NoteLands \/ (\E o \in Ops : PaymentEnds(o)) \/ UNCHANGED vars
  PROVE  Careful'
<1>1. /\ world' = world /\ record' = record
      /\ Out' \subseteq Out
      /\ \A o \in Ops : op'[o] = "unused" <=> op[o] = "unused"
  <2>1. CASE op' = op /\ world' = world /\ record' = record
    BY <2>1 DEF Out
  <2>2. ASSUME NEW o \in Ops, PaymentEnds(o)
        PROVE  /\ world' = world /\ record' = record /\ Out' \subseteq Out
               /\ \A q \in Ops : op'[q] = "unused" <=> op[q] = "unused"
    BY <2>2 DEF PaymentEnds, Out, TypeOK
  <2> QED BY <2>1, <2>2 DEF Crash, NoteLands, wallet, vars
<1>2. CASE Crash
  <2>1. \A a \in Actors : pc'[a] = "idle" /\ mem'[a] = Blank
    BY <1>2 DEF Crash
  <2>2. OneAtATime' /\ ClaimAlone' /\ GuardInformed'
    BY <2>1 DEF OneAtATime, ClaimAlone, GuardInformed, Actors
  <2>3. RecordCovers'
    BY <1>1 DEF Careful, RecordCovers, TypeOK, RecordType
  <2>4. OldRecordStays'
    BY <1>1, <2>1 DEF Careful, OldRecordStays, Blank, Nothing
  <2> QED BY <1>1, <2>2, <2>3, <2>4 DEF Careful
<1>3. CASE pc' = pc /\ mem' = mem
  <2>1. OneAtATime' /\ OldRecordStays'
    BY <1>1, <1>3 DEF Careful, OneAtATime, OldRecordStays
  <2>2. RecordCovers'
    BY <1>1 DEF Careful, RecordCovers, TypeOK, RecordType
  <2>3. ClaimAlone'
    BY <1>1, <1>3 DEF Careful, ClaimAlone, Paying
  <2>4. GuardInformed'
    BY <1>1, <1>3 DEF Careful, GuardInformed
  <2> QED BY <1>1, <2>1, <2>2, <2>3, <2>4 DEF Careful
<1> QED BY <1>2, <1>3 DEF NoteLands, PaymentEnds, vars

(* Every step keeps the invariant of the guarded worlds.                   *)
LEMMA CarefulNext == TypeOK /\ Careful /\ Guarded /\ [Next]_vars => Careful'
<1> SUFFICES ASSUME TypeOK, Careful, Guarded, [Next]_vars PROVE Careful'
  OBVIOUS
<1>0. "claim" \in Actors /\ "sweep" \in Actors
  BY DEF Actors
<1>1. ASSUME NEW k \in {"lightning", "onchain"}, StartClaim(k) PROVE Careful'
  BY <1>0, <1>1, ReadingIsCareful DEF StartClaim, PriorRecord, wallet
<1>2. CASE StartSweep
  BY <1>0, <1>2, ReadingIsCareful DEF StartSweep, wallet
<1>3. ASSUME NEW a \in Actors, Guard(a) PROVE Careful'
  BY <1>3, LookIsCareful, ApplyIsCareful DEF Guard
<1>4. ASSUME NEW a \in Actors, Close(a) PROVE Careful'
  <2>1. RecordCovers' /\ ~world.legacy
    BY <1>4 DEF Close, wallet, Careful, RecordCovers, OldRecordStays, Out
  <2>2. PICK where \in {"finish", "idle"} :
          Goto(a, where) /\ (a = "sweep" => where # "finish")
    BY <1>4 DEF Close
  <2> QED BY <1>4, <2>1, <2>2, Retires DEF Close, Goto, wallet
<1>5. CASE Finish
  <2>1. RecordCovers' /\ ~world.legacy
    BY <1>0, <1>5 DEF Finish, wallet, Careful, RecordCovers, OldRecordStays, Out
  <2> QED BY <1>0, <1>5, <2>1, Retires DEF Finish, Goto, wallet
<1> QED
  BY <1>0, <1>1, <1>2, <1>3, <1>4, <1>5, RedeemIsCareful, PayIsCareful, OutsideIsCareful
     DEF Next, ClaimStep, SweepStep

(* The inductive invariant holds in every run of the claim, the sweep and  *)
(* whatever happens around them.                                           *)
THEOREM PayoutInvHolds == Spec => []PInv
<1>1. Init => PInv
  <2> SUFFICES ASSUME Init PROVE PInv
    OBVIOUS
  <2>1. TypeOK
    BY PayoutInitType
  <2>2. Honest /\ PublishedMeansPaid
    BY PayoutAssumption
       DEF Init, Honest, PublishedMeansPaid, NoRecord, Actors, WorldType
  <2>3. \A o \in Ops : op[o] # "unused" => (world.legacy /\ o = 1)
    BY DEF Init
  <2>4. OneAtATime /\ ClaimAlone /\ GuardInformed
    BY DEF Init, OneAtATime, ClaimAlone, GuardInformed, Actors
  <2>5. RecordCovers
    BY <2>3 DEF Init, RecordCovers, NoRecord, Out
  <2>6. OldRecordStays
    BY <2>3 DEF Init, OldRecordStays, Blank, Nothing
  <2>7. \A o, q \in Out : o = q
    BY <2>3 DEF Out
  <2> QED BY <2>1, <2>2, <2>4, <2>5, <2>6, <2>7 DEF PInv, Careful
<1>2. PInv /\ [Next]_vars => PInv'
  <2> SUFFICES ASSUME PInv, [Next]_vars PROVE PInv'
    OBVIOUS
  <2>1. TypeOK' /\ Honest' /\ PublishedMeansPaid'
    BY PayoutNextType, HonestNext DEF PInv
  <2>2. Guarded' => Guarded
    <3>1. world' = world
      BY DEF Next, StartClaim, StartSweep, ClaimStep, SweepStep, Guard, Look, Apply,
             RedeemStep, ResumeCovered, Redeem, RedeemConsumed, RedeemFails, Confirm,
             PayStep, WriteIntent, CannotWriteIntent, Dispatch, SubmitFails, WatchSettles,
             WatchRefunds, WatchTimesOut, PayOnchain, OnchainFails, Close, Finish,
             NoteLands, PaymentEnds, Crash, vars
    <3> QED BY <3>1 DEF Guarded
  <2>3. Guarded' => Careful'
    BY <2>2, CarefulNext DEF PInv
  <2> QED BY <2>1, <2>3 DEF PInv
<1> QED BY <1>1, <1>2, PTL DEF Spec

(* Two Lightning payouts of one escrow are never both live or settled,     *)
(* whatever the gateway answers, the user retries and the page forgets,    *)
(* where a sweep keeps away from a claim, a clear reaches the disk and     *)
(* payOutcomeByEscrow answers only when it has read every payment of the   *)
(* escrow: so much the journal of payout-journal.ts is worth, and each of  *)
(* the three is needed.                                                    *)
THEOREM PaidOnce == Spec => []NeverPaidTwice
<1>1. PInv => NeverPaidTwice
  BY DEF PInv, Careful, NeverPaidTwice
<1> QED BY <1>1, PayoutInvHolds, PTL

(* In the same circumstances an on-chain payout only leaves when no        *)
(* Lightning payout is out: the guard of runClaimAndPayout runs for every  *)
(* destination.                                                            *)
THEOREM OnchainOnlyInstead == Spec => NoOnchainAfterLightning
<1>1. PInv /\ [Next]_vars => [(Guarded /\ onchain' # onchain) => Out = {}]_vars
  <2> SUFFICES ASSUME PInv, Next, Guarded, onchain' # onchain PROVE Out = {}
    BY DEF vars
  <2>1. PayOnchain
    BY DEF Next, StartClaim, StartSweep, ClaimStep, SweepStep, Guard, Look, Apply,
           RedeemStep, ResumeCovered, Redeem, RedeemConsumed, RedeemFails, Confirm,
           PayStep, WriteIntent, CannotWriteIntent, Dispatch, SubmitFails, WatchSettles,
           WatchRefunds, WatchTimesOut, OnchainFails, Close, Finish,
           NoteLands, PaymentEnds, Crash, wallet
  <2> QED BY <2>1 DEF PayOnchain, PInv, Careful, ClaimAlone
<1> QED BY <1>1, PayoutInvHolds, PTL DEF Spec, NoOnchainAfterLightning

-----------------------------------------------------------------------------
(* The reservation.                                                        *)

\* The entry that reserves the credit is there before the note is sent to the
\* mint, so also while the credit is late.
StashedFirst == notes \in {"late", "in"} => (stash # "none" \/ Paid)

(* Only a finished claim, which knows of a payment that settled, drops the *)
(* entry; a redeem that goes late has stashed before.                      *)
LEMMA StashedFirstNext ==
  ASSUME TypeOK, Honest, StashedFirst, [Next]_vars PROVE StashedFirst'
<1>p. Paid => Paid'
  BY PaidStays
<1>1. CASE Redeem
  BY <1>1 DEF Redeem, StashedFirst, CreditedStash, Stashed
<1>2. CASE RedeemConsumed
  BY <1>2 DEF RedeemConsumed, StashedFirst, Stashed
<1>3. CASE Confirm
  BY <1>p, <1>3 DEF Confirm, StashedFirst, CreditedStash, wallet
<1>4. CASE Finish
  BY <1>p, <1>4 DEF Finish, StashedFirst, Honest, Actors
<1>5. CASE NoteLands
  BY <1>p, <1>5 DEF NoteLands, StashedFirst
<1>6. CASE UNCHANGED <<notes, stash>>
  BY <1>p, <1>6 DEF StashedFirst
<1>7. UNCHANGED <<notes, stash>> \/ Redeem \/ RedeemConsumed \/ Confirm \/ Finish \/ NoteLands
  BY DEF Next, StartClaim, StartSweep, ClaimStep, SweepStep, Guard, Look, Apply,
         RedeemStep, ResumeCovered, RedeemFails, PayStep, WriteIntent,
         CannotWriteIntent, Dispatch, SubmitFails, WatchSettles, WatchRefunds,
         WatchTimesOut, PayOnchain, OnchainFails, Close, PaymentEnds, Crash, wallet, vars
<1> QED BY <1>1, <1>2, <1>3, <1>4, <1>5, <1>6, <1>7

(* A note that is in the wallet is reserved until the winner was paid, in  *)
(* every world: whatever the journal, the log and two crossing actors do,  *)
(* claimIntoBrowserWalletSafely stashes first and only the claim that was  *)
(* paid lets the reservation go.                                           *)
THEOREM ReservationStands == Spec => []ReservedUntilPaid
<1>1. Init => StashedFirst
  BY DEF Init, StashedFirst
<1>2. PInv /\ StashedFirst /\ [Next]_vars => StashedFirst'
  BY StashedFirstNext DEF PInv
<1>3. StashedFirst => ReservedUntilPaid
  BY DEF StashedFirst, ReservedUntilPaid
<1> QED BY <1>1, <1>2, <1>3, PayoutInvHolds, PTL DEF Spec

=============================================================================
