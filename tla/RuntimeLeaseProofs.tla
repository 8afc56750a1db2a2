------------------------- MODULE RuntimeLeaseProofs -------------------------
(***************************************************************************)
(* Theorems about RuntimeLease, for any tabs and any constants in the      *)
(* order LeaseAssumption asks for.                                         *)
(***************************************************************************)
EXTENDS RuntimeLease, TLAPS

(* The inductive invariant of undisturbed tabs, by parts.                  *)

\* A worker runs or loads only under the lease.
WorkersHold == \A a \in Tabs : runtime[a] # "none" => Holds(a)

\* A contender whose token is still there wrote it when it began to wait.
ContenderFresh ==
  \A a \in Tabs : (lease[a] = "settle" /\ StillMine(a)) =>
    cookie.age = wait[a] /\ written[a] = Lesser(Heartbeat, wait[a])

\* The cookie is its owner's, and young: one watchdog run behind, or two when
\* a renewal is on its way.
OwnerFresh ==
  \A a \in Tabs :
    /\ lease[a] = "held" =>
         StillMine(a) /\ cookie.age <= Gap + wait[a]
           /\ written[a] = Lesser(Heartbeat, cookie.age)
    /\ lease[a] \in {"beat", "drop"} =>
         StillMine(a) /\ cookie.age <= 2 * Gap + wait[a]

\* Who found the cookie free has no owner beside it, and the contender who
\* wrote meanwhile did so later.
ClaimsFirst ==
  \A b \in Tabs : lease[b] = "claim" =>
    \A a \in Tabs :
      /\ lease[a] \notin {"held", "beat", "drop"}
      /\ (lease[a] = "settle" /\ StillMine(a)) => wait[a] <= wait[b]

\* No deadline was missed.
OnTime ==
  \A a \in Tabs : lease[a] \in {"claim", "beat", "drop"} => wait[a] <= Delay

Orderly == WorkersHold /\ ContenderFresh /\ OwnerFresh /\ ClaimsFirst

LInv == TypeOK /\ OnTime /\ (Undisturbed => Orderly)

-----------------------------------------------------------------------------
(* Type correctness and deadlines.                                         *)

(* The bounds are numbers in the order the assumption gives them.          *)
LEMMA Bounds ==
  /\ NoTab \notin Tabs
  /\ TTL \in Nat /\ Heartbeat \in Nat /\ Settle \in Nat /\ Gap \in Nat
  /\ Delay \in Nat /\ MaxTakeovers \in Nat /\ MaxSweeps \in Nat /\ MaxCrashes \in Nat
  /\ Delay < Settle /\ Settle <= Gap /\ Heartbeat <= Gap
  /\ 2 * Gap + Delay < TTL
  /\ Righting \in Nat
BY LeaseAssumption DEF LeaseAssumption, Righting

(* Nothing has happened yet.                                               *)
LEMMA LeaseInit == Init => LInv
<1> SUFFICES ASSUME Init PROVE LInv
  OBVIOUS
<1>1. TypeOK
  BY Bounds DEF Init, TypeOK, NoCookie
<1>2. OnTime
  BY DEF Init, OnTime
<1>3. Orderly
  BY DEF Init, Orderly, WorkersHold, ContenderFresh, OwnerFresh, ClaimsFirst
<1> QED BY <1>1, <1>2, <1>3 DEF LInv

(* A step of one tab keeps the types and the deadlines.                    *)
LEMMA TabStepType ==
  ASSUME TypeOK, OnTime, NEW a \in Tabs,
         Acquire(a) \/ Watchdog(a) \/ Wallet(a) \/ Crash(a)
  PROVE  TypeOK' /\ OnTime'
<1> USE Bounds DEF TypeOK, OnTime, Goto, WriteLease, NoCookie
<1>1. CASE Ask(a)        BY <1>1 DEF Ask
<1>2. CASE TakeOver(a)   BY <1>2 DEF TakeOver
<1>3. CASE WriteClaim(a) BY <1>3 DEF WriteClaim
<1>4. CASE ReadBack(a)
  <2>1. CASE StillMine(a)  BY <1>4, <2>1 DEF ReadBack
  <2>2. CASE ~StillMine(a) BY <1>4, <2>2 DEF ReadBack
  <2> QED BY <2>1, <2>2
<1>5. CASE StandDown(a)  BY <1>5 DEF StandDown
<1>6. CASE Watch(a)
  <2> DEFINE where == IF written[a] >= Heartbeat \/ cookie.by = NoTab THEN "beat" ELSE "held"
  <2>1. where \in {"beat", "held"}
    OBVIOUS
  <2>2. Goto(a, where) /\ UNCHANGED <<cookie, written, runtime, calm, takeovers, sweeps, crashes>>
    BY <1>6 DEF Watch
  <2> HIDE DEF where
  <2> QED BY <2>1, <2>2
<1>7. CASE Renew(a)      BY <1>7 DEF Renew
<1>8. CASE Start(a)      BY <1>8 DEF Start
<1>9. CASE Reload(a)     BY <1>9 DEF Reload
<1>10. CASE Close(a)
  <2> DEFINE where == IF lease[a] = "held" /\ StillMine(a) THEN "drop" ELSE "off"
  <2>1. where \in {"drop", "off"}
    OBVIOUS
  <2>2. /\ Goto(a, where) /\ runtime' = [runtime EXCEPT ![a] = "none"]
        /\ UNCHANGED <<cookie, written, calm, takeovers, sweeps, crashes>>
    BY <1>10 DEF Close
  <2> HIDE DEF where
  <2> QED BY <2>1, <2>2
<1>11. CASE Drop(a)      BY <1>11 DEF Drop
<1>12. CASE Crash(a)     BY <1>12 DEF Crash
<1> QED BY <1>1, <1>2, <1>3, <1>4, <1>5, <1>6, <1>7, <1>8, <1>9, <1>10, <1>11, <1>12
        DEF Acquire, Watchdog, Wallet

(* So does a tick, which no deadline lets pass too early.                  *)
LEMMA TickType == ASSUME TypeOK, OnTime, Tick PROVE TypeOK' /\ OnTime'
<1> USE Bounds
<1>1. \A b \in Tabs : wait'[b] \in 0..Gap /\ written'[b] \in 0..Heartbeat
  BY DEF Tick, TypeOK, OnTime, Lesser
<1>2. wait' \in [Tabs -> 0..Gap] /\ written' \in [Tabs -> 0..Heartbeat]
  BY <1>1 DEF Tick
<1>3. cookie' \in [by : Tabs \cup {NoTab}, age : 0..TTL]
  BY DEF Tick, TypeOK, Lesser
<1>4. calm' \in 0..(Righting + 1)
  BY DEF Tick, TypeOK, Lesser
<1>5. TypeOK'
  BY <1>2, <1>3, <1>4 DEF Tick, TypeOK
<1>6. OnTime'
  BY DEF Tick, TypeOK, OnTime
<1> QED BY <1>5, <1>6

(* The types and the deadlines survive every step.                         *)
LEMMA LeaseNextType == TypeOK /\ OnTime /\ [Next]_vars => TypeOK' /\ OnTime'
<1> SUFFICES ASSUME TypeOK, OnTime, [Next]_vars PROVE TypeOK' /\ OnTime'
  OBVIOUS
<1>1. CASE \E a \in Tabs : Acquire(a) \/ Watchdog(a) \/ Wallet(a) \/ Crash(a)
  BY <1>1, TabStepType
<1>2. CASE Sweep
  BY <1>2, Bounds DEF Sweep, TypeOK, OnTime, NoCookie
<1>3. CASE Tick
  BY <1>3, TickType
<1>4. CASE UNCHANGED vars
  BY <1>4 DEF vars, TypeOK, OnTime
<1> QED BY <1>1, <1>2, <1>3, <1>4 DEF Next

\* The type invariant, for any tabs and any timing in the assumed order.
THEOREM LeaseTypeCorrect == Spec => []TypeOK
<1>1. Init => TypeOK /\ OnTime
  BY LeaseInit DEF LInv
<1> QED BY <1>1, LeaseNextType, PTL DEF Spec

-----------------------------------------------------------------------------
(* Exclusion.                                                              *)

(* A cookie that an owner holds is live, and so refuses everybody else.    *)
LEMMA OwnersCookie ==
  ASSUME TypeOK, OnTime, OwnerFresh, NEW a \in Tabs,
         lease[a] \in {"held", "beat", "drop"}
  PROVE  Active /\ cookie.by = a
<1>1. cookie.by = a
  BY DEF OwnerFresh, StillMine
<1>2. wait[a] \in 0..Gap /\ (lease[a] # "held" => wait[a] <= Delay)
  BY DEF TypeOK, OnTime
<1>3. cookie.age <= 2 * Gap + Delay
  BY <1>2, Bounds DEF OwnerFresh, TypeOK
<1> QED BY <1>1, <1>3, Bounds DEF Active, TypeOK

(* So does that of a contender whose token is still there.                 *)
LEMMA ContendersCookie ==
  ASSUME TypeOK, ContenderFresh, NEW a \in Tabs, lease[a] = "settle", StillMine(a)
  PROVE  Active
<1>1. cookie.by = a /\ cookie.age = wait[a] /\ wait[a] \in 0..Gap
  BY DEF ContenderFresh, StillMine, TypeOK
<1> QED BY <1>1, Bounds DEF Active, TypeOK

(* A tab that finds the cookie free finds no owner, and no contender who
   could still read his token back.                                        *)
LEMMA FreeCookie ==
  ASSUME TypeOK, OnTime, OwnerFresh, ContenderFresh, ~Active, NEW a \in Tabs
  PROVE  /\ lease[a] \notin {"held", "beat", "drop"}
         /\ ~(lease[a] = "settle" /\ StillMine(a))
BY OwnersCookie, ContendersCookie

(* Undisturbed, no step on the way to the lease breaks the order.          *)
LEMMA AcquireOrderly ==
  ASSUME TypeOK, OnTime, Orderly, NEW a \in Tabs,
         Ask(a) \/ WriteClaim(a) \/ ReadBack(a)
  PROVE  Orderly'
<1> USE Bounds DEF TypeOK, Goto, StillMine
<1>0. WorkersHold /\ ContenderFresh /\ OwnerFresh /\ ClaimsFirst
  BY DEF Orderly
<1>1. CASE Ask(a)
  <2>0. \A b \in Tabs : /\ lease[b] \notin {"held", "beat", "drop"}
                        /\ ~(lease[b] = "settle" /\ cookie.by = b)
    BY <1>0, <1>1, FreeCookie DEF Ask
  <2>1. WorkersHold'
    BY <1>0, <1>1, <2>0 DEF Ask, WorkersHold, Holds
  <2>2. ContenderFresh'
    BY <1>1, <2>0 DEF Ask, ContenderFresh
  <2>3. OwnerFresh'
    BY <1>1, <2>0 DEF Ask, OwnerFresh
  <2>4. ClaimsFirst'
    BY <1>1, <2>0 DEF Ask, ClaimsFirst
  <2> QED BY <2>1, <2>2, <2>3, <2>4 DEF Orderly
<1>2. CASE WriteClaim(a)
  <2>0. \A b \in Tabs : lease[b] \notin {"held", "beat", "drop"}
    BY <1>0, <1>2 DEF WriteClaim, ClaimsFirst
  <2>1. WorkersHold'
    BY <1>0, <1>2, <2>0 DEF WriteClaim, WorkersHold, Holds
  <2>2. ContenderFresh'
    BY <1>2 DEF WriteClaim, WriteLease, ContenderFresh, Lesser
  <2>3. OwnerFresh'
    BY <1>2, <2>0 DEF WriteClaim, OwnerFresh
  <2>4. ClaimsFirst'
    BY <1>2, <2>0 DEF WriteClaim, WriteLease, ClaimsFirst
  <2> QED BY <2>1, <2>2, <2>3, <2>4 DEF Orderly
<1>3. CASE ReadBack(a) /\ ~StillMine(a)
  <2>1. WorkersHold'
    BY <1>0, <1>3 DEF ReadBack, WorkersHold, Holds
  <2>2. ContenderFresh'
    BY <1>0, <1>3 DEF ReadBack, ContenderFresh
  <2>3. OwnerFresh'
    BY <1>0, <1>3 DEF ReadBack, OwnerFresh
  <2>4. ClaimsFirst'
    BY <1>0, <1>3 DEF ReadBack, ClaimsFirst
  <2> QED BY <2>1, <2>2, <2>3, <2>4 DEF Orderly
<1>4. CASE ReadBack(a) /\ StillMine(a)
  <2>0. \A b \in Tabs : lease[b] # "claim"
    BY <1>0, <1>4 DEF ReadBack, ClaimsFirst, OnTime
  <2>1. WorkersHold'
    BY <1>0, <1>4 DEF ReadBack, WorkersHold, Holds
  <2>2. ContenderFresh'
    BY <1>0, <1>4 DEF ReadBack, ContenderFresh
  <2>3. OwnerFresh'
    <3>1. cookie.by = a /\ cookie.age <= Gap /\ written[a] = Lesser(Heartbeat, cookie.age)
      BY <1>0, <1>4 DEF ReadBack, ContenderFresh
    <3> QED BY <1>0, <1>4, <3>1 DEF ReadBack, OwnerFresh
  <2>4. ClaimsFirst'
    BY <1>4, <2>0 DEF ReadBack, ClaimsFirst
  <2> QED BY <2>1, <2>2, <2>3, <2>4 DEF Orderly
<1> QED BY <1>1, <1>2, <1>3, <1>4

(* Nor does a run of the watchdog.                                         *)
LEMMA WatchdogOrderly ==
  ASSUME TypeOK, OnTime, Orderly, NEW a \in Tabs, Watchdog(a)
  PROVE  Orderly'
<1> USE Bounds DEF TypeOK, Goto, StillMine
<1>0. WorkersHold /\ ContenderFresh /\ OwnerFresh /\ ClaimsFirst
  BY DEF Orderly
<1>1. lease[a] \in {"held", "beat"} /\ cookie.by = a
  BY <1>0 DEF Watchdog, StandDown, Watch, Renew, OwnerFresh
<1>2. ~StandDown(a)
  BY <1>1 DEF StandDown, TakenFrom
<1>3. \A b \in Tabs : lease[b] # "claim"
  BY <1>0, <1>1 DEF ClaimsFirst
<1>4. CASE Watch(a)
  <2>0. CASE written[a] >= Heartbeat
    <3>1. WorkersHold'
      BY <1>0, <1>4, <2>0 DEF Watch, WorkersHold, Holds
    <3>2. ContenderFresh'
      BY <1>0, <1>4, <2>0 DEF Watch, ContenderFresh
    <3>3. OwnerFresh'
      BY <1>0, <1>4, <2>0 DEF Watch, OwnerFresh
    <3>4. ClaimsFirst'
      BY <1>3, <1>4, <2>0 DEF Watch, ClaimsFirst
    <3> QED BY <3>1, <3>2, <3>3, <3>4 DEF Orderly
  <2>1. CASE written[a] < Heartbeat
    <3>0. lease' = [lease EXCEPT ![a] = "held"] /\ lease[a] = "held"
      <4>1. ~(written[a] >= Heartbeat \/ cookie.by = NoTab)
        BY <1>1, <2>1
      <4> QED BY <1>4, <4>1 DEF Watch
    <3>1. WorkersHold'
      BY <1>0, <1>4, <3>0 DEF Watch, WorkersHold, Holds
    <3>2. ContenderFresh'
      BY <1>0, <1>4, <3>0 DEF Watch, ContenderFresh
    <3>3. OwnerFresh'
      BY <1>0, <1>4, <2>1, <3>0 DEF Watch, OwnerFresh, Lesser
    <3>4. ClaimsFirst'
      BY <1>3, <1>4, <3>0 DEF Watch, ClaimsFirst
    <3> QED BY <3>1, <3>2, <3>3, <3>4 DEF Orderly
  <2> QED BY <2>0, <2>1
<1>5. CASE Renew(a)
  <2>1. WorkersHold'
    BY <1>0, <1>5 DEF Renew, WorkersHold, Holds
  <2>2. ContenderFresh'
    BY <1>0, <1>1, <1>5 DEF Renew, WriteLease, ContenderFresh
  <2>3. OwnerFresh'
    BY <1>0, <1>1, <1>5 DEF Renew, WriteLease, OwnerFresh, Lesser
  <2>4. ClaimsFirst'
    BY <1>3, <1>5 DEF Renew, ClaimsFirst
  <2> QED BY <2>1, <2>2, <2>3, <2>4 DEF Orderly
<1> QED BY <1>2, <1>4, <1>5 DEF Watchdog

(* Nor does the wallet under the lease, nor its tab's death.               *)
LEMMA WalletOrderly ==
  ASSUME TypeOK, OnTime, Orderly, NEW a \in Tabs, Wallet(a) \/ Crash(a)
  PROVE  Orderly'
<1> USE Bounds DEF TypeOK, Goto, StillMine
<1>0. WorkersHold /\ ContenderFresh /\ OwnerFresh /\ ClaimsFirst
  BY DEF Orderly
<1>1. CASE Start(a) \/ Reload(a)
  BY <1>0, <1>1
     DEF Start, Reload, Orderly, WorkersHold, Holds, ContenderFresh, OwnerFresh, ClaimsFirst
<1>2. CASE Close(a)
  <2>0. lease[a] = "held" /\ cookie.by = a
    BY <1>0, <1>2 DEF Close, WorkersHold, Holds, OwnerFresh
  <2>1. /\ lease' = [lease EXCEPT ![a] = "drop"] /\ wait' = [wait EXCEPT ![a] = 0]
        /\ runtime' = [runtime EXCEPT ![a] = "none"]
        /\ UNCHANGED <<cookie, written>>
    BY <1>2, <2>0 DEF Close
  <2>2. WorkersHold'
    BY <1>0, <2>1 DEF WorkersHold, Holds
  <2>3. ContenderFresh'
    BY <1>0, <2>1 DEF ContenderFresh
  <2>4. OwnerFresh'
    BY <1>0, <2>0, <2>1 DEF OwnerFresh
  <2>5. ClaimsFirst'
    BY <1>0, <2>0, <2>1 DEF ClaimsFirst
  <2> QED BY <2>2, <2>3, <2>4, <2>5 DEF Orderly
<1>3. CASE Drop(a)
  <2>0. \A b \in Tabs : cookie.by = b => b = a
    BY <1>0, <1>3 DEF Drop, OwnerFresh
  <2>1. WorkersHold'
    BY <1>0, <1>3 DEF Drop, WorkersHold, Holds
  <2>2. ContenderFresh'
    BY <1>3 DEF Drop, NoCookie, ContenderFresh
  <2>3. OwnerFresh'
    BY <1>0, <1>3, <2>0 DEF Drop, OwnerFresh
  <2>4. ClaimsFirst'
    BY <1>0, <1>3 DEF Drop, NoCookie, ClaimsFirst
  <2> QED BY <2>1, <2>2, <2>3, <2>4 DEF Orderly
<1>4. CASE Crash(a)
  <2>1. WorkersHold'
    BY <1>0, <1>4 DEF Crash, WorkersHold, Holds
  <2>2. ContenderFresh'
    BY <1>0, <1>4 DEF Crash, ContenderFresh
  <2>3. OwnerFresh'
    BY <1>0, <1>4 DEF Crash, OwnerFresh
  <2>4. ClaimsFirst'
    BY <1>0, <1>4 DEF Crash, ClaimsFirst
  <2> QED BY <2>1, <2>2, <2>3, <2>4 DEF Orderly
<1> QED BY <1>1, <1>2, <1>3, <1>4 DEF Wallet

(* Nor does time.                                                          *)
LEMMA TickOrderly == ASSUME TypeOK, OnTime, Orderly, Tick PROVE Orderly'
<1> USE Bounds DEF TypeOK, StillMine
<1>0. WorkersHold /\ ContenderFresh /\ OwnerFresh /\ ClaimsFirst
  BY DEF Orderly
<1>1. /\ cookie'.by = cookie.by
      /\ cookie.by # NoTab => cookie'.age = Lesser(TTL, cookie.age + 1)
      /\ lease' = lease /\ runtime' = runtime
  BY DEF Tick
<1>2. \A a \in Tabs : lease[a] # "off" =>
        wait'[a] = wait[a] + 1 /\ written'[a] = Lesser(Heartbeat, written[a] + 1)
  BY DEF Tick
<1>3. WorkersHold'
  BY <1>0, <1>1 DEF WorkersHold, Holds
<1>4. ContenderFresh'
  <2> SUFFICES ASSUME NEW a \in Tabs, lease[a] = "settle", cookie.by = a
               PROVE  cookie'.age = wait'[a] /\ written'[a] = Lesser(Heartbeat, wait'[a])
    BY <1>1 DEF ContenderFresh
  <2>1. cookie.age = wait[a] /\ written[a] = Lesser(Heartbeat, wait[a])
    BY <1>0 DEF ContenderFresh
  <2>2. wait[a] \in Nat /\ wait[a] + 1 <= Gap /\ wait[a] + 1 <= TTL
    BY DEF Tick
  <2>3. cookie'.age = Lesser(TTL, cookie.age + 1) /\ wait'[a] = wait[a] + 1
        /\ written'[a] = Lesser(Heartbeat, written[a] + 1)
    BY <1>1, <1>2
  <2> QED BY <2>1, <2>2, <2>3 DEF Lesser
<1>5. OwnerFresh'
  <2> SUFFICES ASSUME NEW a \in Tabs, lease[a] \in {"held", "beat", "drop"}
               PROVE  /\ cookie'.by = a
                      /\ lease[a] = "held" =>
                           cookie'.age <= Gap + wait'[a]
                             /\ written'[a] = Lesser(Heartbeat, cookie'.age)
                      /\ lease[a] # "held" => cookie'.age <= 2 * Gap + wait'[a]
    BY <1>1 DEF OwnerFresh
  <2>1. cookie.by = a /\ Active
    BY <1>0, OwnersCookie
  <2>2. cookie'.age = cookie.age + 1 /\ cookie.age \in Nat /\ cookie'.by = a
    BY <1>1, <2>1 DEF Active, Lesser
  <2>3. wait'[a] = wait[a] + 1 /\ written'[a] = Lesser(Heartbeat, written[a] + 1)
        /\ wait[a] \in Nat
    BY <1>2
  <2>4. /\ lease[a] = "held" => cookie.age <= Gap + wait[a]
                                /\ written[a] = Lesser(Heartbeat, cookie.age)
        /\ lease[a] # "held" => cookie.age <= 2 * Gap + wait[a]
    BY <1>0 DEF OwnerFresh
  <2> QED BY <2>2, <2>3, <2>4 DEF Lesser
<1>6. ClaimsFirst'
  <2> SUFFICES ASSUME NEW b \in Tabs, lease[b] = "claim", NEW a \in Tabs
               PROVE  /\ lease[a] \notin {"held", "beat", "drop"}
                      /\ (lease[a] = "settle" /\ cookie.by = a) => wait'[a] <= wait'[b]
    BY <1>1 DEF ClaimsFirst
  <2>1. /\ lease[a] \notin {"held", "beat", "drop"}
        /\ (lease[a] = "settle" /\ cookie.by = a) => wait[a] <= wait[b]
    BY <1>0 DEF ClaimsFirst
  <2>2. wait[a] \in Nat /\ wait[b] \in Nat /\ wait'[b] = wait[b] + 1
    BY <1>2
  <2> QED BY <1>2, <2>1, <2>2
<1> QED BY <1>3, <1>4, <1>5, <1>6 DEF Orderly

(* The invariant is inductive.  A takeover or a sweep ends the order, and
   is remembered.                                                          *)
LEMMA LeaseNextInv == LInv /\ [Next]_vars => LInv'
<1> SUFFICES ASSUME LInv, [Next]_vars PROVE LInv'
  OBVIOUS
<1>0. TypeOK /\ OnTime /\ (Undisturbed => Orderly)
  BY DEF LInv
<1>1. TypeOK' /\ OnTime'
  BY <1>0, LeaseNextType
<1>2. ASSUME Undisturbed' PROVE Orderly'
  <2>1. CASE \E a \in Tabs : Acquire(a) \/ Watchdog(a) \/ Wallet(a) \/ Crash(a)
    <3> PICK a \in Tabs : Acquire(a) \/ Watchdog(a) \/ Wallet(a) \/ Crash(a)
      BY <2>1
    <3>1. ~TakeOver(a)
      BY <1>0, <1>2, Bounds DEF TakeOver, Undisturbed, TypeOK
    <3>2. Undisturbed
      BY <1>2, <3>1
         DEF Undisturbed, Acquire, Watchdog, Wallet, Ask, WriteClaim, ReadBack, StandDown,
             Watch, Renew, Start, Reload, Close, Drop, Crash
    <3> QED BY <1>0, <3>1, <3>2, AcquireOrderly, WatchdogOrderly, WalletOrderly DEF Acquire
  <2>2. CASE Sweep
    BY <1>0, <1>2, <2>2, Bounds DEF Sweep, Undisturbed, TypeOK
  <2>3. CASE Tick
    BY <1>0, <1>2, <2>3, TickOrderly DEF Tick, Undisturbed
  <2>4. CASE UNCHANGED vars
    BY <1>0, <1>2, <2>4
       DEF vars, Undisturbed, Orderly, WorkersHold, Holds, ContenderFresh, OwnerFresh,
           ClaimsFirst, StillMine
  <2> QED BY <2>1, <2>2, <2>3, <2>4 DEF Next
<1> QED BY <1>1, <1>2 DEF LInv

\* The order of undisturbed tabs, for any tabs and any timing.
THEOREM LeaseOrder == Spec => []LInv
BY LeaseInit, LeaseNextInv, PTL DEF Spec

\* One seed drives at most one runtime while nobody takes the wallet over and
\* nobody clears the cookies: two runtimes would be two owners of one cookie.
THEOREM LeaseExcludes == Spec => []OneRuntime
<1>1. LInv => OneRuntime
  <2> SUFFICES ASSUME LInv, Undisturbed, NEW a \in Runtimes, NEW b \in Runtimes
               PROVE  a = b
    BY DEF OneRuntime
  <2>1. Holds(a) /\ Holds(b)
    BY DEF LInv, Orderly, WorkersHold, Runtimes
  <2> QED BY <2>1 DEF LInv, Orderly, OwnerFresh, Holds, StillMine, Runtimes
<1> QED BY <1>1, LeaseOrder, PTL

-----------------------------------------------------------------------------
(* After an upset.  The invariant holds at any time, whoever takes over,   *)
(* clears the cookies or dies; it bounds how long ago the last upset was   *)
(* for each trace of it that is left.                                      *)

\* An owner whose token is in the cookie renews it in time, and one about to
\* renew it has not written for a heartbeat; a token of somebody else came
\* after his last look.
OwnerSees ==
  \A a \in Tabs : Holds(a) =>
    /\ StillMine(a) =>
         /\ written[a] = Lesser(Heartbeat, cookie.age)
         /\ lease[a] = "held" => cookie.age <= Gap + wait[a]
         /\ lease[a] = "beat" => /\ cookie.age <= 2 * Gap + wait[a]
                                 /\ Heartbeat <= cookie.age
    /\ (~StillMine(a) /\ cookie.by # NoTab) => cookie.age <= wait[a]

\* A token that was in the cookie when a tab set out to claim was overridden.
ClaimSees ==
  \A b \in Tabs : lease[b] = "claim" =>
    ~Active \/ cookie.age <= wait[b] \/ calm <= wait[b]

\* An owner loses his token, and sees himself or a claimant about to overwrite
\* the cookie, only for a while after an upset.
LossIsRecent ==
  \A a \in Tabs :
    /\ (lease[a] = "held" /\ cookie.by = NoTab) => calm <= wait[a]
    /\ (lease[a] = "held" /\ ~StillMine(a)) => calm <= Gap + 2 * Delay + wait[a]
    /\ (lease[a] = "beat" /\ ~StillMine(a)) => calm <= Gap + wait[a]
    /\ (lease[a] = "claim" /\ \E h \in Tabs : Holds(h)) => calm <= Gap + Delay + wait[a]

Traces == ContenderFresh /\ OwnerSees /\ ClaimSees /\ LossIsRecent

UInv == TypeOK /\ OnTime /\ Traces

(* The values of the clocks and how the deadlines order them.              *)
LEMMA Clocks ==
  ASSUME TypeOK, OnTime
  PROVE  /\ cookie.age \in Nat /\ cookie.age <= TTL /\ calm \in Nat
         /\ \A a \in Tabs : /\ wait[a] \in Nat /\ wait[a] <= Gap
                            /\ written[a] \in Nat /\ written[a] <= Heartbeat
                            /\ lease[a] \in {"claim", "beat", "drop"} => wait[a] <= Delay
         /\ TTL \in Nat /\ Heartbeat \in Nat /\ Settle \in Nat /\ Gap \in Nat /\ Delay \in Nat
         /\ Delay < Settle /\ Settle <= Gap /\ Delay < Heartbeat /\ Heartbeat <= Gap
         /\ 2 * Gap + Delay < TTL
         /\ NoTab \notin Tabs
<1>1. Delay < Heartbeat
  BY LeaseAssumption DEF LeaseAssumption
<1> QED BY <1>1, Bounds DEF TypeOK, OnTime

(* Beside an owner the cookie is missing or live, and missing only for a   *)
(* while after an upset.                                                   *)
LEMMA BesideAnOwner ==
  ASSUME UInv, NEW h \in Tabs, Holds(h)
  PROVE  /\ cookie.by # NoTab => Active
         /\ cookie.by = NoTab => calm <= Gap + Delay
<1>1. TypeOK /\ OnTime /\ OwnerSees /\ LossIsRecent
  BY DEF UInv, Traces
<1>2. lease[h] \in {"held", "beat"}
  BY DEF Holds
<1>3. cookie.by # NoTab => cookie.age <= 2 * Gap + Delay
  BY <1>1, <1>2, Clocks DEF OwnerSees
<1>4. cookie.by = NoTab => calm <= Gap + Delay
  BY <1>1, <1>2, Clocks DEF LossIsRecent, StillMine
<1> QED BY <1>1, <1>3, <1>4, Clocks DEF Active

\* Steps that only take a tab out, or leave everything that counts alone.
LEMMA LeavesNoTrace ==
  ASSUME UInv, NEW a \in Tabs,
         UNCHANGED <<cookie, written, calm>>,
         \/ UNCHANGED <<lease, wait>>
         \/ \E where \in {"off", "drop"} : Goto(a, where)
  PROVE  Traces'
<1>1. TypeOK /\ ContenderFresh /\ OwnerSees /\ ClaimSees /\ LossIsRecent
  BY DEF UInv, Traces
<1>2. \A b \in Tabs : \/ lease'[b] \in {"off", "drop"}
                      \/ lease'[b] = lease[b] /\ wait'[b] = wait[b]
  BY <1>1 DEF Goto, TypeOK
<1>3. \A b \in Tabs : StillMine(b)' <=> StillMine(b)
  BY DEF StillMine
<1>4. ContenderFresh'
  BY <1>1, <1>2, <1>3 DEF ContenderFresh
<1>5. OwnerSees'
  BY <1>1, <1>2, <1>3 DEF OwnerSees, Holds
<1>6. ClaimSees'
  BY <1>1, <1>2 DEF ClaimSees, Active
<1>7. LossIsRecent'
  BY <1>1, <1>2, <1>3 DEF LossIsRecent, Holds
<1> QED BY <1>4, <1>5, <1>6, <1>7 DEF Traces

(* A claim sets out when the cookie is free, or by overriding it, and the  *)
(* token it writes is read back before an older claim can overwrite it.    *)
LEMMA AcquireTraces == ASSUME UInv, NEW a \in Tabs, Acquire(a) PROVE Traces'
<1>1. TypeOK /\ OnTime /\ ContenderFresh /\ OwnerSees /\ ClaimSees /\ LossIsRecent
  BY DEF UInv, Traces
<1> USE Clocks
<1>2. ASSUME Ask(a) \/ TakeOver(a) PROVE Traces'
  <2>1. /\ lease[a] = "off" /\ lease'[a] = "claim" /\ wait'[a] = 0
        /\ \A b \in Tabs \ {a} : lease'[b] = lease[b] /\ wait'[b] = wait[b]
        /\ UNCHANGED <<cookie, written>>
    BY <1>1, <1>2 DEF Ask, TakeOver, Goto, TypeOK
  <2>2. calm' = 0 \/ (calm' = calm /\ ~Active)
    BY <1>2 DEF Ask, TakeOver
  <2>3. /\ \A b \in Tabs : (StillMine(b)' <=> StillMine(b)) /\ (Holds(b)' <=> Holds(b))
        /\ Active' <=> Active
    BY <2>1 DEF StillMine, Holds, Active
  <2>4. ContenderFresh'
    BY <1>1, <2>1, <2>3 DEF ContenderFresh
  <2>5. OwnerSees'
    BY <1>1, <2>1, <2>3 DEF OwnerSees, Holds
  <2>6. ClaimSees'
    BY <1>1, <2>1, <2>2, <2>3 DEF ClaimSees
  <2>7. LossIsRecent'
    <3>1. CASE calm' = 0
      BY <1>1, <2>1, <3>1, LeaseNextType DEF LossIsRecent
    <3>2. CASE calm' = calm /\ ~Active
      <4>1. \A h \in Tabs : Holds(h) => calm <= Gap + Delay
        BY <3>2, BesideAnOwner
      <4> QED BY <1>1, <2>1, <2>3, <3>2, <4>1 DEF LossIsRecent
    <3> QED BY <2>2, <3>1, <3>2
  <2> QED BY <2>4, <2>5, <2>6, <2>7 DEF Traces
<1>3. CASE WriteClaim(a)
  <2>1. /\ lease[a] = "claim" /\ lease'[a] = "settle" /\ wait'[a] = 0 /\ written'[a] = 0
        /\ \A b \in Tabs \ {a} : /\ lease'[b] = lease[b] /\ wait'[b] = wait[b]
                                 /\ written'[b] = written[b]
        /\ cookie'.by = a /\ cookie'.age = 0 /\ calm' = calm
    BY <1>1, <1>3 DEF WriteClaim, WriteLease, Goto, TypeOK
  <2>2. ContenderFresh'
    BY <1>1, <2>1 DEF ContenderFresh, StillMine, Lesser
  <2>3. OwnerSees'
    BY <1>1, <2>1 DEF OwnerSees, StillMine, Holds
  <2>4. ClaimSees'
    BY <1>1, <2>1 DEF ClaimSees
  <2>5. ASSUME NEW h \in Tabs, Holds(h)
        PROVE  /\ calm <= Gap + 2 * Delay
               /\ (lease[h] = "beat" /\ StillMine(h)) => calm <= Gap
    <3>1. calm <= Gap + Delay + wait[a] /\ wait[a] <= Delay
      BY <1>1, <2>1, <2>5 DEF LossIsRecent
    <3>2. ASSUME lease[h] = "beat", StillMine(h) PROVE calm <= Gap
      <4>1. Active
        BY <1>1, <2>5, <3>2, BesideAnOwner DEF StillMine
      <4>2. ~(cookie.age <= wait[a])
        BY <1>1, <2>1, <2>5, <3>2 DEF OwnerSees
      <4> QED BY <1>1, <2>1, <4>1, <4>2 DEF ClaimSees
    <3> QED BY <1>1, <3>1, <3>2
  <2>6. LossIsRecent'
    <3> SUFFICES ASSUME NEW h \in Tabs
                 PROVE  /\ lease'[h] = "held" => calm <= Gap + 2 * Delay + wait'[h]
                        /\ lease'[h] = "beat" => calm <= Gap + wait'[h]
                        /\ (lease'[h] = "claim" /\ \E g \in Tabs : Holds(g)')
                             => calm <= Gap + Delay + wait'[h]
      BY <1>1, <2>1 DEF LossIsRecent
    <3>1. \A g \in Tabs : Holds(g)' => Holds(g)
      BY <2>1 DEF Holds
    <3>2. CASE lease'[h] \in {"held", "beat"}
      <4>1. h # a /\ Holds(h)
        BY <2>1, <3>2 DEF Holds
      <4> QED BY <1>1, <2>1, <2>5, <3>2, <4>1 DEF LossIsRecent
    <3>3. CASE lease'[h] = "claim"
      BY <1>1, <2>1, <3>1, <3>3 DEF LossIsRecent
    <3> QED BY <3>2, <3>3
  <2> QED BY <2>2, <2>3, <2>4, <2>6 DEF Traces
<1>4. CASE ReadBack(a) /\ StillMine(a)
  <2>1. /\ lease[a] = "settle" /\ lease'[a] = "held" /\ wait'[a] = 0 /\ wait[a] >= Settle
        /\ \A b \in Tabs \ {a} : lease'[b] = lease[b] /\ wait'[b] = wait[b]
        /\ UNCHANGED <<cookie, written, calm>>
    BY <1>1, <1>4 DEF ReadBack, Goto, TypeOK
  <2>2. cookie.by = a /\ cookie.age = wait[a] /\ written[a] = Lesser(Heartbeat, cookie.age)
    BY <1>1, <1>4, <2>1 DEF ContenderFresh, StillMine
  <2>3. ContenderFresh'
    BY <1>1, <2>1 DEF ContenderFresh, StillMine
  <2>4. OwnerSees'
    BY <1>1, <2>1, <2>2 DEF OwnerSees, StillMine, Holds
  <2>5. ClaimSees'
    BY <1>1, <2>1 DEF ClaimSees, Active
  <2>6. ASSUME NEW b \in Tabs, lease[b] = "claim" PROVE calm <= wait[b]
    <3>1. Active /\ ~(cookie.age <= wait[b])
      BY <1>1, <2>1, <2>2, <2>6 DEF Active
    <3> QED BY <1>1, <2>6, <3>1 DEF ClaimSees
  <2>7. LossIsRecent'
    BY <1>1, <2>1, <2>2, <2>6 DEF LossIsRecent, StillMine
  <2> QED BY <2>3, <2>4, <2>5, <2>7 DEF Traces
<1>5. CASE ReadBack(a) /\ ~StillMine(a)
  BY <1>5, LeavesNoTrace DEF ReadBack
<1> QED BY <1>2, <1>3, <1>4, <1>5 DEF Acquire

(* The watchdog renews what is its own or missing, and a renewal on its    *)
(* way overwrites only what was written since.                             *)
LEMMA WatchdogTraces == ASSUME UInv, NEW a \in Tabs, Watchdog(a) PROVE Traces'
<1>1. TypeOK /\ OnTime /\ ContenderFresh /\ OwnerSees /\ ClaimSees /\ LossIsRecent
  BY DEF UInv, Traces
<1> USE Clocks
<1>2. CASE StandDown(a)
  BY <1>2, LeavesNoTrace DEF StandDown
<1>3. CASE Watch(a)
  <2>1. PICK where \in {"beat", "held"} :
          /\ lease[a] = "held" /\ lease'[a] = where /\ wait'[a] = 0
          /\ \A b \in Tabs \ {a} : lease'[b] = lease[b] /\ wait'[b] = wait[b]
          /\ UNCHANGED <<cookie, written, calm>>
          /\ where = "beat" <=> (written[a] >= Heartbeat \/ cookie.by = NoTab)
    BY <1>1, <1>3 DEF Watch, Goto, TypeOK
  <2>2. cookie.by \in {a, NoTab}
    <3>1. Holds(a)
      BY <2>1 DEF Holds
    <3> QED BY <1>3, <3>1, BesideAnOwner DEF Watch, TakenFrom
  <2>3. cookie.by = NoTab => calm <= Gap
    BY <1>1, <2>1 DEF LossIsRecent
  <2>4. cookie.by = a => /\ written[a] = Lesser(Heartbeat, cookie.age)
                         /\ cookie.age <= 2 * Gap
    BY <1>1, <2>1 DEF OwnerSees, Holds, StillMine
  <2>5. cookie.by = a => IF where = "beat" THEN Heartbeat <= cookie.age
                                          ELSE cookie.age <= Gap
    BY <1>1, <2>1, <2>4 DEF Lesser
  <2>6. \A b \in Tabs : (StillMine(b)' <=> StillMine(b)) /\ (Holds(b)' <=> Holds(b))
    BY <2>1 DEF StillMine, Holds
  <2>7. ContenderFresh'
    BY <1>1, <2>1, <2>6 DEF ContenderFresh
  <2>8. OwnerSees'
    <3> SUFFICES ASSUME NEW h \in Tabs, Holds(h)
                 PROVE  /\ StillMine(h) =>
                             /\ written[h] = Lesser(Heartbeat, cookie.age)
                             /\ lease'[h] = "held" => cookie.age <= Gap + wait'[h]
                             /\ lease'[h] = "beat" =>
                                  cookie.age <= 2 * Gap + wait'[h] /\ Heartbeat <= cookie.age
                        /\ (~StillMine(h) /\ cookie.by # NoTab) => cookie.age <= wait'[h]
      BY <2>1, <2>6 DEF OwnerSees
    <3>1. CASE h = a
      BY <1>1, <2>1, <2>2, <2>4, <2>5, <3>1 DEF StillMine
    <3>2. CASE h # a
      BY <1>1, <2>1, <3>2 DEF OwnerSees
    <3> QED BY <3>1, <3>2
  <2>9. ClaimSees'
    BY <1>1, <2>1 DEF ClaimSees, Active
  <2>10. LossIsRecent'
    <3> SUFFICES ASSUME NEW h \in Tabs
                 PROVE  /\ (lease'[h] = "held" /\ cookie.by = NoTab) => calm <= wait'[h]
                        /\ (lease'[h] = "held" /\ ~StillMine(h))
                             => calm <= Gap + 2 * Delay + wait'[h]
                        /\ (lease'[h] = "beat" /\ ~StillMine(h)) => calm <= Gap + wait'[h]
                        /\ (lease'[h] = "claim" /\ \E g \in Tabs : Holds(g))
                             => calm <= Gap + Delay + wait'[h]
      BY <2>1, <2>6 DEF LossIsRecent
    <3>1. CASE h = a
      BY <1>1, <2>1, <2>2, <2>3, <3>1 DEF StillMine
    <3>2. CASE h # a
      BY <1>1, <2>1, <3>2 DEF LossIsRecent
    <3> QED BY <3>1, <3>2
  <2> QED BY <2>7, <2>8, <2>9, <2>10 DEF Traces
<1>4. CASE Renew(a)
  <2>1. /\ lease[a] = "beat" /\ lease'[a] = "held" /\ wait' = wait /\ written'[a] = 0
        /\ \A b \in Tabs \ {a} : lease'[b] = lease[b] /\ written'[b] = written[b]
        /\ cookie'.by = a /\ cookie'.age = 0 /\ calm' = calm
    BY <1>1, <1>4 DEF Renew, WriteLease, TypeOK
  <2>2. ContenderFresh'
    BY <1>1, <2>1 DEF ContenderFresh, StillMine
  <2>3. OwnerSees'
    BY <1>1, <2>1 DEF OwnerSees, StillMine, Holds, Lesser
  <2>4. ClaimSees'
    BY <1>1, <2>1 DEF ClaimSees
  \* Two owners may be about to renew, but not both over their own token.
  <2>5. ASSUME NEW h \in Tabs \ {a}, Holds(h), StillMine(h)
        PROVE  lease[h] = "held" /\ calm <= Gap + Delay
    <3>1. ~StillMine(a) /\ cookie.by # NoTab
      BY <2>5, <1>1 DEF StillMine
    <3>2. cookie.age <= wait[a] /\ calm <= Gap + wait[a]
      BY <1>1, <2>1, <3>1 DEF OwnerSees, LossIsRecent, Holds
    <3>3. lease[h] # "beat"
      BY <1>1, <2>1, <2>5, <3>2 DEF OwnerSees
    <3> QED BY <1>1, <2>1, <2>5, <3>2, <3>3 DEF Holds
  <2>6. LossIsRecent'
    <3> SUFFICES ASSUME NEW h \in Tabs
                 PROVE  /\ (lease'[h] = "held" /\ h # a) => calm <= Gap + 2 * Delay + wait[h]
                        /\ lease'[h] = "beat" => calm <= Gap + wait[h]
                        /\ (lease'[h] = "claim" /\ \E g \in Tabs : Holds(g)')
                             => calm <= Gap + Delay + wait[h]
      BY <1>1, <2>1 DEF LossIsRecent, StillMine
    <3>1. Holds(a)
      BY <2>1 DEF Holds
    <3>2. CASE h # a /\ lease'[h] \in {"held", "beat"}
      <4>1. lease[h] = lease'[h] /\ Holds(h)
        BY <2>1, <3>2 DEF Holds
      <4>2. CASE StillMine(h)
        BY <1>1, <2>5, <3>2, <4>1, <4>2
      <4>3. CASE ~StillMine(h)
        BY <1>1, <3>2, <4>1, <4>3 DEF LossIsRecent
      <4> QED BY <4>2, <4>3
    <3>3. CASE lease'[h] = "claim"
      BY <1>1, <2>1, <3>1, <3>3 DEF LossIsRecent
    <3> QED BY <2>1, <3>2, <3>3
  <2> QED BY <2>2, <2>3, <2>4, <2>6 DEF Traces
<1> QED BY <1>2, <1>3, <1>4 DEF Watchdog

(* A cookie that is cleared beside an owner starts the clock again.        *)
LEMMA ClearedTraces ==
  ASSUME UInv, NEW a \in Tabs,
         cookie' = NoCookie, written' = written,
         calm' = 0 \/ (calm' = calm /\ \A h \in Tabs : ~Holds(h)),
         UNCHANGED <<lease, wait>> \/ Goto(a, "off"),
         TypeOK', OnTime'
  PROVE  Traces'
<1>1. TypeOK /\ OnTime /\ ContenderFresh /\ OwnerSees /\ ClaimSees /\ LossIsRecent
  BY DEF UInv, Traces
<1>2. /\ \A b \in Tabs : lease'[b] = "off" \/ (lease'[b] = lease[b] /\ wait'[b] = wait[b])
      /\ cookie'.by = NoTab /\ ~Active'
  BY <1>1 DEF Goto, TypeOK, NoCookie, Active
<1>3. \A b \in Tabs : ~StillMine(b)'
  BY <1>1, <1>2, Clocks DEF StillMine
<1>4. ContenderFresh' /\ OwnerSees' /\ ClaimSees'
  BY <1>2, <1>3 DEF ContenderFresh, OwnerSees, ClaimSees
<1>5. LossIsRecent'
  <2>1. CASE calm' = 0
    <3>1. Gap \in Nat /\ Delay \in Nat /\ \A b \in Tabs : wait'[b] \in Nat
      BY Bounds DEF TypeOK
    <3> QED BY <2>1, <3>1 DEF LossIsRecent
  <2>2. CASE \A h \in Tabs : ~Holds(h)
    <3>1. \A h \in Tabs : ~Holds(h)'
      BY <1>2, <2>2 DEF Holds
    <3> QED BY <3>1 DEF LossIsRecent, Holds
  <2> QED BY <2>1, <2>2
<1> QED BY <1>4, <1>5 DEF Traces

(* Time ages the upset with its traces.                                    *)
LEMMA TickTraces == ASSUME UInv, Tick PROVE Traces'
<1>1. TypeOK /\ OnTime /\ ContenderFresh /\ OwnerSees /\ ClaimSees /\ LossIsRecent
  BY DEF UInv, Traces
<1> USE Clocks
<1>2. /\ cookie'.by = cookie.by /\ lease' = lease
      /\ cookie.by # NoTab => cookie'.age = Lesser(TTL, cookie.age + 1)
      /\ cookie.by = NoTab => cookie'.age = cookie.age
      /\ calm' <= calm + 1
    BY <1>1, Bounds DEF Tick, TypeOK, Lesser
<1>3. \A a \in Tabs : lease[a] # "off" =>
        wait'[a] = wait[a] + 1 /\ written'[a] = Lesser(Heartbeat, written[a] + 1)
  BY DEF Tick
<1>4. \A b \in Tabs : (StillMine(b)' <=> StillMine(b)) /\ (Holds(b)' <=> Holds(b))
  BY <1>2 DEF StillMine, Holds
<1>5. calm' \in Nat
  BY <1>1, TickType, Bounds DEF TypeOK
<1>6. ContenderFresh'
  <2> SUFFICES ASSUME NEW a \in Tabs, lease[a] = "settle", StillMine(a)
               PROVE  cookie'.age = wait'[a] /\ written'[a] = Lesser(Heartbeat, wait'[a])
    BY <1>2, <1>4 DEF ContenderFresh
  <2>1. cookie.age = wait[a] /\ written[a] = Lesser(Heartbeat, wait[a])
    BY <1>1 DEF ContenderFresh
  <2>2. wait[a] + 1 <= TTL
    BY <1>1
  <2> QED BY <1>1, <1>2, <1>3, <2>1, <2>2 DEF Lesser, StillMine
<1>7. OwnerSees'
  <2> SUFFICES ASSUME NEW a \in Tabs, Holds(a)
               PROVE  /\ StillMine(a) =>
                           /\ written'[a] = Lesser(Heartbeat, cookie'.age)
                           /\ lease[a] = "held" => cookie'.age <= Gap + wait'[a]
                           /\ lease[a] = "beat" => /\ cookie'.age <= 2 * Gap + wait'[a]
                                                   /\ Heartbeat <= cookie'.age
                      /\ (~StillMine(a) /\ cookie.by # NoTab) => cookie'.age <= wait'[a]
    BY <1>2, <1>4 DEF OwnerSees
  <2>1. lease[a] \in {"held", "beat"}
    BY DEF Holds
  <2>2. cookie.by # NoTab => cookie'.age = cookie.age + 1
    BY <1>1, <1>2, BesideAnOwner DEF Active, Lesser
  <2>3. StillMine(a) => cookie.by # NoTab
    BY <1>1 DEF StillMine
  <2> QED BY <1>1, <1>3, <2>1, <2>2, <2>3 DEF OwnerSees, Lesser
<1>8. ClaimSees'
  <2> SUFFICES ASSUME NEW b \in Tabs, lease[b] = "claim", Active'
               PROVE  cookie'.age <= wait'[b] \/ calm' <= wait'[b]
    BY <1>2 DEF ClaimSees
  <2>1. Active /\ cookie'.age = cookie.age + 1
    BY <1>1, <1>2 DEF Active, Lesser
  <2> QED BY <1>1, <1>2, <1>3, <1>5, <2>1 DEF ClaimSees
<1>9. LossIsRecent'
  <2> SUFFICES ASSUME NEW a \in Tabs
               PROVE  /\ (lease[a] = "held" /\ cookie.by = NoTab) => calm' <= wait'[a]
                      /\ (lease[a] = "held" /\ ~StillMine(a))
                           => calm' <= Gap + 2 * Delay + wait'[a]
                      /\ (lease[a] = "beat" /\ ~StillMine(a)) => calm' <= Gap + wait'[a]
                      /\ (lease[a] = "claim" /\ \E h \in Tabs : Holds(h))
                           => calm' <= Gap + Delay + wait'[a]
    BY <1>2, <1>4 DEF LossIsRecent
  <2> QED BY <1>1, <1>2, <1>3, <1>5 DEF LossIsRecent
<1> QED BY <1>6, <1>7, <1>8, <1>9 DEF Traces

(* Every step keeps the traces of an upset bounded.                        *)
LEMMA UpsetNext == UInv /\ [Next]_vars => UInv'
<1> SUFFICES ASSUME UInv, [Next]_vars PROVE UInv'
  OBVIOUS
<1>1. TypeOK' /\ OnTime'
  BY LeaseNextType DEF UInv
<1>2. ASSUME NEW a \in Tabs, Acquire(a) \/ Watchdog(a) \/ Wallet(a) \/ Crash(a)
      PROVE  Traces'
  <2>1. CASE Acquire(a)
    BY <2>1, AcquireTraces
  <2>2. CASE Watchdog(a)
    BY <2>2, WatchdogTraces
  <2>3. CASE Start(a) \/ Reload(a) \/ Crash(a)
    BY <2>3, LeavesNoTrace DEF Start, Reload, Crash
  <2>4. CASE Close(a)
    BY <2>4, LeavesNoTrace DEF Close
  <2>5. CASE Drop(a)
    <3>1. calm' = 0 \/ (calm' = calm /\ \A h \in Tabs : ~Holds(h))
      BY <2>5 DEF Drop, Holders
    <3> QED BY <1>1, <2>5, <3>1, ClearedTraces DEF Drop
  <2> QED BY <1>2, <2>1, <2>2, <2>3, <2>4, <2>5 DEF Wallet
<1>3. ASSUME Sweep PROVE Traces'
  <2>1. CASE Tabs = {}
    BY <2>1 DEF Traces, ContenderFresh, OwnerSees, ClaimSees, LossIsRecent
  <2>2. ASSUME NEW a \in Tabs PROVE Traces'
    BY <1>1, <1>3, ClearedTraces DEF Sweep
  <2> QED BY <2>1, <2>2
<1>4. ASSUME Tick PROVE Traces'
  BY <1>4, TickTraces
<1>5. ASSUME UNCHANGED vars PROVE Traces'
  BY <1>5 DEF vars, UInv, Traces, ContenderFresh, OwnerSees, ClaimSees, LossIsRecent,
              StillMine, Holds, Active
<1> QED BY <1>1, <1>2, <1>3, <1>4, <1>5 DEF Next, UInv

\* However often the wallet is taken over and the cookies are cleared, the tabs
\* agree on one owner two watchdog runs, a renewal and a claim after the last
\* time: of two owners one has lost his token, and that is noticed by then.
THEOREM LeaseRighted == Spec => []RightedInTime
<1>1. Init => UInv
  BY LeaseInit DEF LInv, UInv, Traces, Init, ContenderFresh, OwnerSees, ClaimSees,
                   LossIsRecent, Holds
<1>2. UInv => RightedInTime
  <2> SUFFICES ASSUME UInv, calm > Righting, NEW a \in Holders, NEW b \in Holders, a # b
               PROVE  FALSE
    BY DEF RightedInTime
  <2>1. PICK h \in {a, b} : ~StillMine(h)
    BY DEF StillMine
  <2>2. h \in Tabs /\ lease[h] \in {"held", "beat"}
    BY DEF Holders, Holds
  <2>3. TypeOK /\ OnTime /\ LossIsRecent
    BY DEF UInv, Traces
  <2>4. calm <= Gap + 2 * Delay + Gap
    BY <2>1, <2>2, <2>3, Clocks DEF LossIsRecent
  <2> QED BY <2>3, <2>4, Clocks DEF Righting
<1> QED BY <1>1, <1>2, UpsetNext, PTL DEF Spec

=============================================================================
