---------------------------- MODULE RuntimeLease ----------------------------
(***************************************************************************)
(* One wallet runtime per seed: the cookie lease of browser-runtime-       *)
(* lease.ts, and what createRealWallet of sdk-adapter.ts does under it.    *)
(*                                                                         *)
(* Tabs of one browser share nothing but a cookie.  A tab that wants the   *)
(* wallet reads the cookie, writes a token of its own when the one there   *)
(* has expired, waits, and goes on when it finds its token still there.    *)
(* The owner looks at the cookie now and then: it renews it, and stands    *)
(* down when somebody else's live token is in it.                          *)
(*                                                                         *)
(* Time passes in ticks for everybody.  A read of the cookie and the write *)
(* it leads to are two steps, at most Delay ticks apart; a timer fires at  *)
(* most Gap ticks late.                                                    *)
(***************************************************************************)
EXTENDS Integers, FiniteSets

CONSTANTS
  Tabs,
  NoTab,       \* no token in the cookie
  TTL,         \* BROWSER_RUNTIME_LEASE_TTL_MS
  Heartbeat,   \* HEARTBEAT_MS
  Settle,      \* CLAIM_SETTLE_MS
  Gap,         \* how seldom a throttled tab's timer fires
  Delay,       \* between a read of the cookie and the write that follows it
  MaxTakeovers, \* bound: times the user takes the wallet over
  MaxSweeps,   \* bound: times the cookies are cleared
  MaxCrashes   \* bound: tabs that die

ASSUME LeaseAssumption ==
  /\ NoTab \notin Tabs
  /\ {TTL, Heartbeat, Settle, Gap, Delay, MaxTakeovers, MaxSweeps,
      MaxCrashes} \subseteq Nat
  /\ Delay < Settle /\ Settle <= Gap
  /\ 2 * Delay < Heartbeat /\ Heartbeat <= Gap
  /\ 2 * Gap + Delay < TTL

VARIABLES
  cookie,   \* whose token the cookie holds, and how long ago it was written
  lease,    \* how far each tab is
  wait,     \* ticks since it got there, or since its watchdog last ran
  written,  \* ticks since it last wrote the cookie: lastWriteAt
  runtime,  \* its WASM worker
  calm,     \* ticks since a live token was last overridden, or the cookie was
            \* last cleared under an owner
  takeovers, sweeps, crashes

vars == <<cookie, lease, wait, written, runtime, calm, takeovers, sweeps, crashes>>

NoCookie == [by |-> NoTab, age |-> 0]

\* "claim": found the cookie free.  "settle": wrote its token and waits.
\* "held": the owner.  "beat": the owner, about to renew.  "drop": about to
\* clear the cookie.
Holds(a)   == lease[a] \in {"held", "beat"}
Holders    == {a \in Tabs : Holds(a)}
Runtimes   == {a \in Tabs : runtime[a] = "up"}

\* How long it takes until everything is in order again after an upset: two
\* watchdogs of an owner, and a renewal and a claim that race with the first
\* one.
Righting == 2 * (Gap + Delay)

Lesser(x, y) == IF x <= y THEN x ELSE y

Init ==
  /\ cookie = NoCookie
  /\ lease = [a \in Tabs |-> "off"]
  /\ wait = [a \in Tabs |-> 0]
  /\ written = [a \in Tabs |-> 0]
  /\ runtime = [a \in Tabs |-> "none"]
  /\ calm = Righting + 1
  /\ takeovers = 0
  /\ sweeps = 0
  /\ crashes = 0

\* Slip: a record that can be read counts as live.
ActiveSlip == cookie.by # NoTab

\* browserRuntimeLeaseIsActive
Active == cookie.by # NoTab /\ cookie.age < TTL

\* Slip: the cookie holds the time it expires.
WriteLeaseSlip(a) == cookie' = [by |-> a, age |-> -TTL]

WriteLease(a) == cookie' = [by |-> a, age |-> 0]

Goto(a, where) ==
  /\ lease' = [lease EXCEPT ![a] = where]
  /\ wait' = [wait EXCEPT ![a] = 0]

Undisturbed == takeovers = 0 /\ sweeps = 0

-----------------------------------------------------------------------------
(* Acquiring: acquireBrowserRuntimeLease.                                  *)

\* A tab without the lease asks for it, a live cookie refuses it.
Ask(a) ==
  /\ lease[a] = "off"
  /\ ~Active
  /\ Goto(a, "claim")
  /\ UNCHANGED <<cookie, written, runtime, calm, takeovers, sweeps, crashes>>

\* "Use the wallet in this tab": the refusal is overridden, once.
TakeOver(a) ==
  /\ lease[a] = "off"
  /\ Active
  /\ takeovers < MaxTakeovers
  /\ takeovers' = takeovers + 1
  /\ calm' = 0
  /\ Goto(a, "claim")
  /\ UNCHANGED <<cookie, written, runtime, sweeps, crashes>>

WriteClaim(a) ==
  /\ lease[a] = "claim"
  /\ WriteLease(a)
  /\ written' = [written EXCEPT ![a] = 0]
  /\ Goto(a, "settle")
  /\ UNCHANGED <<runtime, calm, takeovers, sweeps, crashes>>

\* Slip: whoever wrote may go on.
StillMineSlip(a) == TRUE

StillMine(a) == cookie.by = a

\* Only the last visible token goes on to load the wallet.
ReadBack(a) ==
  /\ lease[a] = "settle" /\ wait[a] >= Settle
  /\ IF StillMine(a)
     THEN /\ Goto(a, "held")
          /\ runtime' = [runtime EXCEPT ![a] = "loading"]
     ELSE /\ Goto(a, "off")
          /\ UNCHANGED runtime
  /\ UNCHANGED <<cookie, written, calm, takeovers, sweeps, crashes>>

-----------------------------------------------------------------------------
(* The watchdog.                                                           *)

\* Slip: the owner never gives way.
TakenFromSlip(a) == FALSE

TakenFrom(a) == Active /\ cookie.by # a

\* Standing down terminates the worker there is; one that is still to be made
\* is not there.
StandDown(a) ==
  /\ lease[a] = "held" /\ TakenFrom(a)
  /\ Goto(a, "off")
  /\ runtime' = [runtime EXCEPT ![a] = IF @ = "up" THEN "none" ELSE @]
  /\ UNCHANGED <<cookie, written, calm, takeovers, sweeps, crashes>>

\* A missing cookie is renewed at once, any other when the heartbeat is due.
Watch(a) ==
  /\ lease[a] = "held" /\ ~TakenFrom(a)
  /\ Goto(a, IF written[a] >= Heartbeat \/ cookie.by = NoTab THEN "beat" ELSE "held")
  /\ UNCHANGED <<cookie, written, runtime, calm, takeovers, sweeps, crashes>>

Renew(a) ==
  /\ lease[a] = "beat"
  /\ WriteLease(a)
  /\ written' = [written EXCEPT ![a] = 0]
  /\ lease' = [lease EXCEPT ![a] = "held"]
  /\ UNCHANGED <<wait, runtime, calm, takeovers, sweeps, crashes>>

-----------------------------------------------------------------------------
(* The wallet under the lease: createRealWallet.                           *)

\* The worker is registered, lease or no lease.
Start(a) ==
  /\ runtime[a] = "loading"
  /\ runtime' = [runtime EXCEPT ![a] = "up"]
  /\ UNCHANGED <<cookie, lease, wait, written, calm, takeovers, sweeps, crashes>>

\* The owner may initialize again: the old worker goes first.
Reload(a) ==
  /\ Holds(a)
  /\ runtime' = [runtime EXCEPT ![a] = "loading"]
  /\ UNCHANGED <<cookie, lease, wait, written, calm, takeovers, sweeps, crashes>>

\* cleanup, a failed initialization, another identity: the worker is
\* terminated and the lease handed back if the cookie still holds it.
Close(a) ==
  /\ runtime[a] # "none" /\ lease[a] \in {"off", "held"}
  /\ runtime' = [runtime EXCEPT ![a] = "none"]
  /\ Goto(a, IF lease[a] = "held" /\ StillMine(a) THEN "drop" ELSE "off")
  /\ UNCHANGED <<cookie, written, calm, takeovers, sweeps, crashes>>

Drop(a) ==
  /\ lease[a] = "drop"
  /\ cookie' = NoCookie
  /\ calm' = IF Holders = {} THEN calm ELSE 0
  /\ Goto(a, "off")
  /\ UNCHANGED <<written, runtime, takeovers, sweeps, crashes>>

-----------------------------------------------------------------------------
(* The browser.                                                            *)

\* pagehide never fires for a tab that is killed.
Crash(a) ==
  /\ crashes < MaxCrashes
  /\ crashes' = crashes + 1
  /\ lease[a] # "off" \/ runtime[a] # "none"
  /\ Goto(a, "off")
  /\ runtime' = [runtime EXCEPT ![a] = "none"]
  /\ UNCHANGED <<cookie, written, calm, takeovers, sweeps>>

\* The user clears the cookies.
Sweep ==
  /\ cookie # NoCookie
  /\ sweeps < MaxSweeps
  /\ sweeps' = sweeps + 1
  /\ calm' = 0
  /\ cookie' = NoCookie
  /\ UNCHANGED <<lease, wait, written, runtime, takeovers, crashes>>

\* Nobody sleeps longer than his timers allow.
Tick ==
  /\ \A a \in Tabs :
       /\ lease[a] \in {"claim", "beat", "drop"} => wait[a] < Delay
       /\ lease[a] \in {"settle", "held"} => wait[a] < Gap
  /\ cookie' = IF cookie.by = NoTab THEN cookie
               ELSE [cookie EXCEPT !.age = Lesser(TTL, @ + 1)]
  /\ wait' = [a \in Tabs |-> IF lease[a] = "off" THEN 0 ELSE wait[a] + 1]
  /\ written' = [a \in Tabs |-> IF lease[a] = "off" THEN 0
                                ELSE Lesser(Heartbeat, written[a] + 1)]
  /\ calm' = Lesser(Righting + 1, calm + 1)
  /\ UNCHANGED <<lease, runtime, takeovers, sweeps, crashes>>

-----------------------------------------------------------------------------

Acquire(a)  == Ask(a) \/ TakeOver(a) \/ WriteClaim(a) \/ ReadBack(a)
Watchdog(a) == StandDown(a) \/ Watch(a) \/ Renew(a)
Wallet(a)   == Start(a) \/ Reload(a) \/ Close(a) \/ Drop(a)

Next ==
  \/ \E a \in Tabs : Acquire(a) \/ Watchdog(a) \/ Wallet(a) \/ Crash(a)
  \/ Sweep
  \/ Tick

Spec == Init /\ [][Next]_vars

\* Time passes, timers fire, and a user who was refused taps Reconnect again.
FairSpec ==
  /\ Spec
  /\ WF_vars(Tick)
  /\ \A a \in Tabs : /\ WF_vars(Ask(a))
                     /\ WF_vars(WriteClaim(a))
                     /\ WF_vars(ReadBack(a))
                     /\ WF_vars(StandDown(a) \/ Watch(a))
                     /\ WF_vars(Renew(a))
                     /\ WF_vars(Drop(a))

-----------------------------------------------------------------------------
(* Properties.                                                             *)

\* Every variable holds a value of its kind.
TypeOK ==
  /\ cookie \in [by : Tabs \cup {NoTab}, age : 0..TTL]
  /\ lease \in [Tabs -> {"off", "claim", "settle", "held", "beat", "drop"}]
  /\ wait \in [Tabs -> 0..Gap]
  /\ written \in [Tabs -> 0..Heartbeat]
  /\ runtime \in [Tabs -> {"none", "loading", "up"}]
  /\ calm \in 0..(Righting + 1)
  /\ takeovers \in 0..MaxTakeovers
  /\ sweeps \in 0..MaxSweeps
  /\ crashes \in 0..MaxCrashes

\* As long as nobody takes over or clears the cookies, one seed drives at most
\* one runtime: whoever opens tabs at the same moment, however slow their
\* timers are and whichever of them dies.
OneRuntime ==
  Undisturbed => \A a, b \in Runtimes : a = b

\* After a takeover, or when the cookie was cleared under a live owner, the
\* tabs agree again on one owner before long: no two tabs go on renewing the
\* lease against each other.
RightedInTime ==
  calm > Righting => \A a, b \in Holders : a = b

\* A dead owner, or a contender that died with its token in the cookie, does
\* not keep the wallet from the tabs that live.
SomebodyServes == []<>(Holders # {})

-----------------------------------------------------------------------------
(* What a comment of the code says, and the code does not do.              *)

\* sdk-adapter.ts: a takeover can never leave two WASM runtimes on one seed.
TakeoverLeavesOne ==
  calm > Righting => \A a, b \in Runtimes : a = b

=============================================================================
