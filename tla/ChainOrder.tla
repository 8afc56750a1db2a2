------------------------------ MODULE ChainOrder ------------------------------
(***************************************************************************)
(* sortEventChain of event-parser.ts: the order in which a client replays  *)
(* the events of a trade it holds, whatever relays delivered them in       *)
(* whatever order.                                                         *)
(*                                                                         *)
(* An event names its predecessor, which the client may not have, and is   *)
(* dated by its signer, who may be wrong.  Consensus events are put in     *)
(* causal order, by date among those that could come next.  Transports     *)
(* (SETTLEMENT, and CHAT and PREMIUM alike) have no predecessor and are    *)
(* put between them by date; then two rules move some of them again.       *)
(*                                                                         *)
(* Ids are numbers here, compared like the code compares hashes.           *)
(***************************************************************************)
EXTENDS Integers, FiniteSets, Sequences, SequencesExt

CONSTANTS
  Casts,  \* the trades considered: the kinds of their events, by id
  Dates   \* the dates their signers may write

\* 38100, 38101, 38102, 38117 and 38106, by their priority on equal dates (five
\* and a half is 6 here), and what has none.
Priority == [CREATE |-> 0, JOIN |-> 2, LOCK |-> 3, STALLED |-> 6, COMPLETE |-> 7,
             CHAT |-> 99, SETTLEMENT |-> 99]
Kinds      == DOMAIN Priority
Transports == {"CHAT", "SETTLEMENT"}

ASSUME OrderAssumption ==
  /\ \A cast \in Casts : cast \in Seq(Kinds) /\ cast # <<>>
  /\ Dates \subseteq Nat

NoEvent == 0

VARIABLES
  signed, \* the events of the trade: kind, date, prev, and a COMPLETE's proof
  got,    \* the ids this client holds, in the order of their arrival
  chain   \* the order in which it replays them

vars == <<signed, got, chain>>

Ids      == DOMAIN signed
State(e) == signed[e].kind \notin Transports
Have     == Range(got)

Indices(cast) == {NoEvent} \cup DOMAIN cast

\* A predecessor was signed earlier: the hashes of events make no cycle.
Links(cast) ==
  {prev \in [DOMAIN cast -> Indices(cast)] :
     /\ \A e \in DOMAIN cast : prev[e] # NoEvent =>
          /\ cast[e] \notin Transports \cup {"CREATE"}
          /\ cast[prev[e]] \notin Transports
     /\ \E age \in [DOMAIN cast -> DOMAIN cast] :
          \A e \in DOMAIN cast : prev[e] # NoEvent => age[prev[e]] < age[e]}

\* The transport that a COMPLETE names.
Proofs(cast) ==
  {proof \in [DOMAIN cast -> Indices(cast)] :
     \A e \in DOMAIN cast : proof[e] # NoEvent =>
       cast[e] = "COMPLETE" /\ cast[proof[e]] = "SETTLEMENT"}

Init ==
  /\ \E cast \in Casts :
       \E prev \in Links(cast), proof \in Proofs(cast), date \in [DOMAIN cast -> Dates] :
         signed = [e \in DOMAIN cast |-> [kind |-> cast[e], date |-> date[e],
                                          prev |-> prev[e], proof |-> proof[e]]]
  /\ got = <<>> /\ chain = <<>>

-----------------------------------------------------------------------------
(* Which of two comes first                                                *)

\* Slip: kinds first, dates second.
EarlierSlip(e, f) ==
  LET a == signed[e] b == signed[f] IN
  \/ Priority[a.kind] < Priority[b.kind]
  \/ Priority[a.kind] = Priority[b.kind] /\ a.date < b.date
  \/ Priority[a.kind] = Priority[b.kind] /\ a.date = b.date /\ e < f

\* compare: by date, then kind, then id.
Earlier(e, f) ==
  LET a == signed[e] b == signed[f] IN
  \/ a.date < b.date
  \/ a.date = b.date /\ Priority[a.kind] < Priority[b.kind]
  \/ a.date = b.date /\ Priority[a.kind] = Priority[b.kind] /\ e < f

First(S) == CHOOSE e \in S : \A f \in S \ {e} : Earlier(e, f)

\* The elements of S, each the next of those that it leaves.
Ordered(S, Pick(_)) ==
  CHOOSE s \in [1 .. Cardinality(S) -> S] :
    \A i \in DOMAIN s : s[i] = Pick(S \ {s[j] : j \in 1 .. i - 1})

-----------------------------------------------------------------------------
(* The causal order of the consensus events                                *)

\* Of those left, the ones whose predecessor is not left too.
Ready(left) == {e \in left : signed[e].prev \notin left}

\* A CREATE that is ready goes before all.
Following(left) ==
  LET creates == {e \in Ready(left) : signed[e].kind = "CREATE"}
  IN First(IF creates # {} THEN creates ELSE Ready(left))

Sorted(S) == Ordered(S, Following)

-----------------------------------------------------------------------------
(* The transports                                                          *)

Place(all, e) == CHOOSE i \in DOMAIN all : all[i] = e

\* After the last event that is not dated later, and at the end if all are.
Interleaved(all, e) ==
  LET i == SelectLastInSeq(all, LAMBDA x : signed[x].date <= signed[e].date)
  IN InsertAt(all, IF i = 0 THEN Len(all) + 1 ELSE i + 1, e)

PutBefore(all, e, x) ==
  LET rest == RemoveAt(all, Place(all, e)) IN InsertAt(rest, Place(rest, x), e)

\* Slip: what was signed in the same second is left where it arrived.
PriorSlip(all, request) ==
  {e \in Range(all) : signed[e].kind = "SETTLEMENT" /\ signed[e].date < signed[request].date}

\* What a STALLED request is judged by.
Prior(all, request) ==
  {e \in Range(all) : signed[e].kind = "SETTLEMENT" /\ signed[e].date <= signed[request].date}

\* All of it goes right before the request, the first of it first.
Gather(all, request) ==
  FoldLeft(LAMBDA rest, e : PutBefore(rest, e, request), all,
           Ordered(Prior(all, request), First))

\* The proof a COMPLETE names goes right before it.
Prove(all, i) ==
  LET proof == signed[all[i]].proof
  IN IF proof \in Range(all) THEN PutBefore(all, proof, all[i]) ELSE all

\* Slip: an event whose predecessor is missing is left for the end.
SortEventChainSlip(events) ==
  LET consensus == {e \in Range(events) : State(e)}
      orphans   == {e \in consensus : signed[e].prev \notin {NoEvent} \cup consensus}
  IN Sorted(consensus \ orphans) \o Sorted(orphans)
       \o SelectSeq(events, LAMBDA e : ~ State(e))

SortEventChain(events) ==
  LET sorted   == Sorted({e \in Range(events) : State(e)})
      mixed    == FoldLeft(LAMBDA all, e : IF State(e) THEN all ELSE Interleaved(all, e),
                           sorted, events)
      gathered == FoldLeft(LAMBDA all, e : IF signed[e].kind = "STALLED"
                                           THEN Gather(all, e) ELSE all,
                           mixed, mixed)
  IN FoldLeftDomain(Prove, gathered, gathered)

-----------------------------------------------------------------------------

\* A relay delivers an event.  A second copy of it changes nothing.
Receive(e) ==
  /\ e \notin Have
  /\ got' = Append(got, e)
  /\ chain' = SortEventChain(got')
  /\ UNCHANGED signed

Next == \E e \in Ids : Receive(e)
Spec == Init /\ [][Next]_vars

-----------------------------------------------------------------------------
(* Properties                                                              *)

Before(e, f) == Place(chain, e) < Place(chain, f)
Consensus == {e \in Have : State(e)}
Of(kind)  == {e \in Have : signed[e].kind = kind}

\* An event and what it rests on, as far as the client holds the links: what is
\* in every set that holds the event and with each also its predecessor.
Line(e) ==
  LET whole == {S \in SUBSET Consensus :
                  e \in S /\ \A x \in S : signed[x].prev \in Have => signed[x].prev \in S}
  IN {f \in Consensus : \A S \in whole : f \in S}

\* "Causal parents first; among available branches use signed time": no event
\* is replayed before one it rests on, nor before an earlier one, unless that
\* one rests on an event which is not earlier and has to wait itself.
DatedUnlessCaused ==
  \A e, f \in Consensus : Before(e, f) =>
    /\ f \notin Line(e)
    /\ \/ signed[e].kind = "CREATE"
       \/ \E r \in Line(f) : ~ Before(r, e) /\ signed[e].date <= signed[r].date

\* Clients that hold different parts of a trade agree as far as they can: an
\* event that arrives late moves nothing but what rests on it, and that only
\* to a later place.
ArrivalOnlyDelays ==
  [][\A e, f \in Consensus :
       Before(e, f) /\ (Line(e))' \subseteq Have => Before(e, f)']_vars

\* "All transport already signed by its timestamp, independent of relay arrival
\* order": what precedes the only STALLED request is what is not dated later,
\* a proof that a COMPLETE takes to itself apart.
RequestSeesItsPast ==
  \A request \in Of("STALLED"), e \in Of("SETTLEMENT") :
    Of("STALLED") = {request} /\ (\A c \in Of("COMPLETE") : signed[c].proof # e) =>
      (Before(e, request) <=> signed[e].date <= signed[request].date)

=============================================================================
