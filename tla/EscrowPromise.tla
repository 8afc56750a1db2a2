--------------------------- MODULE EscrowPromise ---------------------------
(***************************************************************************)
(* What a Chama escrow promises its three parties, with no word of events, *)
(* dates, holds or substitution: it is agreed from the start who is paid   *)
(* on which verdict, the money is put up once, each chair holds one        *)
(* opinion, two equal opinions make the one verdict there will ever be,    *)
(* and only the party the verdict names is paid, once.                     *)
(***************************************************************************)
CONSTANTS
  Roles, Principals, Outcomes, NoVote, NoRole, NoOne

VARIABLES
  deal,      \* pays: who is paid on which verdict; returns: the funder is the
             \* one whom a REFUND pays
  funder,    \* who put the money up
  seats,     \* who sits in the three chairs
  opinions,  \* the opinion each chair holds
  verdict,
  payee,     \* the role paid
  stage      \* "open", "void", "awarded", "paid", "closed"

promiseVars == <<deal, funder, seats, opinions, verdict, payee, stage>>

\* The two verdicts pay the two principals.
Deals ==
  {d \in [pays : [Outcomes -> Principals], returns : BOOLEAN] :
     \A o, p \in Outcomes : o # p => d.pays[o] # d.pays[p]}

Silent == \A r \in Roles : opinions[r] = NoVote

Init ==
  /\ deal \in Deals
  /\ funder = NoOne
  /\ seats = [r \in Roles |-> NoOne]
  /\ opinions = [r \in Roles |-> NoVote]
  /\ verdict = NoVote
  /\ payee = NoRole
  /\ stage = "open"

\* Chairs are filled and refilled only while there is no money and no opinion.
Sit ==
  /\ stage = "open" /\ funder = NoOne /\ Silent
  /\ \E r \in Roles : \A q \in Roles \ {r} :
       seats'[q] # seats[q] => seats[q] = NoOne
  /\ UNCHANGED <<deal, funder, opinions, verdict, payee, stage>>

\* The money goes in once, before anybody has spoken, from one of the chairs:
\* where the deal says so, from the one a REFUND pays.
Fund ==
  /\ stage = "open" /\ funder = NoOne /\ Silent
  /\ \E r \in Roles : funder' = seats'[r]
  /\ deal.returns => funder' = seats'[deal.pays["REFUND"]]
  /\ \A r \in Roles : seats'[r] # NoOne
  /\ \A r, q \in Roles : r # q => seats'[r] # seats'[q]
  /\ UNCHANGED <<deal, opinions, verdict, payee, stage>>

\* A principal speaks once; the arbiter's chair may change hands and mind.
Opine ==
  /\ stage = "open"
  /\ \E r \in Roles, o \in Outcomes :
       /\ r \in Principals => opinions[r] = NoVote
       /\ opinions' = [opinions EXCEPT ![r] = o]
  /\ UNCHANGED <<deal, funder, seats, verdict, payee, stage>>

Award ==
  /\ stage = "open"
  /\ \E r, q \in Roles, o \in Outcomes :
       r # q /\ opinions[r] = o /\ opinions[q] = o /\ verdict' = o
  /\ stage' = "awarded"
  /\ UNCHANGED <<deal, funder, seats, opinions, payee>>

\* The principal the deal names for the verdict is paid.
Pay ==
  /\ stage = "awarded"
  /\ payee' = deal.pays[verdict]
  /\ stage' = "paid"
  /\ UNCHANGED <<deal, funder, seats, opinions, verdict>>

Close ==
  /\ stage = "paid" /\ stage' = "closed"
  /\ UNCHANGED <<deal, funder, seats, opinions, verdict, payee>>

\* Calling it off needs an empty escrow.
Void ==
  /\ stage = "open" /\ funder = NoOne /\ Silent
  /\ stage' = "void"
  /\ UNCHANGED <<deal, funder, seats, opinions, verdict, payee>>

Next == Sit \/ Fund \/ Opine \/ Award \/ Pay \/ Close \/ Void

Spec == Init /\ [][Next]_promiseVars

=============================================================================
