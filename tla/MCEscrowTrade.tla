--------------------------- MODULE MCEscrowTrade ---------------------------
(***************************************************************************)
(* Finite instances of EscrowTrade for TLC.                                *)
(***************************************************************************)
EXTENDS EscrowTrade

CONSTANTS ann, sam, bea, ivy, jon, kim, zed, cart, crate

Listing(category, child, menu, rules) ==
  [category |-> category, child |-> child, menu |-> menu, community |-> TRUE,
   rules |-> rules,
   creator |-> IF child \/ category = "lending" THEN ann ELSE sam,
   seller |-> sam]

\* A storefront purchase: both principals are seated from the start, so the
\* LOCK comes at once and the run spends its states on the votes.  Under the
\* December rules its shares may be withheld.
DisputeListings == {Listing("marketplace", TRUE, FALSE, r) : r \in {1, 2}}
DisputeUsers    == {ann, sam, ivy, jon, kim}
DisputePool     == <<ivy, jon, kim>>
DisputeTimes    == {1, 4, 8}
DisputeGraces   == {3}

\* Open listings, whose seats are taken on timed holds and whose orders are
\* finalized, and the smallest disputes in which a RESOLVE can come too late.
BookingListings == {Listing("marketplace", TRUE, FALSE, 2),
                    Listing("p2p-trade", FALSE, TRUE, 1),
                    Listing("marketplace", FALSE, FALSE, 1),
                    Listing("lending", FALSE, FALSE, 0)}
BookingUsers    == {ann, sam, bea, ivy, jon}
BookingPool     == <<ivy, jon>>
BookingTimes    == {0, 2, 4, 8}

\* Bound of the dispute runs: the seats of the CREATE are not put on hold by a
\* JOIN of their own (the booking run does that).
SeatsStand == hold = NoHold

\* Bound of the booking run: an open listing is followed to its first vote, and
\* a storefront purchase as above.
Unvoted == IF listing.child THEN SeatsStand ELSE \A u \in Users : ballot[u] = NoBallot

NoBonded  == <<>>
OneBonded == <<jon>>
NoOrders  == {}
TwoOrders == {cart, crate}

=============================================================================
