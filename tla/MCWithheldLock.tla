--------------------------- MODULE MCWithheldLock ---------------------------
(***************************************************************************)
(* The funder's phone, which funded, and a laptop.                         *)
(***************************************************************************)
EXTENDS WithheldLock

CONSTANT laptop

OneOther == {laptop}

=============================================================================
