---------------------------- MODULE MCReservation ----------------------------
(***************************************************************************)
(* Two checkouts that compete for two variants: the first wants both, the  *)
(* second one piece of the scarce variant.  Stock is such that not all the *)
(* holds fit, sellers restock by one and may try to take two away.         *)
(***************************************************************************)
EXTENDS Reservation, TLC

CONSTANTS v1, v2, h1, h2, h3, c1, c2, none

MCVariants  == {v1, v2}
MCHolds     == {h1, h2, h3}
MCCheckouts == {c1, c2}

MCVariantOf  == (h1 :> v1) @@ (h2 :> v2) @@ (h3 :> v1)
MCQuantityOf == (h1 :> 2) @@ (h2 :> 1) @@ (h3 :> 1)
MCCheckoutOf == (h1 :> c1) @@ (h2 :> c1) @@ (h3 :> c2)

MCOpeningStock == (v1 :> 2) @@ (v2 :> 1)
MCDeltas == {-1, 1}
=============================================================================
