----------------------------- MODULE MCCheckout -----------------------------
(***************************************************************************)
(* Two checkouts on a scarce variant; the first has a line on another one  *)
(* too.  The sweeper takes at most two rows at a time, so a checkout's     *)
(* rows may end up in two of its batches.                                  *)
(***************************************************************************)
EXTENDS Checkout, TLC

CONSTANTS v1, v2, h1, h2, h3, c1, c2, none

MCVariants  == {v1, v2}
MCHolds     == {h1, h2, h3}
MCCheckouts == {c1, c2}

MCVariantOf  == (h1 :> v1) @@ (h2 :> v2) @@ (h3 :> v1)
MCQuantityOf == (h1 :> 1) @@ (h2 :> 1) @@ (h3 :> 1)
MCCheckoutOf == (h1 :> c1) @@ (h2 :> c1) @@ (h3 :> c2)

MCOpeningStock == (v1 :> 2) @@ (v2 :> 1)

\* One checkout with one line: what the counterexamples need.
OneVariant   == {v1}
OneHold      == {h1}
OneCheckout  == {c1}
OneVariantOf  == (h1 :> v1)
OneQuantityOf == (h1 :> 1)
OneCheckoutOf == (h1 :> c1)
OneOpening    == (v1 :> 1)
=============================================================================
