----------------------------- MODULE MCRefunds -----------------------------
(***************************************************************************)
(* Two orders of two shares each.                                          *)
(*                                                                         *)
(* First order: a line of three units cancelled by two claims, where the   *)
(* amounts do not divide by three and what is left falls below the         *)
(* threshold of free shipping; and a line of two units that comes back in  *)
(* two returns, before, after or around the confirmation that earns        *)
(* points.  The seller is at fault in both, and each gives the shipping    *)
(* fee back: together the claims come to more than was paid, so that the   *)
(* last may find too little left of the payment, or none.                  *)
(*                                                                         *)
(* Second order: a share without shipping fee, thanks to the threshold, of *)
(* a cheap line and another, each cancelled by a claim; and a share that   *)
(* is kept.                                                                *)
(***************************************************************************)
EXTENDS Refunds, TLC

CONSTANTS s1, s2, l1, l2, l3, c1, c2, c3, c4, none

MCShares == {s1, s2}

TwoLines   == {l1, l2}
LineShares == (l1 :> s1) @@ (l2 :> s2)
Quantities == (l1 :> 3) @@ (l2 :> 2)
Products1  == (l1 :> 8) @@ (l2 :> 7)
Coupons1   == (l1 :> 1) @@ (l2 :> 1)
Points1    == (l1 :> 2) @@ (l2 :> 1)
Charged1   == (s1 :> 1) @@ (s2 :> 4)
Standard1  == (s1 :> 2) @@ (s2 :> 4)
Threshold1 == (s1 :> 6) @@ (s2 :> none)
EarnRates1 == (s1 :> 0) @@ (s2 :> 50)
FourClaims == {c1, c2, c3, c4}
Claimed1   == (c1 :> s1) @@ (c2 :> s1) @@ (c3 :> s2) @@ (c4 :> s2)
Types1     == (c1 :> "CANCEL") @@ (c2 :> "CANCEL") @@ (c3 :> "RETURN") @@ (c4 :> "RETURN")
Units1     == (c1 :> ((l1 :> 1) @@ (l2 :> 0))) @@ (c2 :> ((l1 :> 2) @@ (l2 :> 0)))
              @@ (c3 :> ((l1 :> 0) @@ (l2 :> 1))) @@ (c4 :> ((l1 :> 0) @@ (l2 :> 1)))
Returns1   == (c1 :> 0) @@ (c2 :> 0) @@ (c3 :> 4) @@ (c4 :> 4)

ThreeLines  == {l1, l2, l3}
LineShares2 == (l1 :> s1) @@ (l2 :> s1) @@ (l3 :> s2)
Quantities2 == (l1 :> 1) @@ (l2 :> 1) @@ (l3 :> 1)
Products2   == (l1 :> 1) @@ (l2 :> 3) @@ (l3 :> 5)
NoCuts      == (l1 :> 0) @@ (l2 :> 0) @@ (l3 :> 0)
Charged2    == (s1 :> 0) @@ (s2 :> 0)
Standard2   == (s1 :> 3) @@ (s2 :> 3)
Threshold2  == (s1 :> 4) @@ (s2 :> none)
EarnRates2  == (s1 :> 0) @@ (s2 :> 0)
TwoClaims   == {c1, c2}
Claimed2    == (c1 :> s1) @@ (c2 :> s1)
Types2      == (c1 :> "CANCEL") @@ (c2 :> "CANCEL")
Units2      == (c1 :> ((l1 :> 1) @@ (l2 :> 0) @@ (l3 :> 0)))
               @@ (c2 :> ((l1 :> 0) @@ (l2 :> 1) @@ (l3 :> 0)))
Returns2    == (c1 :> 0) @@ (c2 :> 0)
=============================================================================
