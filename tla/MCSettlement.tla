---------------------------- MODULE MCSettlement ----------------------------
(* One seller with two shares, of two units and of one, over three weeks.  *)
(* Of the unit of s2 more is kept than it was sold for: a coupon over its  *)
(* whole price, and the commission.                                        *)
EXTENDS Settlement, TLC

CONSTANTS q1, s1, s2, none

MCSellerOf == [s \in Shares |-> q1]
MCQuantity == (s1 :> 2) @@ (s2 :> 1)
MCPrice == (s1 :> 3) @@ (s2 :> 2)
MCCharges == (s1 :> 1) @@ (s2 :> 3)

=============================================================================
