------------------------------ MODULE MCClaims ------------------------------
(***************************************************************************)
(* One share with a line of two units and a line of one, and two of three  *)
(* claims on it: the first is for a unit of each line and the second for   *)
(* the other unit of the first, so that together they cancel or return the *)
(* share; the third is for all of it and competes with either.  The second *)
(* is refused each time its refund is tried, and the retry job takes one   *)
(* claim at a time, so that the second may keep it from the first.         *)
(***************************************************************************)
EXTENDS Claims, TLC

CONSTANTS s1, v1, v2, c1, c2, c3, i1, i2, i3, i4, i5, sale, none

MCShares == {s1}
MCVariants == {v1, v2}
MCClaimIds == {c1, c2, c3}
MCClaimItems == {i1, i2, i3, i4, i5}
MCRefs == {i1, i2, i3, i4, i5, sale}
MCShareOf == (c1 :> s1) @@ (c2 :> s1) @@ (c3 :> s1)
MCItemClaim == (i1 :> c1) @@ (i2 :> c1) @@ (i3 :> c2) @@ (i4 :> c3) @@ (i5 :> c3)
MCItemVariant == (i1 :> v1) @@ (i2 :> v2) @@ (i3 :> v1) @@ (i4 :> v1) @@ (i5 :> v2)
MCItemQuantity == (i1 :> 1) @@ (i2 :> 1) @@ (i3 :> 1) @@ (i4 :> 2) @@ (i5 :> 1)
MCSoldIn == (v1 :> s1) @@ (v2 :> s1)
MCOrdered == (v1 :> 2) @@ (v2 :> 1)
MCOpeningStock == (v1 :> 2) @@ (v2 :> 1)
=============================================================================
