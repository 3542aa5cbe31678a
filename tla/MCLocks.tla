-------------------------------- MODULE MCLocks --------------------------------
(* Two variants and one order that has both: its holds were created in the *)
(* opposite order of the variants' ids, and it has a share of each of two  *)
(* sellers.                                                                *)
EXTENDS Locks

CONSTANTS s1, s2, s3    \* the sessions

MCVariantOf == (1 :> 2) @@ (2 :> 1)
MCOrderOf == (1 :> 1) @@ (2 :> 1)
MCShareOf == (1 :> 1) @@ (2 :> 1)

================================================================================
