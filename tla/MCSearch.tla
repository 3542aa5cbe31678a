------------------------------ MODULE MCSearch ------------------------------
(***************************************************************************)
(* Two products on sale, read two events at a time, so that a product's    *)
(* events are collapsed in one batch and parted between two.               *)
(***************************************************************************)
EXTENDS SearchOutbox

CONSTANTS p1, p2
=============================================================================
