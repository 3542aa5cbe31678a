------------------------------- MODULE Ordered -------------------------------
(***************************************************************************)
(* Sets of numbers listed in ascending order, and what is left of a queue  *)
(* when some of its places are dropped: definitions without recursion,     *)
(* which the proofs can use.                                               *)
(***************************************************************************)
EXTENDS Naturals, FiniteSets, Sequences

Ascending(ids) == \A i, j \in DOMAIN ids : i < j => ids[i] < ids[j]

Lists(ids, S) == Ascending(ids) /\ S = {ids[i] : i \in DOMAIN ids}

\* SELECT ... ORDER BY "id"
InIdOrder(S) == CHOOSE ids \in [1 .. Cardinality(S) -> S] : Lists(ids, S)

\* The entries of the queue at these places, in the order they have there.
Kept(queue, places) ==
    [n \in 1 .. Cardinality(places) |-> queue[InIdOrder(places)[n]]]

=============================================================================
