------------------------------- MODULE Totals -------------------------------
(***************************************************************************)
(* The sum of a quantity over a set of rows, as the cardinality of the set *)
(* of pieces the rows are for: a definition without recursion, which the   *)
(* proofs can use.                                                         *)
(***************************************************************************)
EXTENDS Integers, FiniteSets

Pieces(h, quantity) == {h} \X (1 .. quantity[h])

Units(S, quantity) == UNION {Pieces(h, quantity) : h \in S}

SumOver(S, quantity) == Cardinality(Units(S, quantity))

=============================================================================
