------------------------------ MODULE Inventory ------------------------------
(***************************************************************************)
(* What the stock and the reservation services promise together, without   *)
(* counters, ledgers, clocks or row locks: pieces on a shelf, pieces of it *)
(* promised to a shopper, and a promise that ends once, as a sale or given *)
(* back.  Nothing is ever promised that is not on the shelf.               *)
(***************************************************************************)
EXTENDS Integers

CONSTANTS
    Variants,       \* what is sold
    Holds,          \* promises that may come to exist
    PiecesOf(_, _) \* pieces of a variant that a set of promises is for

VARIABLES
    onHand,   \* pieces of each variant on the shelf
    promise   \* "none", "open", "sold" or "returned", per hold

inventoryVars == <<onHand, promise>>

Promised(v) == PiecesOf({h \in Holds : promise[h] = "open"}, v)

InventoryInit ==
    /\ onHand \in [Variants -> Nat]
    /\ promise = [h \in Holds |-> "none"]

Turn(S, from, to) ==
    /\ \A h \in S : promise[h] = from
    /\ promise' = [h \in Holds |-> IF h \in S THEN to ELSE promise[h]]

\* All of S or none of it, and only what the shelf still covers.
PromiseAll(S) ==
    /\ Turn(S, "none", "open")
    /\ \A v \in Variants : onHand[v] >= Promised(v) + PiecesOf(S, v)
    /\ UNCHANGED onHand

SellAll(S) ==
    /\ Turn(S, "open", "sold")
    /\ onHand' = [v \in Variants |-> onHand[v] - PiecesOf(S, v)]

ReturnAll(S) ==
    /\ Turn(S, "open", "returned")
    /\ UNCHANGED onHand

\* The seller may change what is on the shelf, but not take what is promised.
Restate(v) ==
    /\ onHand' \in [Variants -> Nat]
    /\ onHand'[v] >= Promised(v)
    /\ \A u \in Variants \ {v} : onHand'[u] = onHand[u]
    /\ UNCHANGED promise

InventoryNext ==
    \/ \E S \in (SUBSET Holds) \ {{}} : PromiseAll(S) \/ SellAll(S) \/ ReturnAll(S)
    \/ \E v \in Variants : Restate(v)

InventorySpec == InventoryInit /\ [][InventoryNext]_inventoryVars

=============================================================================
