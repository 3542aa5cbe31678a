------------------------------ MODULE Holdings ------------------------------
(***************************************************************************)
(* The rows a shopper's stock holds are made of, before anything happens   *)
(* to them: which variant a StockReservation row is for, how many pieces   *)
(* it holds and which checkout attempt it belongs to.  None of the three   *)
(* columns is ever written again, so they are constants, and a hold that   *)
(* has not been created yet is one whose status is "NONE" (Reservation).   *)
(***************************************************************************)
EXTENDS Totals

CONSTANTS
    Holds,       \* StockReservation rows that may come to exist
    Checkouts,   \* checkoutId: one attempt to buy
    VariantOf,   \* StockReservation.variantId
    QuantityOf,  \* StockReservation.quantity, CHECK (quantity >= 1)
    CheckoutOf   \* StockReservation.checkoutId

(* A checkout's lines are on distinct variants: CartItem is unique on      *)
(* (cartId, variantId), and the direct-purchase request refuses two lines  *)
(* for one variant.                                                        *)
ASSUME HoldsAssumption ==
    /\ IsFiniteSet(Holds)
    /\ QuantityOf \in [Holds -> Nat \ {0}]
    /\ CheckoutOf \in [Holds -> Checkouts]
    /\ \A g, h \in Holds :
          (CheckoutOf[g] = CheckoutOf[h] /\ VariantOf[g] = VariantOf[h]) => g = h

\* The sum of "quantity" over the holds of S.
Total(S) == SumOver(S, QuantityOf)

On(S, v) == {h \in S : VariantOf[h] = v}

InCheckout(S, c) == {h \in S : CheckoutOf[h] = c}

\* Sets of holds with at most one per variant: what one transaction settles.
OnePerVariant(S) == \A g, h \in S : VariantOf[g] = VariantOf[h] => g = h

=============================================================================
