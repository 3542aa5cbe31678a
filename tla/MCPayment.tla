------------------------------ MODULE MCPayment ------------------------------
(* One order and two payments for it, one after the other, each with any   *)
(* of three methods: Toss or one of two virtual cards.                     *)
EXTENDS Payment, TLC

CONSTANTS o1, p1, p2, card, card2, toss, none

MCOrderOf == [p \in Payments |-> o1]
MCProviderOf ==
    (card :> "VIRTUAL_CARD") @@ (card2 :> "VIRTUAL_CARD") @@ (toss :> "TOSS")

==============================================================================
