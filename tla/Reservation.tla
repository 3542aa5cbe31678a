----------------------------- MODULE Reservation -----------------------------
(***************************************************************************)
(* ReservationService (apps/api/src/reservation): taking stock out of sale *)
(* for a shopper, turning a hold into a sale, giving it back.              *)
(*                                                                         *)
(* Reserving is one conditional UPDATE (or an UPDATE under ordered row     *)
(* locks) and confirming and releasing read the reservation row under its  *)
(* lock, so each of those transactions is one atomic step.  Closing a      *)
(* checkout is not: it lists the HELD rows without a lock and then         *)
(* releases them in one transaction each.                                  *)
(*                                                                         *)
(* The expiry sweeper is not here: it settles rows it read without their   *)
(* locks, and module Checkout adds it.                                     *)
(***************************************************************************)
EXTENDS Stock, Holdings

CONSTANTS
    TTL       \* RESERVATION_TTL_MS, in ticks of the clock

ASSUME ReservationAssumption ==
    /\ Holds \subseteq Refs
    /\ VariantOf \in [Holds -> Variants]
    /\ TTL \in Nat \ {0}

VARIABLES
    status,      \* StockReservation.status, "NONE" before the row exists
    timeLeft,    \* StockReservation.expiresAt, as ticks from now; -1 is past
    closing      \* rows an unfinished releaseCheckout has still to visit

holdVars == <<status, timeLeft, closing>>
reservationVars == <<stockVars, holdVars>>

Statuses == {"NONE", "HELD", "CONFIRMED", "RELEASED"}

With(s) == {h \in Holds : status[h] = s}

-----------------------------------------------------------------------------
\* Faulty: what others hold is counted as free.
AvailableStock(v) == stock[v]

(* Stock that is neither sold nor promised (reservation-rules.ts).         *)
Available(v) == stock[v] - reserved[v]

\* Faulty: a row settled the other way is settled again.
SettlementLoose(h, target) == IF status[h] = target THEN "noop" ELSE "apply"

\* apply, noop or refuse, by the state the locked row is in.
Settlement(h, target) ==
    IF status[h] = "HELD" THEN "apply"
    ELSE IF status[h] = target THEN "noop" ELSE "refuse"

(* The rows of S are created HELD and their quantities reserved; one       *)
(* variant that is short refuses all of them.                              *)
Reserve(S) ==
    /\ S \subseteq With("NONE") /\ S # {}
    /\ \A v \in {VariantOf[h] : h \in S} : Available(v) >= Total(On(S, v))
    /\ reserved' = [v \in Variants |-> reserved[v] + Total(On(S, v))]
    /\ status' = [h \in Holds |-> IF h \in S THEN "HELD" ELSE status[h]]
    /\ timeLeft' = [h \in Holds |-> IF h \in S THEN TTL ELSE timeLeft[h]]
    /\ UNCHANGED <<stock, ledger, closing>>

\* Faulty: the row is settled and its quantity stays reserved.
SettleRowOnly(S, target) ==
    /\ status' = [h \in Holds |-> IF h \in S THEN target ELSE status[h]]
    /\ UNCHANGED reserved

(* The rows of S stop being held: their quantities leave "reserved" and    *)
(* they are settled as the target.                                         *)
Settle(S, target) ==
    /\ \A v \in Variants : reserved[v] >= Total(On(S, v))
    /\ reserved' = [v \in Variants |-> reserved[v] - Total(On(S, v))]
    /\ status' = [h \in Holds |-> IF h \in S THEN target ELSE status[h]]

(* Both counters fall by the same amount and each row of S leaves one      *)
(* RESERVE_CONFIRM in its variant's ledger; S has one row per variant.     *)
SaleOf(h) == Entry(VariantOf[h], "RESERVE_CONFIRM", -QuantityOf[h], h)

Sell(S) ==
    /\ \A h \in S : /\ stock[VariantOf[h]] >= QuantityOf[h]
                    /\ ~Recorded(VariantOf[h], "RESERVE_CONFIRM", h)
    /\ stock' = [v \in Variants |-> stock[v] - Total(On(S, v))]
    /\ ledger' = [v \in Variants |->
                    IF On(S, v) = {} THEN ledger[v]
                    ELSE Append(ledger[v], SaleOf(CHOOSE h \in On(S, v) : TRUE))]
    /\ Settle(S, "CONFIRMED")
    /\ UNCHANGED <<timeLeft, closing>>

GiveBack(S) ==
    /\ Settle(S, "RELEASED")
    /\ UNCHANGED <<stock, ledger, timeLeft>>

-----------------------------------------------------------------------------
\* hold: one row in a transaction of its own.
Hold(h) == Reserve({h})

\* reserveMany: all the lines of a checkout or none.
ReserveMany(c) == Reserve(InCheckout(Holds, c))

\* confirm: a hold past its time is still confirmed while it is HELD.
Confirm(h) ==
    /\ Settlement(h, "CONFIRMED") = "apply"
    /\ Sell({h})

\* Faulty: a released row is dropped from the sale.
ConfirmHeldRows(c) ==
    LET held == InCheckout(With("HELD"), c) IN held # {} /\ Sell(held)

\* confirmCheckout: one released row refuses the whole checkout.
ConfirmCheckout(c) ==
    LET rows == InCheckout(Holds \ With("NONE"), c)
        held == {h \in rows : Settlement(h, "CONFIRMED") = "apply"}
    IN /\ \A h \in rows : Settlement(h, "CONFIRMED") # "refuse"
       /\ held # {}
       /\ Sell(held)

Release(h) ==
    /\ Settlement(h, "RELEASED") = "apply"
    /\ GiveBack({h})
    /\ UNCHANGED closing

\* releaseCheckout, the listing: HELD rows at that moment, no lock taken.
ListHeld(c) ==
    /\ closing[c] = {}
    /\ closing' = [closing EXCEPT ![c] = InCheckout(With("HELD"), c)]
    /\ UNCHANGED <<stockVars, status, timeLeft>>

(* releaseCheckout, one listed row: released if it is still HELD; if it    *)
(* was released meanwhile nothing is left to do, and if it was confirmed   *)
(* the refusal is swallowed and the loop goes on.                          *)
ReleaseListed(c, h) ==
    /\ h \in closing[c]
    /\ closing' = [closing EXCEPT ![c] = @ \ {h}]
    /\ \/ /\ Settlement(h, "RELEASED") = "apply"
          /\ GiveBack({h})
       \/ /\ Settlement(h, "RELEASED") # "apply"
          /\ UNCHANGED <<stockVars, status, timeLeft>>

\* Any other error ends the loop with the rest of the rows still held.
AbandonClose(c) ==
    /\ closing[c] # {}
    /\ closing' = [closing EXCEPT ![c] = {}]
    /\ UNCHANGED <<stockVars, status, timeLeft>>

\* extend: one conditional UPDATE, exclusive with the sweeper's condition.
Extend(h) ==
    /\ status[h] = "HELD" /\ timeLeft[h] > 0
    /\ timeLeft' = [timeLeft EXCEPT ![h] = TTL]
    /\ UNCHANGED <<stockVars, status, closing>>

\* What a seller may do to stock meanwhile (seller-product, product).
SellerMoves(v) ==
    /\ \/ \E type \in {"INBOUND", "ADJUST"}, quantity \in Deltas :
             Apply(v, type, quantity, NoRef)
       \/ \E level \in 0 .. MaxLevel : SetLevel(v, level)
    /\ UNCHANGED holdVars

(* Time passes.  Only HELD rows are ever compared with the clock, and      *)
(* only for before or after, so the distance is counted down to "past".    *)
Ageing == {h \in With("HELD") : timeLeft[h] > -1}

Tick ==
    /\ Ageing # {}
    /\ timeLeft' = [h \in Holds |-> IF h \in Ageing THEN timeLeft[h] - 1 ELSE timeLeft[h]]
    /\ UNCHANGED <<stockVars, status, closing>>

-----------------------------------------------------------------------------
ReservationInit ==
    /\ stock = OpeningStock
    /\ reserved = [v \in Variants |-> 0]
    /\ ledger = [v \in Variants |-> Open(v)]
    /\ status = [h \in Holds |-> "NONE"]
    /\ timeLeft = [h \in Holds |-> 0]
    /\ closing = [c \in Checkouts |-> {}]

HoldStep(h) == Hold(h) \/ Confirm(h) \/ Release(h) \/ Extend(h)

CheckoutStep(c) ==
    \/ ReserveMany(c) \/ ConfirmCheckout(c) \/ ListHeld(c) \/ AbandonClose(c)
    \/ \E h \in Holds : ReleaseListed(c, h)

ReservationNext ==
    \/ \E h \in Holds : HoldStep(h)
    \/ \E c \in Checkouts : CheckoutStep(c)
    \/ \E v \in Variants : SellerMoves(v)
    \/ Tick

ReservationSpec == ReservationInit /\ [][ReservationNext]_reservationVars

-----------------------------------------------------------------------------
TypeOK ==
    /\ StockTypeOK
    /\ status \in [Holds -> Statuses]
    /\ timeLeft \in [Holds -> -1 .. TTL]
    /\ closing \in [Checkouts -> SUBSET Holds]

(* "reserved" is the total of the HELD rows, expired ones included: what   *)
(* ReservationService.reconcile looks for in production.                   *)
ReservedIsHeld ==
    \A v \in Variants : reserved[v] = Total(On(With("HELD"), v))

\* The ledger rows that are the sale of a hold.
SalesOf(h) ==
    LET l == ledger[VariantOf[h]]
    IN {i \in DOMAIN l : l[i].type = "RESERVE_CONFIRM" /\ l[i].ref = h}

(* A hold has a sale in the ledger exactly when it is CONFIRMED, only one, *)
(* and for exactly its quantity: no sale is lost, none is taken twice.     *)
SoldOnce ==
    \A h \in Holds :
       /\ status[h] = "CONFIRMED" <=> SalesOf(h) # {}
       /\ \A i, j \in SalesOf(h) : i = j
       /\ \A i \in DOMAIN ledger[VariantOf[h]] :
             ledger[VariantOf[h]][i].ref = h =>
                ledger[VariantOf[h]][i].quantity = -QuantityOf[h]

(* What a shopper holds can always be sold to them, whatever sellers and   *)
(* other shoppers do: the stock of its variant covers it together with     *)
(* every other hold on that variant.                                       *)
HeldIsSellable ==
    \A h \in With("HELD") :
       stock[VariantOf[h]] >= Total(On(With("HELD"), VariantOf[h]))

(* Neither CONFIRMED nor RELEASED ever changes again                       *)
(* (docs/design/state-machines.md, section 2).                             *)
SettledIsFinal ==
    [][\A h \in Holds :
          status[h] \in {"CONFIRMED", "RELEASED"} => status'[h] = status[h]]_status

-----------------------------------------------------------------------------
(* The services implement Inventory: a HELD row is an open promise.        *)
PromiseOf(s) ==
    CASE s = "NONE" -> "none" [] s = "HELD" -> "open"
      [] s = "CONFIRMED" -> "sold" [] s = "RELEASED" -> "returned"

TotalOn(S, v) == Total(On(S, v))

Shelf == INSTANCE Inventory
         WITH PiecesOf <- TotalOn, onHand <- stock,
              promise <- [h \in Holds |-> PromiseOf(status[h])]

(* Every step of the services is a step of the promise they make.          *)
ImplementsInventory == Shelf!InventorySpec

=============================================================================
