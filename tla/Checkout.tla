------------------------------ MODULE Checkout ------------------------------
(***************************************************************************)
(* From an opened checkout to a paid or failed order, as production runs   *)
(* it: CheckoutService opens and closes, OrderService places the order and *)
(* completes it when its money has been captured, and the expiry sweeper   *)
(* releases what nobody paid for in time.                                  *)
(*                                                                         *)
(* Three of these read before they act.  Placing an order draws its lines  *)
(* from the HELD rows outside the transaction that stores the order.       *)
(* Closing lists the HELD rows and releases them one by one.  The sweeper  *)
(* lists the expired rows without locking them and then writes to them     *)
(* whatever they have become; its writes are blind, so the whole           *)
(* transaction takes effect at its commit.                                 *)
(*                                                                         *)
(* The shares of an order (SellerOrder rows) are created together and      *)
(* leave PAYMENT_PENDING together, so one status stands for them; what a   *)
(* seller does with a PAID share is not modelled here.  The payment is its *)
(* environment: "captured" is all an order ever learns of it.              *)
(***************************************************************************)
EXTENDS Reservation

CONSTANT BatchLimit     \* SWEEP_BATCH_LIMIT

ASSUME CheckoutAssumption == BatchLimit \in Nat \ {0}

VARIABLES
    batch,      \* rows the running sweep has listed, {} when none runs
    drafted,    \* lines an unfinished order request has drawn, per checkout
    lines,      \* the holds an order's items were drawn from
    share,      \* status of the order's shares, "NONE" before it is placed
    captured    \* its payment is PAID

orderVars == <<batch, drafted, lines, share, captured>>
checkoutVars == <<reservationVars, orderVars>>

ShareStatuses == {"NONE", "PAYMENT_PENDING", "PAID", "PAYMENT_FAILED"}

-----------------------------------------------------------------------------
(* Opening and closing a checkout; sellers and the clock.                  *)

OpenCheckout(c) == ReserveMany(c) /\ UNCHANGED orderVars

CloseCheckout(c) ==
    /\ ListHeld(c) \/ AbandonClose(c) \/ \E h \in Holds : ReleaseListed(c, h)
    /\ UNCHANGED orderVars

-----------------------------------------------------------------------------
(* OrderService.create.                                                    *)

\* No order for this checkout yet: its lines are the rows now HELD.
DrawLines(c) ==
    /\ share[c] = "NONE" /\ drafted[c] = {}
    /\ drafted' = [drafted EXCEPT ![c] = InCheckout(With("HELD"), c)]
    /\ UNCHANGED <<reservationVars, batch, lines, share, captured>>

\* The order is stored; the rows its lines came from are not looked at again.
StoreOrder(c) ==
    /\ share[c] = "NONE" /\ drafted[c] # {}
    /\ lines' = [lines EXCEPT ![c] = drafted[c]]
    /\ share' = [share EXCEPT ![c] = "PAYMENT_PENDING"]
    /\ drafted' = [drafted EXCEPT ![c] = {}]
    /\ UNCHANGED <<reservationVars, batch, captured>>

\* A coupon someone else used, a collision or a crash rolls the request back.
DropDraft(c) ==
    /\ drafted[c] # {}
    /\ drafted' = [drafted EXCEPT ![c] = {}]
    /\ UNCHANGED <<reservationVars, batch, lines, share, captured>>

\* Straight from the cart: the order reserves in the transaction storing it.
OrderFromCart(c) ==
    /\ share[c] = "NONE"
    /\ ReserveMany(c)
    /\ lines' = [lines EXCEPT ![c] = InCheckout(Holds, c)]
    /\ share' = [share EXCEPT ![c] = "PAYMENT_PENDING"]
    /\ UNCHANGED <<batch, drafted, captured>>

-----------------------------------------------------------------------------
(* The payment captures: it may be started for a PAYMENT_FAILED order too, *)
(* and one that was authorised in time may be captured late.               *)
Capture(c) ==
    /\ share[c] \in {"PAYMENT_PENDING", "PAYMENT_FAILED"} /\ ~captured[c]
    /\ captured' = [captured EXCEPT ![c] = TRUE]
    /\ UNCHANGED <<reservationVars, batch, drafted, lines, share>>

(* markPaid, by the payment that captured or by the straggler batch later: *)
(* nothing to do unless a share is pending; otherwise the checkout's holds *)
(* are confirmed, or had been, and the pending shares are PAID.            *)
Confirmed(c) ==
    /\ \A h \in InCheckout(Holds \ With("NONE"), c) : status[h] = "CONFIRMED"
    /\ UNCHANGED reservationVars

MarkPaid(c) ==
    /\ captured[c] /\ share[c] = "PAYMENT_PENDING"
    /\ ConfirmCheckout(c) \/ Confirmed(c)
    /\ share' = [share EXCEPT ![c] = "PAID"]
    /\ UNCHANGED <<batch, drafted, lines, captured>>

-----------------------------------------------------------------------------
(* ReservationSweeper.sweep; an advisory lock lets one run at a time.      *)

Expired == {h \in With("HELD") : timeLeft[h] < 0}

\* expiredHolds: the rows are read, not locked.
ListExpired ==
    /\ batch = {}
    /\ \E S \in SUBSET Expired :
          /\ Cardinality(S) <= BatchLimit
          /\ S # Expired => Cardinality(S) = BatchLimit
          /\ batch' = S
    /\ batch' # {}
    /\ UNCHANGED <<reservationVars, drafted, lines, share, captured>>

\* Faulty: whatever the share is by now.
StrandedAny == {c \in Checkouts : InCheckout(batch, c) # {}}

\* failOrders: the pending shares of the checkouts the listed rows are of.
Stranded == {c \in Checkouts :
               InCheckout(batch, c) # {} /\ share[c] = "PAYMENT_PENDING"}

\* The listed rows are settled as RELEASED whatever their status is by now.
ReleaseExpired ==
    /\ batch # {}
    /\ GiveBack(batch)
    /\ share' = [c \in Checkouts |->
                   IF c \in Stranded THEN "PAYMENT_FAILED" ELSE share[c]]
    /\ batch' = {}
    /\ UNCHANGED <<closing, drafted, lines, captured>>

(* The transaction is rolled back: "reserved" would have gone below zero,  *)
(* a share left PAYMENT_PENDING between listing and locking it, the        *)
(* database broke a deadlock, or the process died.                         *)
AbortSweep ==
    /\ batch # {}
    /\ batch' = {}
    /\ UNCHANGED <<reservationVars, drafted, lines, share, captured>>

-----------------------------------------------------------------------------
CheckoutInit ==
    /\ ReservationInit
    /\ batch = {}
    /\ drafted = [c \in Checkouts |-> {}]
    /\ lines = [c \in Checkouts |-> {}]
    /\ share = [c \in Checkouts |-> "NONE"]
    /\ captured = [c \in Checkouts |-> FALSE]

Shopper(c) ==
    \/ OpenCheckout(c) \/ CloseCheckout(c)
    \/ DrawLines(c) \/ StoreOrder(c) \/ DropDraft(c) \/ OrderFromCart(c)
    \/ Capture(c) \/ MarkPaid(c)

CheckoutNext ==
    \/ \E c \in Checkouts : Shopper(c)
    \/ ListExpired \/ ReleaseExpired \/ AbortSweep
    \/ \E v \in Variants : SellerMoves(v) /\ UNCHANGED orderVars
    \/ Tick /\ UNCHANGED orderVars

CheckoutSpec == CheckoutInit /\ [][CheckoutNext]_checkoutVars

(* Time passes, the sweeper's interval keeps firing (a run is rolled back  *)
(* now and then, never always), and what was captured is handed to         *)
(* markPaid again by the straggler batch until no share is pending.        *)
Fairness ==
    /\ WF_checkoutVars(Tick /\ UNCHANGED orderVars)
    /\ WF_checkoutVars(ListExpired)
    /\ SF_checkoutVars(ReleaseExpired)
    /\ \A c \in Checkouts : WF_checkoutVars(MarkPaid(c))

FairCheckoutSpec == CheckoutSpec /\ Fairness

-----------------------------------------------------------------------------
CheckoutTypeOK ==
    /\ TypeOK /\ WithinStock
    /\ batch \subseteq Holds
    /\ drafted \in [Checkouts -> SUBSET Holds]
    /\ lines \in [Checkouts -> SUBSET Holds]
    /\ share \in [Checkouts -> ShareStatuses]
    /\ captured \in [Checkouts -> BOOLEAN]

SoldRow(h) == Recorded(VariantOf[h], "RESERVE_CONFIRM", h)

(* A PAID order has every line deducted from stock, and each from a row of *)
(* its own checkout, however its holds were swept or closed meanwhile; and *)
(* stock leaves the shelf for no other order: a failed, closed or never    *)
(* placed one sells nothing, and a checkout is sold whole.                 *)
PaidIffSold ==
    /\ \A c \in Checkouts :
          share[c] = "PAID" => /\ \A h \in lines[c] : SoldRow(h)
                               /\ lines[c] \subseteq InCheckout(Holds, c)
    /\ \A h \in Holds :
          SoldRow(h) => /\ captured[CheckoutOf[h]]
                        /\ share[CheckoutOf[h]] = "PAID"
                        /\ \A g \in InCheckout(Holds \ With("NONE"), CheckoutOf[h]) : SoldRow(g)

(* No shopper is told a piece is gone while nobody holds it: the reserved  *)
(* counter may fall short of the HELD rows (see the sweeper), never exceed *)
(* them.                                                                   *)
NothingReservedInVain ==
    \A v \in Variants : reserved[v] <= Total(On(With("HELD"), v))

(* What an order's shares have become, PAID or PAYMENT_FAILED, they stay.  *)
OutcomeIsFinal ==
    [][\A c \in Checkouts :
          share[c] \in {"PAID", "PAYMENT_FAILED"} => share'[c] = share[c]]_share

(* docs/design/state-machines.md, section 3: an order whose money was      *)
(* captured is not wound back but finished.                                *)
CapturedIsFulfilled == \A c \in Checkouts : captured[c] ~> share[c] = "PAID"

=============================================================================
