------------------------------ MODULE Refunds ------------------------------
(***************************************************************************)
(* The refund of a claim (apps/api/src/claims: RefundService.settleWithin, *)
(* refund-calc, refund-plan, DiscountRestoreService): what it comes to,    *)
(* and the one transaction in which points and coupon are given back,      *)
(* earned points are taken back, the provider is asked for the money and   *)
(* the books are written.                                                  *)
(*                                                                         *)
(* The transaction locks the claim and its share, then the buyer's point   *)
(* account where points move, then the payment, and reads what others have *)
(* committed by then; so refunds of two shares of one order overlap.  The  *)
(* provider is asked inside of it: what fails or stops after the answer    *)
(* rolls back the books and not the money, and the claim is tried again.   *)
(***************************************************************************)
EXTENDS Totals, FiniteSetsExt

CONSTANTS
    Shares,          \* the SellerOrders of one order
    Lines,           \* its OrderItems
    LineShare,       \* OrderItem.sellerOrderId
    Quantity,        \* OrderItem.quantity
    Product,         \* OrderItem.productAmount
    CouponCut,       \* OrderItem.couponDiscountAmount
    PointCut,        \* OrderItem.pointDiscountAmount
    Charged,         \* SellerOrder.shippingFee
    Standard,        \* Seller.shippingFee
    Threshold,       \* Seller.freeShippingThreshold, or NoThreshold
    NoThreshold,
    CouponReach,     \* shares the order's coupon was used on
    EarnRate,        \* percent of the paid amount that confirming a share earns
    Claims,          \* approved ClaimRequests, whose refunds are due
    ClaimShare,      \* ClaimRequest.sellerOrderId
    Type,            \* ClaimRequest.type
    ClaimUnits,      \* ClaimItem.quantity, 0 for lines not claimed
    ReturnShipping,  \* ReturnDetail: shipping given back minus the deduction
    OpeningBalance,  \* PointAccount.balance
    Room,            \* what the provider lets be given back in all
    MaxLost          \* bound: transactions that fail or are stopped

(* The CHECKs on OrderItem (quantity >= 1, discounts within the product    *)
(* amount), SellerOrder, PointAccount and ClaimItem, and their references; *)
(* and there is a claim to refund.                                         *)
ASSUME RefundsAssumption ==
    /\ IsFiniteSet(Shares) /\ IsFiniteSet(Lines)
    /\ IsFiniteSet(Claims) /\ Claims # {}
    /\ LineShare \in [Lines -> Shares] /\ ClaimShare \in [Claims -> Shares]
    /\ CouponReach \subseteq Shares
    /\ Quantity \in [Lines -> Nat \ {0}]
    /\ {Product, CouponCut, PointCut} \subseteq [Lines -> Nat]
    /\ \A l \in Lines : CouponCut[l] + PointCut[l] <= Product[l]
    /\ {Charged, Standard, EarnRate} \subseteq [Shares -> Nat]
    /\ ClaimUnits \in [Claims -> [Lines -> Nat]]
    /\ ReturnShipping \in [Claims -> Int]
    /\ {OpeningBalance, Room, MaxLost} \subseteq Nat

VARIABLES
    status,     \* ClaimRequest.status, APPROVED or REFUNDED
    record,     \* ClaimRefund.amount and what moved with it
    canceled,   \* Payment.canceledAmount
    coupon,     \* UserCoupon.status
    balance,    \* PointAccount.balance
    earned,     \* shares of which an EARN row is in the points' ledger
    unearned,   \* history: claims that found no EARN row when last they looked
    given,      \* money the provider has given back
    tx,         \* the transaction that is refunding a claim
    lost        \* transactions lost so far

vars == <<status, record, canceled, coupon, balance, earned, unearned, given, tx, lost>>

-----------------------------------------------------------------------------
\* The sum of what a function gives for each of its arguments.
Total(f) == SumOver(DOMAIN f, f)

LinesOf(s) == {l \in Lines : LineShare[l] = s}

Net(l) == Product[l] - CouponCut[l] - PointCut[l]

\* The part of an amount that the first n units of a line come to.
Through(l, amount, n) == (amount * Min({n, Quantity[l]})) \div Quantity[l]

\* Units of a line that the claims of a set refund.
UnitsOf(C, l) == Total([c \in C |-> ClaimUnits[c][l]])

\* Faulty: each claim is rounded by itself.
ApartWith(l, amount, C, c) == Through(l, amount, ClaimUnits[c][l])

\* lineRefundAmount, pointRestoreAmount: what c adds to the claims of C.
ShareWith(l, amount, C, c) ==
    Through(l, amount, UnitsOf(C \cup {c}, l)) - Through(l, amount, UnitsOf(C, l))

ItemsAmount(C, c) ==
    Total([l \in LinesOf(ClaimShare[c]) |-> ShareWith(l, Net(l), C, c)])

PointsBack(C, c) ==
    Total([l \in LinesOf(ClaimShare[c]) |-> ShareWith(l, PointCut[l], C, c)])

AllRefunded(C, s) == \A l \in LinesOf(s) : UnitsOf(C, l) >= Quantity[l]

\* Nothing is kept of what the coupon reached.
Whole(C) == \A s \in CouponReach : AllRefunded(C, s)

\* What the units of a line that are kept count for.
KeptBasis(C, l) ==
    Product[l] - CouponCut[l] - Through(l, Product[l] - CouponCut[l], UnitsOf(C, l))

\* remainingBasisOf: what the threshold of free shipping is held against.
Remaining(C, s) == Total([l \in LinesOf(s) |-> KeptBasis(C, l)])

(* shippingAdjustment of a cancel: all of it once nothing is left; charged *)
(* again once what is left is too little for free shipping.                *)
Adjustment(C, s) ==
    CASE AllRefunded(C, s) -> Charged[s]
      [] ~AllRefunded(C, s) /\ Threshold[s] # NoThreshold /\ Remaining(C, s) < Threshold[s] ->
            -Max({0, Standard[s] - Charged[s]})
      [] OTHER -> 0

\* cancelShipping and returnShipping.
ShippingAmount(C, c) ==
    IF Type[c] = "CANCEL"
    THEN Adjustment(C \cup {c}, ClaimShare[c]) - Adjustment(C, ClaimShare[c])
    ELSE ReturnShipping[c]

\* claimRefundBreakdown.
RefundOf(C, c) == Max({0, ItemsAmount(C, c) + ShippingAmount(C, c)})

-----------------------------------------------------------------------------
PaidFor(s) == Charged[s] + Total([l \in LinesOf(s) |-> Net(l)])

Captured == Total([s \in Shares |-> PaidFor(s)])

PaymentStatus ==
    CASE canceled = 0 -> "PAID" [] canceled = Captured -> "CANCELED"
      [] OTHER -> "PARTIAL_CANCELED"

Refunded == {c \in Claims : status[c] = "REFUNDED"}

RefundedOf(s) == {d \in Refunded : ClaimShare[d] = s}

\* What is refunded of the claim's share, as its transaction sees it.
Before(c) == RefundedOf(ClaimShare[c])

\* What claims were refunded, by their records.
Recorded(D) == Total([d \in D |-> record[d].amount])

EarnedOn(s, amount) == (Max({0, amount}) * EarnRate[s]) \div 100

\* clawbackAmount: what the share's points fall by.
ClawedBack(c, before, now) ==
    LET s == ClaimShare[c]
    IN EarnedOn(s, PaidFor(s) - before) - EarnedOn(s, PaidFor(s) - before - now)

\* clawback: nothing of a share whose points are not in the ledger.
ToClawBack(c, now) ==
    IF ClaimShare[c] \in earned THEN ClawedBack(c, Recorded(Before(c)), now) ELSE 0

\* What confirming a share earns: on all that was paid, refunded or not.
Earnings == [s \in Shares |-> EarnedOn(s, PaidFor(s))]

NoRecord == [amount |-> 0, points |-> 0, taken |-> 0, short |-> 0]

Closed == [at |-> "closed", amount |-> 0, points |-> 0, taken |-> 0,
           short |-> 0, restores |-> FALSE, account |-> FALSE, payment |-> FALSE]

Open == {c \in Claims : tx[c].at # "closed"}

AccountFree == \A d \in Open : ~tx[d].account
PaymentFree == \A d \in Open : ~tx[d].payment

\* Faulty: does not wait for another refund of the share.
BeginUnlocked(c) ==
    /\ status[c] = "APPROVED" /\ tx[c].at = "closed"
    /\ PaymentStatus # "CANCELED"
    /\ tx' = [tx EXCEPT ![c] = [Closed EXCEPT
          !.at = "begun", !.amount = RefundOf(Before(c), c)]]
    /\ UNCHANGED <<status, record, canceled, coupon, balance, earned, unearned, given, lost>>

\* Faulty: looks for a payment of which nothing is canceled yet.
BeginUntouched(c) ==
    /\ status[c] = "APPROVED"
    /\ \A d \in Open : ClaimShare[d] # ClaimShare[c]
    /\ PaymentStatus = "PAID"
    /\ tx' = [tx EXCEPT ![c] = [Closed EXCEPT
          !.at = "begun", !.amount = RefundOf(Before(c), c)]]
    /\ UNCHANGED <<status, record, canceled, coupon, balance, earned, unearned, given, lost>>

(* lock, lockSellerOrder, context: by the process that decided the claim   *)
(* or by the retry job.  A payment that is all canceled is no longer found.*)
Begin(c) ==
    /\ status[c] = "APPROVED"
    /\ \A d \in Open : ClaimShare[d] # ClaimShare[c]
    /\ PaymentStatus # "CANCELED"
    /\ tx' = [tx EXCEPT ![c] = [Closed EXCEPT
          !.at = "begun", !.amount = RefundOf(Before(c), c)]]
    /\ UNCHANGED <<status, record, canceled, coupon, balance, earned, unearned, given, lost>>

\* PointsService.restoreWithin; nothing to restore locks nothing.
RestorePoints(c) ==
    /\ tx[c].at = "begun"
    /\ LET points == PointsBack(Before(c), c) IN
       /\ points > 0 => AccountFree
       /\ tx' = [tx EXCEPT ![c].at = "points", ![c].points = points,
                           ![c].account = points > 0]
    /\ UNCHANGED <<status, record, canceled, coupon, balance, earned, unearned, given, lost>>

\* Everything the coupon reached is refunded, as far as is committed.
WholeOrder(c) == Whole(Refunded \cup {c})

RestoreCoupon(c) ==
    /\ tx[c].at = "points"
    /\ tx' = [tx EXCEPT ![c].at = "coupon",
                        ![c].restores = coupon = "USED" /\ WholeOrder(c)]
    /\ UNCHANGED <<status, record, canceled, coupon, balance, earned, unearned, given, lost>>

\* The history of what clawback finds.
Looks(c) ==
    unearned' = IF ClaimShare[c] \in earned THEN unearned \ {c} ELSE unearned \cup {c}

\* Faulty: takes all that is due, whatever the balance.
ClawBackAll(c) ==
    /\ tx[c].at = "coupon"
    /\ tx[c].account \/ AccountFree
    /\ tx' = [tx EXCEPT ![c].at = "clawed", ![c].account = TRUE,
                        ![c].taken = ToClawBack(c, tx[c].amount)]
    /\ Looks(c)
    /\ UNCHANGED <<status, record, canceled, coupon, balance, earned, given, lost>>

\* Faulty: each claim is reckoned from the price paid, not from what is left.
ClawBackApart(c) ==
    /\ tx[c].at = "coupon"
    /\ LET due  == IF ClaimShare[c] \in earned THEN ClawedBack(c, 0, tx[c].amount) ELSE 0
           most == Min({due, balance + tx[c].points})
       IN IF due <= 0
          THEN tx' = [tx EXCEPT ![c].at = "clawed"]
          ELSE /\ tx[c].account \/ AccountFree
               /\ tx' = [tx EXCEPT ![c].at = "clawed", ![c].account = TRUE,
                                   ![c].taken = most, ![c].short = due - most]
    /\ Looks(c)
    /\ UNCHANGED <<status, record, canceled, coupon, balance, earned, given, lost>>

(* clawbackWithin: as much as the balance holds, or nothing when the lots  *)
(* that have not expired do not cover that.                                *)
ClawBack(c) ==
    /\ tx[c].at = "coupon"
    /\ LET due  == ToClawBack(c, tx[c].amount)
           most == Min({due, balance + tx[c].points})
       IN IF due <= 0
          THEN tx' = [tx EXCEPT ![c].at = "clawed"]
          ELSE /\ tx[c].account \/ AccountFree
               /\ \E taken \in {0, most} :
                     tx' = [tx EXCEPT ![c].at = "clawed", ![c].account = TRUE,
                                      ![c].taken = taken, ![c].short = due - taken]
    /\ Looks(c)
    /\ UNCHANGED <<status, record, canceled, coupon, balance, earned, given, lost>>

\* refundDecision
Refundable(amount) ==
    /\ PaymentStatus # "CANCELED"
    /\ amount <= Captured - canceled

\* Nothing is asked of the provider for nothing.
PayNothing(c) ==
    /\ tx[c].at = "clawed" /\ tx[c].amount = 0
    /\ tx' = [tx EXCEPT ![c].at = "paid"]
    /\ UNCHANGED <<status, record, canceled, coupon, balance, earned, unearned, given, lost>>

\* refundWithin up to the provider's answer.
PayBack(c) ==
    /\ tx[c].at = "clawed" /\ tx[c].amount > 0
    /\ PaymentFree
    /\ Refundable(tx[c].amount)
    /\ given + tx[c].amount <= Room
    /\ given' = given + tx[c].amount
    /\ tx' = [tx EXCEPT ![c].at = "paid", ![c].payment = TRUE]
    /\ UNCHANGED <<status, record, canceled, coupon, balance, earned, unearned, lost>>

\* The payment, or the provider, has not so much left to give.
Refused(c) ==
    /\ tx[c].at = "clawed" /\ tx[c].amount > 0
    /\ PaymentFree
    /\ ~Refundable(tx[c].amount) \/ given + tx[c].amount > Room
    /\ tx' = [tx EXCEPT ![c] = Closed]
    /\ UNCHANGED <<status, record, canceled, coupon, balance, earned, unearned, given, lost>>

\* Faulty: the record is left to a second transaction that never comes.
CommitUnrecorded(c) ==
    /\ tx[c].at = "paid"
    /\ status' = [status EXCEPT ![c] = "REFUNDED"]
    /\ canceled' = canceled + tx[c].amount
    /\ coupon' = IF tx[c].restores THEN "ISSUED" ELSE coupon
    /\ balance' = balance + tx[c].points - tx[c].taken
    /\ tx' = [tx EXCEPT ![c] = Closed]
    /\ UNCHANGED <<record, earned, unearned, given, lost>>

\* All of it is written at once.
Commit(c) ==
    /\ tx[c].at = "paid"
    /\ status' = [status EXCEPT ![c] = "REFUNDED"]
    /\ record' = [record EXCEPT ![c] = [amount |-> tx[c].amount,
          points |-> tx[c].points, taken |-> tx[c].taken, short |-> tx[c].short]]
    /\ canceled' = canceled + tx[c].amount
    /\ coupon' = IF tx[c].restores THEN "ISSUED" ELSE coupon
    /\ balance' = balance + tx[c].points - tx[c].taken
    /\ tx' = [tx EXCEPT ![c] = Closed]
    /\ UNCHANGED <<earned, unearned, given, lost>>

\* Anything fails, or the process stops; recordFailure changes no amount.
Lose(c) ==
    /\ c \in Open
    /\ lost < MaxLost
    /\ lost' = lost + 1
    /\ tx' = [tx EXCEPT ![c] = Closed]
    /\ UNCHANGED <<status, record, canceled, coupon, balance, earned, unearned, given>>

\* The buyer spends points meanwhile.
Spend ==
    /\ AccountFree
    /\ \E n \in 1 .. balance : balance' = balance - n
    /\ UNCHANGED <<status, record, canceled, coupon, earned, unearned, given, tx, lost>>

(* The share has been confirmed: PointsOnOrderConfirmed, once for a share. *)
(* It holds no lock of the share, so refunds may be anywhere meanwhile;    *)
(* and what has been refunded by then makes no difference.                 *)
Earn(s) ==
    /\ s \notin earned
    /\ Earnings[s] > 0
    /\ AccountFree
    /\ balance' = balance + Earnings[s]
    /\ earned' = earned \cup {s}
    /\ UNCHANGED <<status, record, canceled, coupon, unearned, given, tx, lost>>

Init ==
    /\ status = [c \in Claims |-> "APPROVED"]
    /\ record = [c \in Claims |-> NoRecord]
    /\ tx = [c \in Claims |-> Closed]
    /\ coupon = "USED" /\ balance = OpeningBalance
    /\ earned = {} /\ unearned = {}
    /\ canceled = 0 /\ given = 0 /\ lost = 0

Step(c) ==
    \/ Begin(c) \/ RestorePoints(c) \/ RestoreCoupon(c) \/ ClawBack(c)
    \/ PayNothing(c) \/ PayBack(c) \/ Refused(c) \/ Commit(c)

Next == (\E c \in Claims : Step(c) \/ Lose(c)) \/ Spend \/ (\E s \in Shares : Earn(s))

(* The retry job comes round, and a transaction that waits for a lock gets *)
(* it: PostgreSQL serves waiting transactions in turn.  The job reaches    *)
(* every claim where there are no more than CLAIM_REFUND_LIMIT (10) that   *)
(* are due; Claims says what becomes of more.                              *)
Fairness == \A c \in Claims : SF_vars(Step(c))

Spec == Init /\ [][Next]_vars /\ Fairness

-----------------------------------------------------------------------------
RefundsTypeOK ==
    /\ status \in [Claims -> {"APPROVED", "REFUNDED"}]
    /\ record \in [Claims -> [amount : Nat, points : Nat, taken : Nat, short : Nat]]
    /\ canceled \in Nat /\ given \in 0 .. Room
    /\ coupon \in {"USED", "ISSUED"}
    /\ balance \in Nat
    /\ earned \subseteq Shares /\ unearned \subseteq Claims
    /\ tx \in [Claims ->
          [at : {"closed", "begun", "points", "coupon", "clawed", "paid"},
           amount : Nat, points : Nat, taken : Nat, short : Nat,
           restores : BOOLEAN, account : BOOLEAN, payment : BOOLEAN]]
    /\ lost \in 0 .. MaxLost

\* Claims whose money the provider has given back and nobody has recorded.
Paying == {c \in Open : tx[c].at = "paid"}

(* A claim is REFUNDED exactly with its record, the payment is canceled by *)
(* the sum of the records and by no more than was captured, and the        *)
(* provider gave back that much: more only where a transaction was lost    *)
(* after its answer, and less never.                                       *)
BooksMatch ==
    LET asked == Total([c \in Paying |-> tx[c].amount]) IN
    /\ \A c \in Claims : status[c] = "APPROVED" => record[c] = NoRecord
    /\ canceled = Recorded(Refunded)
    /\ canceled <= Captured
    /\ given >= canceled + asked
    /\ lost = 0 => given = canceled + asked

(* refund-plan.spec.ts: the refunds of a share that is cancelled whole, in *)
(* however many claims and in whatever order they are refunded, "add up to *)
(* exactly what the buyer paid".                                           *)
CancelsAddUp ==
    \A s \in Shares :
       (AllRefunded(RefundedOf(s), s) /\ \A c \in RefundedOf(s) : Type[c] = "CANCEL")
          => Recorded(RefundedOf(s)) = PaidFor(s)

\* What claims took of the points their share earned, or could not take.
ClawedOf(C) == Total([c \in C |-> record[c].taken + record[c].short])

\* Claims of a share that were refunded without a look at points it earned.
Unclawed(s) == IF s \in earned THEN RefundedOf(s) \cap unearned ELSE RefundedOf(s)

(* Points paid with come back, whole for a share refunded whole; points    *)
(* earned are accounted for, taken or short, as if the refunds that found  *)
(* them had been one claim on what the others had left of the price, and   *)
(* nothing is taken where none found them; the coupon comes back when      *)
(* nothing that it reached is kept, not before, and then it does come      *)
(* back.  The last holds because refunds that restore points wait for each *)
(* other on the account.                                                   *)
DiscountsComeBack ==
    /\ coupon = "ISSUED" => Whole(Refunded)
    /\ Whole(Refunded) /\ (\A c \in Claims : record[c].points > 0) => coupon = "ISSUED"
    /\ \A s \in Shares :
          LET C      == RefundedOf(s)
              points == Total([c \in C |-> record[c].points])
          IN /\ AllRefunded(C, s) => points = Total([l \in LinesOf(s) |-> PointCut[l]])
             /\ ClawedOf(C) = EarnedOn(s, PaidFor(s) - Recorded(Unclawed(s)))
                             - EarnedOn(s, PaidFor(s) - Recorded(C))

(* Refunds of one order that overlap, wait, fail and are tried again come  *)
(* to what they would if they were made one after another, each computed   *)
(* from those committed before it: settleWithin's locks (refund.service.ts *)
(* :162-180) and the points' (points.service.ts:440) are enough for it.    *)
Serial == INSTANCE SerialRefunds WITH spared <- unearned \cap Refunded

RefundsAreSerial == Serial!SerialSpec

\* The payment has not so much left to give: settleWithin refuses for ever.
UsedUp(c) == PaymentStatus = "CANCELED" \/ RefundOf(Before(c), c) > Captured - canceled

(* Every approved claim is refunded in the end, whatever is lost on the    *)
(* way, unless claims refunded before it have used up the payment, or the  *)
(* provider has given back what is not in the books and may have too       *)
(* little left.                                                            *)
EveryRefundIsMade ==
    <>[](\A c \in Claims :
            status[c] = "REFUNDED" \/ UsedUp(c) \/ (lost > 0 /\ given > canceled))

=============================================================================
