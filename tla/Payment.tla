------------------------------- MODULE Payment -------------------------------
(***************************************************************************)
(* PaymentService (apps/api/src/payment) with the jobs that finish what it *)
(* left open: the webhook and the reconciliation, which ask the provider   *)
(* again, and the straggler job, which takes back authorizations nobody    *)
(* captured.  A provider is called outside our transactions, so a payment  *)
(* is claimed, called for and landed in three steps, and the process may   *)
(* stop between any two of them.                                           *)
(*                                                                         *)
(* The provider and the order are here by what a payment sees of them:     *)
(* what became of its request and of its money (bank, paidBack), and       *)
(* whether the order is paid and its stock still held (shares, held).      *)
(*                                                                         *)
(* Time is one fact per payment: whether the reconciliation's grace since  *)
(* its claim, or since its answer was missed, is over.  What is assumed of *)
(* the grace (60 s against a request deadline of 15 s) is that by then the *)
(* request is no longer on its way; our own process may be slower.         *)
(***************************************************************************)
EXTENDS Integers, Sequences, FiniteSets

CONSTANTS
    Orders, Payments,
    Methods,       \* what a shopper may choose: a card, or Toss
    NoMethod,      \* no choice yet
    OrderOf,       \* Payment.orderId
    ProviderOf,    \* the provider of a method
    Amount,        \* Payment.authorizedAmount
    MaxLost        \* bound: returns of money whose record is lost

ASSUME PaymentAssumption ==
    /\ IsFiniteSet(Payments)
    /\ OrderOf \in [Payments -> Orders]
    /\ NoMethod \notin Methods
    /\ ProviderOf \in [Methods -> {"TOSS", "VIRTUAL_CARD"}]
    /\ Amount \in Nat \ {0}
    /\ MaxLost \in Nat

VARIABLES
    rows,        \* the payments of an order, oldest first
    method,      \* Payment.provider, with the card; none before the row exists
    status,      \* Payment.status, "NONE" before the row exists
    canceled,    \* Payment.canceledAmount
    claimed,     \* Payment.authorizationStartedAt is set
    keyed,       \* Toss: the window's payment key is bound as methodRef
    calling,     \* a process of ours is inside provider.authorize
    aged,        \* the grace is over
    asked,       \* answers of provider.recover not yet landed
    abandoned,   \* authorizations the straggler job has listed
    bank,        \* what became of the request at the provider
    paidBack,    \* what the provider has returned
    lost,        \* returns whose record was lost, of all payments
    misread,     \* payments that failed by an answer that said nothing
    shares,      \* SellerOrder.status of the order's shares, as one
    held         \* the order's checkout still has HELD rows

callVars  == <<calling, asked, abandoned>>
moneyVars == <<bank, paidBack, lost, misread>>
orderVars == <<shares, held>>
rowVars   == <<rows, method, claimed, keyed>>
vars == <<rows, method, status, canceled, claimed, keyed, calling, aged, asked,
          abandoned, bank, paidBack, lost, misread, shares, held>>

Statuses == {"READY", "UNRESOLVED", "AUTHORIZED", "PAID", "PARTIAL_CANCELED",
             "CANCELED", "FAILED"}

\* payment-rules.ts: where a payment may go from where it is.
PaymentTransitions ==
    [NONE             |-> {"READY"},
     READY            |-> {"AUTHORIZED", "FAILED", "UNRESOLVED"},
     UNRESOLVED       |-> {"AUTHORIZED", "FAILED"},
     AUTHORIZED       |-> {"PAID", "CANCELED"},
     PAID             |-> {"PARTIAL_CANCELED", "CANCELED"},
     PARTIAL_CANCELED |-> {"PARTIAL_CANCELED", "CANCELED"},
     CANCELED         |-> {},
     FAILED           |-> {}]

CanTransition(from, to) == to \in PaymentTransitions[from]

IsToss(p) == ProviderOf[method[p]] = "TOSS"

Move(p, to) == status' = [status EXCEPT ![p] = to]

-----------------------------------------------------------------------------
(* The shopper.                                                            *)

\* Faulty: only a payment nobody has asked for yet counts.
PreviousReady(o) ==
    {rows[o][i] : i \in {j \in DOMAIN rows[o] : status[rows[o][j]] = "READY"}}

\* The order's newest payment that has not failed, if there is one.
Previous(o) ==
    LET alive == {i \in DOMAIN rows[o] : status[rows[o][i]] # "FAILED"}
    IN IF alive = {} THEN {}
       ELSE {rows[o][CHOOSE i \in alive : \A j \in alive : j <= i]}

\* A request for the method the previous payment has returns that payment.
SameMethod(q, chosen) == method[q] = chosen /\ ~keyed[q]

(* start: under the order's row lock.  A previous payment that is ready    *)
(* and unclaimed gives way to another method; any other one refuses.       *)
Start(p, chosen) ==
    LET o == OrderOf[p]
        gone == Previous(o)
    IN /\ status[p] = "NONE"
       /\ \A q \in gone : status[q] = "READY" /\ ~SameMethod(q, chosen) /\ ~claimed[q]
       /\ shares[o] \in {"PENDING", "FAILED"}
       /\ status' = [q \in Payments |-> IF q = p THEN "READY"
                                        ELSE IF q \in gone THEN "FAILED" ELSE status[q]]
       /\ rows' = [rows EXCEPT ![o] = Append(@, p)]
       /\ method' = [method EXCEPT ![p] = chosen]
       /\ UNCHANGED <<canceled, claimed, keyed, aged, callVars, moneyVars, orderVars>>

\* confirmToss up to the authorization: the key the window returned is bound.
BindKey(p) ==
    /\ status[p] = "READY" /\ IsToss(p) /\ ~claimed[p] /\ ~keyed[p]
    /\ keyed' = [keyed EXCEPT ![p] = TRUE]
    /\ UNCHANGED <<rows, method, status, canceled, claimed, aged, callVars, moneyVars, orderVars>>

(* authorize, before the call: one conditional UPDATE lets one caller      *)
(* through.  Toss is not called without a key.                             *)
Claim(p) ==
    /\ status[p] = "READY" /\ ~claimed[p]
    /\ claimed' = [claimed EXCEPT ![p] = TRUE]
    /\ calling' = [calling EXCEPT ![p] = TRUE]
    /\ aged' = [aged EXCEPT ![p] = FALSE]
    /\ bank' = [bank EXCEPT ![p] = IF IsToss(p) /\ ~keyed[p] THEN "none" ELSE "sent"]
    /\ UNCHANGED <<rows, method, status, canceled, keyed, asked, abandoned,
                   paidBack, lost, misread, orderVars>>

(* What provider.authorize may return.  Toss may not be reached, whatever  *)
(* became of the request; or its answer says nothing of it: an HTTP error  *)
(* that is not a refusal, a body that cannot be read, a status other than  *)
(* DONE.  refusalOf makes that last one a refusal.                         *)
Outcomes(p) ==
    (CASE bank[p] = "charged"           -> {"approved"}
       [] bank[p] \in {"none", "refused"} -> {"declined"}
       [] bank[p] \in {"sent", "lost"}    -> {})
    \cup (IF bank[p] # "none" /\ IsToss(p) THEN {"unknown", "unreadable"} ELSE {})

\* Faulty: no answer is taken for a no.
LandingFailed(outcome) == IF outcome = "approved" THEN "AUTHORIZED" ELSE "FAILED"

Landing(outcome) ==
    CASE outcome = "approved" -> "AUTHORIZED"
      [] outcome \in {"declined", "unreadable"} -> "FAILED"
      [] outcome = "unknown"  -> "UNRESOLVED"

Misreads(p, outcome) ==
    misread' = IF outcome = "unreadable" THEN misread \cup {p} ELSE misread

(* authorize, after the call: the answer lands if the row is still READY   *)
(* under its lock.  A row that becomes UNRESOLVED has its grace to wait.   *)
Land(p, outcome) ==
    /\ calling[p]
    /\ calling' = [calling EXCEPT ![p] = FALSE]
    /\ IF status[p] = "READY"
       THEN /\ Move(p, Landing(outcome))
            /\ aged' = [aged EXCEPT ![p] = @ /\ outcome # "unknown"]
            /\ Misreads(p, outcome)
       ELSE UNCHANGED <<status, aged, misread>>
    /\ UNCHANGED <<canceled, rowVars, asked, abandoned, bank, paidBack, lost, orderVars>>

Answered(p) == \E outcome \in Outcomes(p) : Land(p, outcome)

(* settle: neither provider has anything to do at a capture, so it is the  *)
(* row alone.  The shopper's request calls it, and so does a recovery.     *)
Capture(p) ==
    /\ CanTransition(status[p], "PAID")
    /\ Move(p, "PAID")
    /\ UNCHANGED <<canceled, aged, rowVars, callVars, moneyVars, orderVars>>

(* markPaid, after the capture, in a transaction of its own: again by a    *)
(* repeated capture, and by the straggler job.  Refused once stock is gone.*)
MarkPaid(p) ==
    LET o == OrderOf[p]
    IN /\ status[p] = "PAID" /\ shares[o] = "PENDING" /\ held[o]
       /\ shares' = [shares EXCEPT ![o] = "PAID"]
       /\ held' = [held EXCEPT ![o] = FALSE]
       /\ UNCHANGED <<status, canceled, aged, rowVars, callVars, moneyVars>>

-----------------------------------------------------------------------------
(* Asking again.                                                           *)

\* resolveUnresolved, first statement: a claim whose process is gone.
MarkStale(p) ==
    /\ status[p] = "READY" /\ claimed[p] /\ aged[p]
    /\ Move(p, "UNRESOLVED")
    /\ UNCHANGED <<canceled, aged, rowVars, callVars, moneyVars, orderVars>>

\* Faulty: a request the provider never got counts as approved.
RecoveredUnlessRefused(p) == {IF bank[p] = "refused" THEN "declined" ELSE "approved"}

(* What provider.recover may return: what the provider knows of the id, a  *)
(* request it never got being a no; or an answer of Toss that says nothing *)
(* and is taken for a no.  When it is not reached nothing is landed.       *)
Recovered(p) ==
    {IF bank[p] = "charged" THEN "approved" ELSE "declined"}
    \cup (IF IsToss(p) THEN {"unreadable"} ELSE {})

\* Faulty: nobody asks unless the provider calls first.
AskOnWebhook(p) ==
    /\ status[p] = "UNRESOLVED"
    /\ IsToss(p) /\ bank[p] \in {"charged", "refused"}
    /\ \E answer \in Recovered(p) : asked' = [asked EXCEPT ![p] = @ \cup {answer}]
    /\ UNCHANGED <<status, canceled, aged, rowVars, calling, abandoned, moneyVars, orderVars>>

(* resolveUnresolved, the question: the reconciliation asks after the      *)
(* grace, a webhook at any time, but Toss sends one only for what it has.  *)
Ask(p) ==
    /\ status[p] = "UNRESOLVED"
    /\ aged[p] \/ (IsToss(p) /\ bank[p] \in {"charged", "refused"})
    /\ \E answer \in Recovered(p) : asked' = [asked EXCEPT ![p] = @ \cup {answer}]
    /\ UNCHANGED <<status, canceled, aged, rowVars, calling, abandoned, moneyVars, orderVars>>

\* Faulty: the row is not looked at again.
ResolveBlind(p) ==
    \E answer \in asked[p] : \E others \in {{}, {answer}} :
       /\ asked' = [asked EXCEPT ![p] = (@ \ {answer}) \cup others]
       /\ Move(p, Landing(answer)) /\ Misreads(p, answer)
       /\ UNCHANGED <<canceled, aged, rowVars, calling, abandoned, bank, paidBack, lost, orderVars>>

(* resolveUnresolved, the answer: it lands if the row is still UNRESOLVED. *)
(* A webhook and the batch may each hold the same answer.                  *)
Resolve(p) ==
    \E answer \in asked[p] : \E others \in {{}, {answer}} :
       /\ asked' = [asked EXCEPT ![p] = (@ \ {answer}) \cup others]
       /\ IF status[p] = "UNRESOLVED"
          THEN Move(p, Landing(answer)) /\ Misreads(p, answer)
          ELSE UNCHANGED <<status, misread>>
       /\ UNCHANGED <<canceled, aged, rowVars, calling, abandoned, bank, paidBack, lost, orderVars>>

-----------------------------------------------------------------------------
(* Giving money back.                                                      *)

\* A virtual card takes back up to what is used of it, Toss up to the payment.
Returns(p, amount) ==
    /\ ~IsToss(p) \/ paidBack[p] + amount <= Amount
    /\ paidBack' = [paidBack EXCEPT ![p] = @ + amount]

(* The provider is called under the row's lock, before we write: either    *)
(* both happen or, when our transaction then fails, only the provider's.   *)
GiveBack(p, amount, landing) ==
    /\ Returns(p, amount)
    /\ \/ /\ Move(p, landing)
          /\ canceled' = [canceled EXCEPT ![p] = @ + amount]
          /\ UNCHANGED lost
       \/ /\ lost < MaxLost
          /\ lost' = lost + 1
          /\ UNCHANGED <<status, canceled>>
    /\ UNCHANGED <<aged, rowVars, calling, asked, bank, misread, orderVars>>

\* Faulty: lists by age alone.
ListAged(p) ==
    /\ status[p] = "AUTHORIZED" /\ p \notin abandoned
    /\ abandoned' = abandoned \cup {p}
    /\ UNCHANGED <<status, canceled, aged, rowVars, calling, asked, moneyVars, orderVars>>

\* The straggler job lists authorizations of orders without a HELD row.
ListAbandoned(p) ==
    /\ status[p] = "AUTHORIZED" /\ ~held[OrderOf[p]]
    /\ p \notin abandoned
    /\ abandoned' = abandoned \cup {p}
    /\ UNCHANGED <<status, canceled, aged, rowVars, calling, asked, moneyVars, orderVars>>

\* cancelAuthorization: nothing is done to a payment captured meanwhile.
CancelAuthorization(p) ==
    /\ p \in abandoned
    /\ abandoned' = abandoned \ {p}
    /\ \/ /\ status[p] = "AUTHORIZED"
          /\ GiveBack(p, Amount, "CANCELED")
       \/ /\ status[p] # "AUTHORIZED"
          /\ UNCHANGED <<status, canceled, aged, rowVars, calling, asked, moneyVars, orderVars>>

\* Faulty: what was refunded before is not counted.
RefundAgain(p, amount) ==
    /\ shares[OrderOf[p]] = "PAID" /\ CanTransition(status[p], "CANCELED")
    /\ GiveBack(p, amount, IF amount = Amount THEN "CANCELED" ELSE "PARTIAL_CANCELED")
    /\ UNCHANGED abandoned

\* refundWithin and refundDecision, for a claim against a paid order.
Refund(p, amount) ==
    LET remaining == Amount - canceled[p] - amount
        landing == IF remaining = 0 THEN "CANCELED" ELSE "PARTIAL_CANCELED"
    IN /\ shares[OrderOf[p]] = "PAID"
       /\ CanTransition(status[p], "CANCELED") /\ CanTransition(status[p], "PARTIAL_CANCELED")
       /\ amount > 0 /\ remaining >= 0
       /\ GiveBack(p, amount, landing)
       /\ UNCHANGED abandoned

-----------------------------------------------------------------------------
(* Around it.                                                              *)

\* External: the provider decides a request, or the request never arrives.
Provider(p) ==
    /\ bank[p] = "sent"
    /\ \E end \in {"charged", "refused", "lost"} :
          /\ end = "lost" => IsToss(p) \/ ~calling[p]
          /\ bank' = [bank EXCEPT ![p] = end]
    /\ UNCHANGED <<status, canceled, aged, rowVars, callVars, paidBack, lost, misread, orderVars>>

\* The grace passes; no request is on its way for that long.
Age(p) ==
    /\ claimed[p] /\ ~aged[p] /\ bank[p] # "sent"
    /\ aged' = [aged EXCEPT ![p] = TRUE]
    /\ UNCHANGED <<status, canceled, rowVars, callVars, moneyVars, orderVars>>

\* The process that works on a payment stops: what it held in memory is gone.
Stop(p) ==
    /\ calling[p] \/ asked[p] # {} \/ p \in abandoned
    /\ calling' = [calling EXCEPT ![p] = FALSE]
    /\ asked' = [asked EXCEPT ![p] = {}]
    /\ abandoned' = abandoned \ {p}
    /\ UNCHANGED <<status, canceled, aged, rowVars, moneyVars, orderVars>>

\* The holds end without a sale: swept, which fails the order, or given back.
HoldsEnd(o) ==
    /\ held[o] /\ held' = [held EXCEPT ![o] = FALSE]
    /\ \/ shares' = [shares EXCEPT ![o] = "FAILED"]
       \/ UNCHANGED shares
    /\ UNCHANGED <<status, canceled, aged, rowVars, callVars, moneyVars>>

Init ==
    /\ rows = [o \in Orders |-> <<>>]
    /\ method = [p \in Payments |-> NoMethod]
    /\ status = [p \in Payments |-> "NONE"]
    /\ canceled = [p \in Payments |-> 0]
    /\ claimed = [p \in Payments |-> FALSE]
    /\ keyed = [p \in Payments |-> FALSE]
    /\ calling = [p \in Payments |-> FALSE]
    /\ aged = [p \in Payments |-> FALSE]
    /\ asked = [p \in Payments |-> {}]
    /\ abandoned = {}
    /\ bank = [p \in Payments |-> "none"]
    /\ paidBack = [p \in Payments |-> 0]
    /\ lost = 0 /\ misread = {}
    /\ shares = [o \in Orders |-> "PENDING"]
    /\ held = [o \in Orders |-> TRUE]

ShopperStep(p) ==
    \/ \E chosen \in Methods : Start(p, chosen)
    \/ BindKey(p) \/ Claim(p) \/ Capture(p)

JobStep(p) ==
    \/ Answered(p) \/ MarkPaid(p) \/ MarkStale(p) \/ Ask(p) \/ Resolve(p)
    \/ ListAbandoned(p) \/ CancelAuthorization(p)
    \/ \E amount \in 1 .. Amount : Refund(p, amount)

Next ==
    \/ \E p \in Payments :
          ShopperStep(p) \/ JobStep(p) \/ Provider(p) \/ Age(p) \/ Stop(p)
    \/ \E o \in Orders : HoldsEnd(o)

Spec == Init /\ [][Next]_vars

(* The jobs run once a minute, the provider decides, time passes.  Asking  *)
(* and cancelling are strongly fair: the process may stop in the middle of *)
(* either, and the next cycle takes the payment up again.                  *)
Fairness ==
    /\ \A p \in Payments :
          /\ WF_vars(Provider(p)) /\ WF_vars(Age(p)) /\ WF_vars(MarkStale(p))
          /\ WF_vars(Ask(p)) /\ SF_vars(Resolve(p))
          /\ WF_vars(ListAbandoned(p)) /\ SF_vars(CancelAuthorization(p))
    /\ \A o \in Orders : WF_vars(HoldsEnd(o))

FairSpec == Spec /\ Fairness

-----------------------------------------------------------------------------
PaymentTypeOK ==
    /\ rows \in [Orders -> Seq(Payments)]
    /\ method \in [Payments -> Methods \cup {NoMethod}]
    /\ status \in [Payments -> Statuses \cup {"NONE"}]
    /\ canceled \in [Payments -> 0 .. Amount]
    /\ \A flag \in {claimed, keyed, calling, aged} : flag \in [Payments -> BOOLEAN]
    /\ asked \in [Payments -> SUBSET {"approved", "declined", "unreadable"}]
    /\ abandoned \subseteq Payments
    /\ bank \in [Payments -> {"none", "sent", "charged", "refused", "lost"}]
    /\ paidBack \in [Payments -> Nat] /\ lost \in 0 .. MaxLost
    /\ misread \subseteq Payments
    /\ shares \in [Orders -> {"PENDING", "FAILED", "PAID"}]
    /\ held \in [Orders -> BOOLEAN]

Outstanding(p) == bank[p] \in {"sent", "charged"} /\ paidBack[p] < Amount

(* However often a shopper changes the method, retries or comes back, at   *)
(* most one payment of an order has, or may yet take, the shopper's money, *)
(* unless one of them failed by an answer of Toss that said nothing.       *)
NoDoubleCharge ==
    \A p, q \in Payments \ misread :
       OrderOf[p] = OrderOf[q] /\ Outstanding(p) /\ Outstanding(q) => p = q

(* FAILED is an answer: no money was taken and none will be.  A payment    *)
(* whose request or answer was lost is never written off as failed, only   *)
(* one whose answer could not be read.                                     *)
FailedHoldsNoMoney ==
    \A p \in Payments \ misread :
       status[p] = "FAILED" => bank[p] \in {"none", "refused", "lost"}

(* The books never claim money the provider does not have, nor a return it *)
(* has not made, even when the record of a return was lost.                *)
BooksAreCovered ==
    \A p \in Payments :
       /\ status[p] \in {"AUTHORIZED", "PAID", "PARTIAL_CANCELED"} => bank[p] = "charged"
       /\ canceled[p] <= paidBack[p]
       /\ status[p] = "PARTIAL_CANCELED" => canceled[p] \in 1 .. Amount - 1
       /\ status[p] = "CANCELED" <=> canceled[p] = Amount

(* A late answer, a second recovery or the straggler job never takes a     *)
(* payment along an arrow the transition table does not have.              *)
FollowsTable ==
    [][\A p \in Payments :
          status'[p] # status[p] => CanTransition(status[p], status'[p])]_status

(* An authorization is taken back only when the order's stock is gone, and *)
(* never one whose order can still be completed.                           *)
CancelsOnlyStranded ==
    [][\A p \in Payments :
          status[p] = "AUTHORIZED" /\ status'[p] = "CANCELED" => ~held[OrderOf[p]]]_status

(* Every authorization that was asked for ends known: no payment stays     *)
(* claimed or UNRESOLVED, whatever was lost and whoever stopped.  And one  *)
(* that is known and nobody captures is taken back: the money does not     *)
(* stay held for an order that is not coming.                              *)
AuthorizationsEnd ==
    \A p \in Payments :
       /\ claimed[p] ~> status[p] \notin {"READY", "UNRESOLVED"}
       /\ status[p] = "AUTHORIZED" ~> (status[p] # "AUTHORIZED" \/ paidBack[p] = Amount)

=============================================================================
