------------------------------- MODULE Claims -------------------------------
(***************************************************************************)
(* Claims on the units of a share (apps/api/src/claims): cancels before    *)
(* shipping, returns after delivery, on top of Fulfilment, which moves the *)
(* share meanwhile, and of Stock, which takes the units back.              *)
(*                                                                         *)
(* A claim's route and its remaining quantities are read before the        *)
(* transaction that files it; the refund and the restock are called by the *)
(* same process after the decision is committed, so a stop loses them, and *)
(* only refunds have a job that tries again, some claims at a time.  What  *)
(* a refund does to money, points and coupons is the matter of Refunds;    *)
(* here it is the step to REFUNDED, or a refusal that is repeated for ever *)
(* because the payment is used up or gone.                                 *)
(***************************************************************************)
EXTENDS Fulfilment, Stock, Totals

CONSTANTS
    ClaimIds,      \* ClaimRequest rows that may come to exist
    ShareOf,       \* ClaimRequest.sellerOrderId
    ClaimItems,    \* ClaimItem rows
    ItemClaim,     \* ClaimItem.claimId
    ItemVariant,   \* the variant of the item's order line, one line each
    ItemQuantity,  \* ClaimItem.quantity
    SoldIn,        \* the share a variant is sold in
    Ordered,       \* OrderItem.quantity of that line
    Sale,          \* reference of the ledger row that sold them
    Refused,       \* claims whose refund is refused each time it is tried
    RetryBatch,    \* CLAIM_REFUND_LIMIT
    MaxClaims      \* bound: claims filed or being filed

ASSUME ClaimsAssumption ==
    /\ ShareOf \in [ClaimIds -> Shares]
    /\ IsFiniteSet(ClaimItems)
    /\ ItemClaim \in [ClaimItems -> ClaimIds]
    /\ ItemVariant \in [ClaimItems -> Variants]
    /\ ItemQuantity \in [ClaimItems -> Nat \ {0}]
    /\ \A i, j \in ClaimItems :
          ItemClaim[i] = ItemClaim[j] /\ ItemVariant[i] = ItemVariant[j] => i = j
    /\ SoldIn \in [Variants -> Shares]
    /\ \A s \in Shares : \E v \in Variants : SoldIn[v] = s
    /\ Ordered \in [Variants -> Nat \ {0}]
    /\ \A v \in Variants : Ordered[v] <= OpeningStock[v]
    /\ \A i \in ClaimItems : SoldIn[ItemVariant[i]] = ShareOf[ItemClaim[i]]
    /\ Refs = ClaimItems \cup {Sale} /\ Sale \notin ClaimItems
    /\ Refused \subseteq ClaimIds /\ RetryBatch \in Nat \ {0}
    /\ MaxClaims \in Nat

VARIABLES
    claim,     \* ClaimRequest.status, or UNFILED, or FILING while not stored
    route,     \* ClaimRequest.type once read from the share
    approver,  \* who approves on filing: SYSTEM, ADMIN, or NOBODY yet
    claimed,   \* OrderItem.claimedQuantity
    after,     \* what the process still calls after the commit
    before     \* ClaimRequest.updatedAt: claims that awaited a refund before this one

claimVars == <<claim, route, approver, claimed, after, before>>
vars == <<fulfilmentVars, stockVars, claimVars>>

ClaimMovers == [
    CANCEL_REQUESTED |-> [CANCEL_APPROVED  |-> {"SELLER", "ADMIN", "SYSTEM"},
                          CANCEL_REJECTED  |-> {"SELLER", "ADMIN"}],
    RETURN_REQUESTED |-> [RETURN_APPROVED  |-> {"SELLER", "ADMIN"},
                          RETURN_REJECTED  |-> {"SELLER", "ADMIN"}],
    RETURN_APPROVED  |-> [PICKING_UP       |-> {"SYSTEM", "SELLER", "ADMIN"}],
    PICKING_UP       |-> [INSPECTING       |-> {"SYSTEM", "SELLER", "ADMIN"}],
    INSPECTING       |-> [RETURN_COMPLETED |-> {"SELLER", "ADMIN"},
                          RETURN_REJECTED  |-> {"SELLER", "ADMIN"}],
    CANCEL_APPROVED  |-> [REFUNDED |-> {"SYSTEM"}],
    RETURN_COMPLETED |-> [REFUNDED |-> {"SYSTEM"}] ]

ClaimStatuses ==
    DOMAIN ClaimMovers \cup {"CANCEL_REJECTED", "RETURN_REJECTED", "REFUNDED"}

Rejected == {"CANCEL_REJECTED", "RETURN_REJECTED"}
CancelSettled == {"CANCEL_APPROVED", "REFUNDED"}
ReturnSettled == {"RETURN_COMPLETED", "REFUNDED"}

MayMoveClaim(from, to, actor) ==
    /\ from \in DOMAIN ClaimMovers
    /\ to \in DOMAIN ClaimMovers[from]
    /\ actor \in ClaimMovers[from][to]

-----------------------------------------------------------------------------
\* Lines of a share, items of a claim, and the items of a set of claims.
LinesOf(s)  == {v \in Variants : SoldIn[v] = s}
ItemsOf(C)  == {i \in ClaimItems : ItemClaim[i] \in C}
UnitsOn(C, v) == SumOver({i \in ItemsOf(C) : ItemVariant[i] = v}, ItemQuantity)

Filed == {c \in ClaimIds : claim[c] \in ClaimStatuses}

\* Claims whose units count as cancelled, or as returned.
Cancelled == {c \in Filed : route[c] = "CANCEL" /\ claim[c] \in CancelSettled}
Returned  == {c \in Filed : route[c] = "RETURN" /\ claim[c] \in ReturnSettled}

\* cancelScopeOf: with c, the claims on s cancel every unit of it.
CancelsAll(s, c) ==
    \A v \in LinesOf(s) : UnitsOn(Cancelled \cup {c}, v) >= Ordered[v]

\* returnScopeOf: with c, every unit that was not cancelled is back.
ReturnsAll(s, c) ==
    \A v \in LinesOf(s) :
       UnitsOn(Returned \cup {c}, v) >= Ordered[v] - UnitsOn(Cancelled, v)

\* settleCancel, settleReturn: the share ends with its last unit.
SettleShare(c, to, actor) ==
    LET s == ShareOf[c] IN
    CASE to = "CANCEL_APPROVED" /\ CancelsAll(s, c) -> ApplyWithin(s, "CANCELED", actor)
      [] to = "RETURN_COMPLETED" /\ ReturnsAll(s, c) -> ApplyWithin(s, "RETURNED", actor)
      [] OTHER -> UNCHANGED order

\* Faulty: every decision gives the units back.
ReleaseAlways(c, to) ==
    claimed' = [v \in Variants |-> claimed[v] - UnitsOn({c}, v)]

\* A rejection gives the claim's units back to the order lines.
ReleaseUnits(c, to) ==
    claimed' = [v \in Variants |->
        claimed[v] - (IF to \in Rejected THEN UnitsOn({c}, v) ELSE 0)]

Refundable == {c \in Filed : MayMoveClaim(claim[c], "REFUNDED", "SYSTEM")}

\* updatedAt: a claim that has come to await its refund is the latest of those that do.
AwaitsFrom(c, to) ==
    before' = [before EXCEPT
        ![c] = IF MayMoveClaim(to, "REFUNDED", "SYSTEM") THEN Refundable ELSE @]

Fulfilled == <<parcel, ripe, listed, toConfirm, unsaid, earned, stops>>

-----------------------------------------------------------------------------
(* createWith up to its transaction: which way the claim goes is read from *)
(* the share, for the buyer within the window, for an administrator        *)
(* whenever the goods are not on the road.                                 *)
ReadRoute(c, actor) ==
    LET s == ShareOf[c] IN
    /\ claim[c] = "UNFILED"
    /\ Cardinality({d \in ClaimIds : claim[d] # "UNFILED"}) < MaxClaims
    /\ \A v \in Variants : claimed[v] + UnitsOn({c}, v) <= Ordered[v]
    /\ \/ /\ order[s] \in {"PAID", "PREPARING"}
          /\ route' = [route EXCEPT ![c] = "CANCEL"]
       \/ /\ \/ order[s] = "DELIVERED" /\ (actor = "BUYER" => s \notin ripe)
             \/ order[s] = "CONFIRMED" /\ actor = "ADMIN"
          /\ route' = [route EXCEPT ![c] = "RETURN"]
    /\ approver' = [approver EXCEPT ![c] =
          IF actor = "ADMIN" THEN "ADMIN"
          ELSE IF order[s] = "PAID" THEN "SYSTEM" ELSE "NOBODY"]
    /\ claim' = [claim EXCEPT ![c] = "FILING"]
    /\ UNCHANGED <<claimed, after, before, fulfilmentVars, stockVars>>

\* Faulty: trusts the remaining quantity that was read before.
HoldUnchecked(c) ==
    claimed' = [v \in Variants |-> claimed[v] + UnitsOn({c}, v)]

\* hold: the units are taken only if that many are still unclaimed.
HoldUnits(c) ==
    /\ \A v \in Variants : claimed[v] + UnitsOn({c}, v) <= Ordered[v]
    /\ claimed' = [v \in Variants |-> claimed[v] + UnitsOn({c}, v)]

(* The transaction of createWith: hold, store, and approve at once where   *)
(* nobody has to be asked; a refusal on the way undoes all of it.          *)
FileClaim(c) ==
    /\ claim[c] = "FILING"
    /\ HoldUnits(c)
    /\ LET at == CASE approver[c] = "NOBODY" ->
                        IF route[c] = "CANCEL" THEN "CANCEL_REQUESTED" ELSE "RETURN_REQUESTED"
                   [] OTHER ->
                        IF route[c] = "CANCEL" THEN "CANCEL_APPROVED" ELSE "RETURN_APPROVED"
       IN /\ claim' = [claim EXCEPT ![c] = at]
          /\ SettleShare(c, at, approver[c])
          /\ AwaitsFrom(c, at)
          /\ after' = [after EXCEPT ![c] = IF at = "CANCEL_APPROVED" THEN "REFUND" ELSE @]
    /\ approver' = [approver EXCEPT ![c] = "NOBODY"]
    /\ UNCHANGED <<route, Fulfilled, stockVars>>

\* The request ends without having stored anything.
DropFiling(c) ==
    /\ claim[c] = "FILING"
    /\ claim' = [claim EXCEPT ![c] = "UNFILED"]
    /\ route' = [route EXCEPT ![c] = "NONE"]
    /\ approver' = [approver EXCEPT ![c] = "NOBODY"]
    /\ UNCHANGED <<claimed, after, before, fulfilmentVars, stockVars>>

\* Faulty: the share is left alone.
MoveClaimOnly(c, to, actor) ==
    /\ MayMoveClaim(claim[c], to, actor)
    /\ claim' = [claim EXCEPT ![c] = to]
    /\ ReleaseUnits(c, to)
    /\ AwaitsFrom(c, to)
    /\ UNCHANGED order

\* applyWithin of a claim, with the share it may end.
MoveClaim(c, to, actor) ==
    /\ MayMoveClaim(claim[c], to, actor)
    /\ claim' = [claim EXCEPT ![c] = to]
    /\ ReleaseUnits(c, to)
    /\ AwaitsFrom(c, to)
    /\ SettleShare(c, to, actor)

(* POST /claims/:id/transitions and pickUp.  An approved cancel is         *)
(* followed by its refund and restock; a return completed this way is not. *)
Decide(c, to, actor) ==
    /\ actor # "SYSTEM"
    /\ MoveClaim(c, to, actor)
    /\ after' = [after EXCEPT ![c] = IF to = "CANCEL_APPROVED" THEN "REFUND" ELSE @]
    /\ UNCHANGED <<route, approver, Fulfilled, stockVars>>

\* inspect with a pass; pressed again it tells the same again.
PassInspection(c, actor) ==
    /\ \/ MoveClaim(c, "RETURN_COMPLETED", actor)
       \/ /\ claim[c] = "RETURN_COMPLETED"
          /\ UNCHANGED <<claim, claimed, before, order>>
    /\ after' = [after EXCEPT ![c] = "REFUND"]
    /\ UNCHANGED <<route, approver, Fulfilled, stockVars>>

-----------------------------------------------------------------------------
\* Faulty: refunds only while the deciding process is at it.
SettleAttended(c) ==
    /\ c \in Refundable \ Refused
    /\ after[c] = "REFUND"
    /\ claim' = [claim EXCEPT ![c] = "REFUNDED"]

\* settleWithin: what is refused is rolled back, and leaves updatedAt alone.
Settle(c) ==
    /\ c \in Refundable \ Refused
    /\ claim' = [claim EXCEPT ![c] = "REFUNDED"]

(* refund, called after the decision: it settles, finds nothing to settle, *)
(* or fails and leaves a record of the failure; the restock follows.       *)
Refund(c) ==
    /\ after[c] = "REFUND"
    /\ Settle(c) \/ UNCHANGED claim
    /\ after' = [after EXCEPT ![c] = "RESTOCK"]
    /\ UNCHANGED <<route, approver, claimed, before, fulfilmentVars, stockVars>>

\* What a cycle of the retry job lists: the first to have awaited their refund.
NextBatch == {c \in Refundable : Cardinality(before[c] \cap Refundable) < RetryBatch}

\* ClaimRefundRetryService.
RetryRefund(c) ==
    /\ c \in NextBatch
    /\ Settle(c)
    /\ UNCHANGED <<route, approver, claimed, after, before, fulfilmentVars, stockVars>>

RestockType(c) == IF route[c] = "CANCEL" THEN "CANCEL" ELSE "RETURN_IN"

RestockDue(c) == c \in Cancelled \cup Returned

\* The items restoreWithin writes: due, and not in the ledger yet.
Back(c) ==
    {i \in ItemsOf({c}) :
        RestockDue(c) /\ ~Recorded(ItemVariant[i], RestockType(c), i)}

\* restoreWithin: one movement per item, in one transaction.
Restock(c) ==
    /\ after[c] = "RESTOCK"
    /\ LET comes(v) == {i \in Back(c) : ItemVariant[i] = v} IN
       /\ stock' = [v \in Variants |-> stock[v] + SumOver(comes(v), ItemQuantity)]
       /\ ledger' = [v \in Variants |->
             IF comes(v) = {} THEN ledger[v]
             ELSE LET i == CHOOSE i \in comes(v) : TRUE
                  IN Append(ledger[v], Entry(v, RestockType(c), ItemQuantity[i], i))]
    /\ after' = [after EXCEPT ![c] = "NOTHING"]
    /\ UNCHANGED <<claim, route, approver, claimed, before, reserved, fulfilmentVars>>

\* The restock fails, is logged, and nothing tries it again.
RestockFails(c) ==
    /\ after[c] = "RESTOCK"
    /\ stops < MaxStops
    /\ stops' = stops + 1
    /\ after' = [after EXCEPT ![c] = "NOTHING"]
    /\ UNCHANGED <<claim, route, approver, claimed, before, stockVars, order, parcel,
                   ripe, listed, toConfirm, unsaid, earned>>

-----------------------------------------------------------------------------
\* The lines were in stock and have been sold.
ClaimsInit ==
    /\ FulfilmentInit
    /\ stock = [v \in Variants |-> OpeningStock[v] - Ordered[v]]
    /\ reserved = [v \in Variants |-> 0]
    /\ ledger = [v \in Variants |->
          Append(Open(v), [type |-> "RESERVE_CONFIRM", quantity |-> -Ordered[v],
                           balance |-> OpeningStock[v] - Ordered[v], ref |-> Sale])]
    /\ claim = [c \in ClaimIds |-> "UNFILED"]
    /\ route = [c \in ClaimIds |-> "NONE"]
    /\ approver = [c \in ClaimIds |-> "NOBODY"]
    /\ claimed = [v \in Variants |-> 0]
    /\ after = [c \in ClaimIds |-> "NOTHING"]
    /\ before = [c \in ClaimIds |-> {}]

ClaimStep(c) ==
    \/ \E actor \in {"BUYER", "ADMIN"} : ReadRoute(c, actor)
    \/ FileClaim(c) \/ DropFiling(c)
    \/ \E actor \in {"SELLER", "ADMIN"} :
          \/ PassInspection(c, actor)
          \/ \E to \in ClaimStatuses : Decide(c, to, actor)
    \/ Refund(c) \/ RetryRefund(c) \/ Restock(c) \/ RestockFails(c)

\* A stop also ends the requests under way and forgets what was to be called.
StopAll ==
    /\ Stop
    /\ claim' = [c \in ClaimIds |-> IF claim[c] = "FILING" THEN "UNFILED" ELSE claim[c]]
    /\ route' = [c \in ClaimIds |-> IF claim[c] = "FILING" THEN "NONE" ELSE route[c]]
    /\ approver' = [c \in ClaimIds |-> IF claim[c] = "FILING" THEN "NOBODY" ELSE approver[c]]
    /\ after' = [c \in ClaimIds |-> "NOTHING"]
    /\ UNCHANGED <<claimed, before, stockVars>>

ShareStep ==
    /\ (\E s \in Shares : Work(s) \/ Jobs(s)) \/ ListRipe
    /\ UNCHANGED <<stockVars, claimVars>>

ClaimsNext == ShareStep \/ (\E c \in ClaimIds : ClaimStep(c)) \/ StopAll

ClaimsSpec == ClaimsInit /\ [][ClaimsNext]_vars

(* The jobs run, and a refund that is listed by the retry job and is not   *)
(* refused for ever succeeds in the end, the provider being there again.   *)
(* Nothing is assumed of a claim that the job does not list.               *)
Fairness ==
    /\ JobsRun
    /\ \A c \in ClaimIds : WF_vars(RetryRefund(c))

FairSpec == ClaimsSpec /\ Fairness

-----------------------------------------------------------------------------
ClaimsTypeOK ==
    /\ order \in [Shares -> OrderStatuses]
    /\ parcel \in [Shares -> Ladder]
    /\ listed \in [Shares -> NoParcel .. Delivered - 1]
    /\ unsaid \in [Shares -> {"nothing", "request", "cycle"}]
    /\ ripe \subseteq Shares /\ toConfirm \subseteq Shares /\ earned \subseteq Shares
    /\ stops \in 0 .. MaxStops
    /\ StockTypeOK
    /\ claim \in [ClaimIds -> ClaimStatuses \cup {"UNFILED", "FILING"}]
    /\ route \in [ClaimIds -> {"NONE", "CANCEL", "RETURN"}]
    /\ approver \in [ClaimIds -> {"NOBODY", "SYSTEM", "ADMIN"}]
    /\ claimed \in [Variants -> Nat]
    /\ after \in [ClaimIds -> {"NOTHING", "REFUND", "RESTOCK"}]
    /\ before \in [ClaimIds -> SUBSET ClaimIds]

Living == {c \in Filed : claim[c] \notin Rejected}

(* OrderItem.claimedQuantity counts the units of the claims that live, and *)
(* never more of them than were bought: concurrent requests, rejections    *)
(* and repeated decisions neither lose a unit nor claim one twice.         *)
ClaimedOnce ==
    \A v \in Variants :
       /\ claimed[v] = UnitsOn(Living, v)
       /\ claimed[v] <= Ordered[v]

(* A share whose every unit is cancelled is CANCELED, however many claims  *)
(* it took and whoever decided the last; and none of it was shipped.       *)
CancelledShareEnds ==
    \A s \in Shares :
       (\A v \in LinesOf(s) : UnitsOn(Cancelled, v) = Ordered[v])
          => order[s] = "CANCELED"

(* A cancelled share never has a parcel, and one that is shipped always    *)
(* has; a parcel that has arrived belongs to a share that was delivered;   *)
(* and points are earned only for a share that was confirmed, though they  *)
(* are told of after the commit, from memory.                              *)
ParcelMatchesShare ==
    \A s \in Shares :
       /\ parcel[s] = NoParcel <=> order[s] \in {"PAID", "PREPARING", "CANCELED"}
       /\ parcel[s] = Delivered => order[s] \in {"DELIVERED", "CONFIRMED", "RETURNED"}
       /\ s \in earned \/ unsaid[s] # "nothing" => order[s] \in {"CONFIRMED", "RETURNED"}

(* Only what was sold and claimed comes back to the shelf: a variant's     *)
(* stock is what was left plus units of settled claims, each once however  *)
(* often the decision, its repetition or an inspection restocks them.      *)
ShelfMatchesClaims ==
    /\ RecordedOnce
    /\ \A v \in Variants :
          /\ stock[v] <= OpeningStock[v]
          /\ \A n \in DOMAIN ledger[v] : ledger[v][n].ref \in ClaimItems =>
                LET i == ledger[v][n].ref IN
                /\ ItemClaim[i] \in Cancelled \cup Returned
                /\ ItemVariant[i] = v /\ ledger[v][n].quantity = ItemQuantity[i]

-----------------------------------------------------------------------------
(* A scan listed earlier, repeated or made by hand never sends a parcel    *)
(* back, and no late request, job or retry undoes what has ended: a share  *)
(* that is cancelled, returned or confirmed, a claim rejected or refunded. *)
NothingTurnsBack ==
    [][/\ \A s \in Shares :
             /\ parcel[s] <= parcel'[s]
             /\ order[s] \in {"CANCELED", "RETURNED"} => order'[s] = order[s]
             /\ order[s] = "CONFIRMED" => order'[s] \in {"CONFIRMED", "RETURNED"}
       /\ \A c \in ClaimIds :
             claim[c] \in Rejected \cup {"REFUNDED"} => claim'[c] = claim[c]]_vars

(* Money that a claim was promised is paid back in the end, whatever the   *)
(* deciding process did after its commit, unless the payment refuses it    *)
(* for ever; or as many claims as the retry job lists, all of them refused *)
(* for ever, have awaited theirs for longer and are listed instead of it.  *)
ApprovedIsRefunded ==
    <>[](\A c \in Refundable \ Refused :
            Cardinality(before[c] \cap Refundable \cap Refused) >= RetryBatch)

(* A shipped share is delivered and closed in the end, though nobody       *)
(* presses a button; and one that is confirmed earns its points, unless    *)
(* the process stopped between the commit and the telling.                 *)
DeliveredIsClosed ==
    <>[](\A s \in Shares :
           /\ order[s] \notin {"SHIPPED", "DELIVERED"}
           /\ order[s] = "CONFIRMED" => s \in earned \/ stops > 0)

=============================================================================
