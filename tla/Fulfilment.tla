----------------------------- MODULE Fulfilment -----------------------------
(***************************************************************************)
(* What becomes of a paid share of an order (SellerOrder): the seller      *)
(* prepares and ships it, the simulated carrier or the seller moves the    *)
(* parcel, the buyer or the nightly job confirms the purchase, and points  *)
(* are earned for it (apps/api/src/orders, shipping, points).              *)
(*                                                                         *)
(* SellerOrderService.applyWithin locks the share's row, so each change of *)
(* status is one step at its commit.  What is not one step is modelled as  *)
(* several: the jobs list rows in one transaction and handle each in       *)
(* another, and what follows from a change is told after its commit, by    *)
(* a process that may stop before it does.                                 *)
(***************************************************************************)
EXTENDS Integers, FiniteSets

CONSTANTS
    Shares,      \* the SellerOrders
    Delivered,   \* the last place of a parcel; the code's ladder has four
    MaxStops     \* bound: how often the process stops, or loses a call

ASSUME FulfilmentAssumption ==
    /\ Delivered \in Nat /\ Delivered >= 2
    /\ MaxStops \in Nat

VARIABLES
    order,      \* SellerOrder.status
    parcel,     \* Shipment.status as its place on the ladder
    ripe,       \* shares delivered longer ago than the confirmation window
    listed,     \* what the delivery job read: the parcel's place, or NoParcel
    toConfirm,  \* shares the confirmation job has listed and not yet handled
    unsaid,     \* confirmations committed and not yet told
    earned,     \* shares whose EARN row is written
    stops       \* times the process stopped so far

fulfilmentVars ==
    <<order, parcel, ripe, listed, toConfirm, unsaid, earned, stops>>

OrderStatuses == {"PAID", "PREPARING", "SHIPPED", "DELIVERED", "CONFIRMED",
                  "CANCELED", "RETURNED"}

\* A Shipment is READY, IN_TRANSIT, OUT_FOR_DELIVERY, DELIVERED, in this order.
NoParcel == 0
Ready    == 1
Ladder   == NoParcel .. Delivered

\* Who may move a paid share from one status to another.
Movers == [
    PAID      |-> [PREPARING |-> {"SELLER", "SYSTEM"},
                   CANCELED  |-> {"SELLER", "ADMIN", "SYSTEM"}],
    PREPARING |-> [SHIPPED   |-> {"SELLER"},
                   CANCELED  |-> {"SELLER", "ADMIN", "SYSTEM"}],
    SHIPPED   |-> [DELIVERED |-> {"SYSTEM", "SELLER"}],
    DELIVERED |-> [CONFIRMED |-> {"BUYER", "SYSTEM"},
                   RETURNED  |-> {"SELLER", "ADMIN"}],
    CONFIRMED |-> [RETURNED  |-> {"ADMIN"}] ]

\* transitionDecision, the tracking number apart.
MayMove(from, to, actor) ==
    /\ from \in DOMAIN Movers
    /\ to \in DOMAIN Movers[from]
    /\ actor \in Movers[from][to]

\* applyWithin for a share that is elsewhere.
MoveShare(s, to, actor) ==
    /\ MayMove(order[s], to, actor)
    /\ order' = [order EXCEPT ![s] = to]

\* applyWithin where arriving twice is no error.
ApplyWithin(s, to, actor) ==
    IF order[s] = to THEN order' = order ELSE MoveShare(s, to, actor)

-----------------------------------------------------------------------------
(* POST /seller-orders/:id/transitions: never SYSTEM, and SHIPPED only     *)
(* with a tracking number, which is written together with the Shipment.    *)
(* A buyer's confirmation is told once it is committed.                    *)
Transition(s, to, actor) ==
    /\ actor # "SYSTEM"
    /\ to = "SHIPPED" => parcel[s] # NoParcel
    /\ MoveShare(s, to, actor)
    /\ unsaid' = [unsaid EXCEPT ![s] = IF to = "CONFIRMED" THEN "request" ELSE @]
    /\ UNCHANGED <<parcel, ripe, listed, toConfirm, earned, stops>>

\* Faulty: issues the parcel whatever the share's status.
ShipAnyway(s) ==
    /\ parcel[s] = NoParcel
    /\ parcel' = [parcel EXCEPT ![s] = Ready]
    /\ order' = [order EXCEPT ![s] = IF @ = "PREPARING" THEN "SHIPPED" ELSE @]
    /\ UNCHANGED <<ripe, listed, toConfirm, unsaid, earned, stops>>

\* The parcel, its tracking number and SHIPPED, in one transaction.
Ship(s) ==
    /\ parcel[s] = NoParcel
    /\ parcel' = [parcel EXCEPT ![s] = Ready]
    /\ MoveShare(s, "SHIPPED", "SELLER")
    /\ UNCHANGED <<ripe, listed, toConfirm, unsaid, earned, stops>>

\* Faulty: the report is taken for the parcel's place, late as it may be.
FurthestReported(place, reported) == reported

\* A scan that arrives late leaves the parcel where it is.
Furthest(place, reported) == IF reported > place THEN reported ELSE place

(* record: one scan.  Only the last one moves the share, and its refusal   *)
(* undoes the scan.                                                        *)
Scan(s, reported, actor) ==
    /\ parcel[s] # NoParcel
    /\ parcel' = [parcel EXCEPT ![s] = Furthest(@, reported)]
    /\ IF reported = Delivered THEN ApplyWithin(s, "DELIVERED", actor)
                               ELSE UNCHANGED order
    /\ UNCHANGED <<ripe, toConfirm, unsaid, earned, stops>>

(* POST .../advance: the next scan after a place read without a lock, any  *)
(* place the parcel has had.                                               *)
AdvanceByHand(s, actor) ==
    \E seen \in Ready .. parcel[s] :
       /\ seen # Delivered
       /\ Scan(s, seen + 1, actor)
       /\ UNCHANGED listed

\* markDelivered: straight to the end of the ladder.
MarkDelivered(s, actor) ==
    /\ parcel[s] # Delivered
    /\ Scan(s, Delivered, actor)
    /\ UNCHANGED listed

\* Faulty: lists only the parcels that have not left.
ListReady(s) ==
    /\ order[s] = "SHIPPED"
    /\ parcel[s] = Ready
    /\ listed[s] = NoParcel
    /\ listed' = [listed EXCEPT ![s] = parcel[s]]
    /\ UNCHANGED <<order, parcel, ripe, toConfirm, unsaid, earned, stops>>

\* The delivery job lists what is due.
ListDue(s) ==
    /\ order[s] = "SHIPPED"
    /\ parcel[s] \in Ready .. Delivered - 1
    /\ listed[s] = NoParcel
    /\ listed' = [listed EXCEPT ![s] = parcel[s]]
    /\ UNCHANGED <<order, parcel, ripe, toConfirm, unsaid, earned, stops>>

\* advanceOne: the scan that follows the place that was listed.
AdvanceListed(s) ==
    /\ listed[s] # NoParcel
    /\ Scan(s, listed[s] + 1, "SYSTEM")
    /\ listed' = [listed EXCEPT ![s] = NoParcel]

\* advanceOne fails: its error is logged and the cycle goes on.
AdvanceFails(s) ==
    /\ listed[s] = Delivered - 1
    /\ order[s] \notin {"SHIPPED", "DELIVERED"}
    /\ listed' = [listed EXCEPT ![s] = NoParcel]
    /\ UNCHANGED <<order, parcel, ripe, toConfirm, unsaid, earned, stops>>

-----------------------------------------------------------------------------
\* The window after delivery passes.
Ripen(s) ==
    /\ order[s] = "DELIVERED"
    /\ s \notin ripe
    /\ ripe' = ripe \cup {s}
    /\ UNCHANGED <<order, parcel, listed, toConfirm, unsaid, earned, stops>>

\* The confirmation job lists every share whose window has passed.
ListRipe ==
    /\ toConfirm = {} /\ \A s \in Shares : unsaid[s] # "cycle"
    /\ toConfirm' = {s \in ripe : order[s] = "DELIVERED"}
    /\ toConfirm' # {}
    /\ UNCHANGED <<order, parcel, ripe, listed, unsaid, earned, stops>>

(* confirmOne: no matter if it is confirmed by then; a share that left     *)
(* DELIVERED otherwise is a failure that is logged.  Its event waits for   *)
(* the end of the cycle.                                                   *)
ConfirmListed(s) ==
    /\ s \in toConfirm
    /\ toConfirm' = toConfirm \ {s}
    /\ IF order[s] = "DELIVERED"
       THEN /\ MoveShare(s, "CONFIRMED", "SYSTEM")
            /\ unsaid' = [unsaid EXCEPT ![s] = "cycle"]
       ELSE UNCHANGED <<order, unsaid>>
    /\ UNCHANGED <<parcel, ripe, listed, earned, stops>>

(* publish, then earnFor: a second EARN of a share is refused by the       *)
(* ledger's unique reference and ignored.                                  *)
Tell(s) ==
    /\ unsaid[s] # "nothing"
    /\ unsaid[s] = "cycle" => toConfirm = {}
    /\ unsaid' = [unsaid EXCEPT ![s] = "nothing"]
    /\ earned' = earned \cup {s}
    /\ UNCHANGED <<order, parcel, ripe, listed, toConfirm, stops>>

\* What was only in memory is gone.
Stop ==
    /\ stops < MaxStops
    /\ stops' = stops + 1
    /\ listed' = [s \in Shares |-> NoParcel]
    /\ toConfirm' = {}
    /\ unsaid' = [s \in Shares |-> "nothing"]
    /\ UNCHANGED <<order, parcel, ripe, earned>>

FulfilmentInit ==
    /\ order = [s \in Shares |-> "PAID"]
    /\ parcel = [s \in Shares |-> NoParcel]
    /\ listed = [s \in Shares |-> NoParcel]
    /\ unsaid = [s \in Shares |-> "nothing"]
    /\ ripe = {} /\ toConfirm = {} /\ earned = {}
    /\ stops = 0

\* The actions of people.
Work(s) ==
    \/ \E actor \in {"SELLER", "ADMIN", "BUYER"}, to \in OrderStatuses :
          Transition(s, to, actor)
    \/ Ship(s)
    \/ AdvanceByHand(s, "SELLER")
    \/ MarkDelivered(s, "SELLER")

\* The steps of the jobs and of what follows a commit.
Jobs(s) ==
    \/ ListDue(s) \/ AdvanceListed(s) \/ AdvanceFails(s)
    \/ Ripen(s) \/ ConfirmListed(s) \/ Tell(s)

(* The jobs run on a timer and end their cycles; time passes; and a        *)
(* process that has not stopped tells what it committed.                   *)
JobsRun ==
    /\ \A s \in Shares : WF_fulfilmentVars(Jobs(s))
    /\ WF_fulfilmentVars(ListRipe)

=============================================================================
