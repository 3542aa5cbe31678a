---------------------------- MODULE ClaimsProofs ----------------------------
(***************************************************************************)
(* What holds of claims for any shares, claims, items and quantities: the  *)
(* counter of claimed units is the units of the living claims, no share,   *)
(* parcel or claim turns back, a share whose every unit is cancelled is    *)
(* CANCELED, and the shelf gets back only what settled claims are for.     *)
(*                                                                         *)
(* The proof has three layers, each resting on the one before: the shares  *)
(* with their parcels, the claims with the counter of units, and the       *)
(* ledger.  A step is first described by what it does to each layer        *)
(* (SharesMove, ClaimsMove, ShelfMoves), and the invariants are shown of   *)
(* these descriptions.                                                     *)
(***************************************************************************)
EXTENDS Claims, DataProofs

-----------------------------------------------------------------------------
(* The transition tables, arrow by arrow.                                  *)

LEMMA ShareArrows ==
    ASSUME NEW from, NEW to, NEW actor, MayMove(from, to, actor)
    PROVE  \/ from = "PAID" /\ to \in {"PREPARING", "CANCELED"}
           \/ from = "PREPARING" /\ to \in {"SHIPPED", "CANCELED"}
           \/ from = "SHIPPED" /\ to = "DELIVERED"
           \/ from = "DELIVERED" /\ to \in {"CONFIRMED", "RETURNED"}
           \/ from = "CONFIRMED" /\ to = "RETURNED"
<1>1. from \in {"PAID", "PREPARING", "SHIPPED", "DELIVERED", "CONFIRMED"}
  BY DEF MayMove, Movers
<1>2. CASE from \in {"PAID", "PREPARING"}
  BY <1>2 DEF MayMove, Movers
<1>3. CASE from \in {"SHIPPED", "DELIVERED", "CONFIRMED"}
  BY <1>3 DEF MayMove, Movers
<1> QED BY <1>1, <1>2, <1>3

LEMMA ClaimArrows ==
    ASSUME NEW from, NEW to, NEW actor, MayMoveClaim(from, to, actor)
    PROVE  \/ from = "CANCEL_REQUESTED" /\ to \in {"CANCEL_APPROVED", "CANCEL_REJECTED"}
           \/ from = "RETURN_REQUESTED" /\ to \in {"RETURN_APPROVED", "RETURN_REJECTED"}
           \/ from = "RETURN_APPROVED" /\ to = "PICKING_UP"
           \/ from = "PICKING_UP" /\ to = "INSPECTING"
           \/ from = "INSPECTING" /\ to \in {"RETURN_COMPLETED", "RETURN_REJECTED"}
           \/ from \in {"CANCEL_APPROVED", "RETURN_COMPLETED"} /\ to = "REFUNDED"
<1>1. from \in {"CANCEL_REQUESTED", "RETURN_REQUESTED", "RETURN_APPROVED", "PICKING_UP",
                "INSPECTING", "CANCEL_APPROVED", "RETURN_COMPLETED"}
  BY DEF MayMoveClaim, ClaimMovers
<1>2. CASE from \in {"CANCEL_REQUESTED", "RETURN_REQUESTED"}
  BY <1>2 DEF MayMoveClaim, ClaimMovers
<1>3. CASE from \in {"RETURN_APPROVED", "PICKING_UP", "INSPECTING"}
  BY <1>3 DEF MayMoveClaim, ClaimMovers
<1>4. CASE from \in {"CANCEL_APPROVED", "RETURN_COMPLETED"}
  BY <1>4 DEF MayMoveClaim, ClaimMovers
<1> QED BY <1>1, <1>2, <1>3, <1>4

\* Every status a claim may have.
LEMMA ClaimStatusesAre ==
    ClaimStatuses = {"CANCEL_REQUESTED", "RETURN_REQUESTED", "RETURN_APPROVED", "PICKING_UP",
                     "INSPECTING", "CANCEL_APPROVED", "RETURN_COMPLETED",
                     "CANCEL_REJECTED", "RETURN_REJECTED", "REFUNDED"}
BY DEF ClaimStatuses, ClaimMovers

-----------------------------------------------------------------------------
(* The shares and their parcels.                                           *)

ShareTypeOK ==
    /\ order \in [Shares -> OrderStatuses]
    /\ parcel \in [Shares -> Ladder]
    /\ listed \in [Shares -> NoParcel .. Delivered - 1]
    /\ unsaid \in [Shares -> {"nothing", "request", "cycle"}]
    /\ ripe \subseteq Shares /\ toConfirm \subseteq Shares /\ earned \subseteq Shares
    /\ stops \in 0 .. MaxStops

SharesSound == ShareTypeOK /\ ParcelMatchesShare

\* A step's effect on the status of a share: none, or an arrow of the table.
Arrow(s) ==
    \/ order'[s] = order[s]
    \/ order[s] = "PAID" /\ order'[s] \in {"PREPARING", "CANCELED"}
    \/ order[s] = "PREPARING" /\ order'[s] \in {"SHIPPED", "CANCELED"}
    \/ order[s] = "SHIPPED" /\ order'[s] = "DELIVERED"
    \/ order[s] = "DELIVERED" /\ order'[s] \in {"CONFIRMED", "RETURNED"}
    \/ order[s] = "CONFIRMED" /\ order'[s] = "RETURNED"

\* A step's effect on a parcel: none, issued, scanned on, or delivered.
Carried(s) ==
    \/ parcel'[s] = parcel[s] /\ (order'[s] = "SHIPPED" => parcel[s] # NoParcel)
    \/ parcel[s] = NoParcel /\ parcel'[s] = Ready /\ order[s] = "PREPARING" /\ order'[s] = "SHIPPED"
    \/ /\ parcel[s] # NoParcel /\ parcel'[s] \in parcel[s] .. Delivered - 1
       /\ order'[s] = order[s]
    \/ parcel[s] # NoParcel /\ parcel'[s] = Delivered /\ order'[s] = "DELIVERED"

\* A step's effect on what a confirmation brings.
Told(s) ==
    s \in earned' \/ unsaid'[s] # "nothing" =>
       s \in earned \/ unsaid[s] # "nothing" \/ order'[s] = "CONFIRMED"

\* What any step does to the shares.
SharesMove ==
    /\ ShareTypeOK'
    /\ \A s \in Shares : Arrow(s) /\ Carried(s) /\ Told(s)

LEMMA MoveShareIs ==
    ASSUME ShareTypeOK, NEW s \in Shares, NEW to, NEW actor, MoveShare(s, to, actor)
    PROVE  /\ order' \in [Shares -> OrderStatuses]
           /\ order'[s] = to /\ to # "PAID"
           /\ \A r \in Shares : Arrow(r) /\ (r # s => order'[r] = order[r])
<1>1. /\ MayMove(order[s], to, actor) /\ order' = [order EXCEPT ![s] = to]
      /\ order \in [Shares -> OrderStatuses]
  BY DEF MoveShare, ShareTypeOK
<1>2. to \in OrderStatuses /\ to # "PAID"
  BY <1>1, ShareArrows DEF OrderStatuses
<1> QED BY <1>1, <1>2, ShareArrows DEF Arrow

\* Where arriving twice is no error.
LEMMA ApplyWithinIs ==
    ASSUME ShareTypeOK, NEW s \in Shares, NEW to, NEW actor, ApplyWithin(s, to, actor)
    PROVE  /\ order' \in [Shares -> OrderStatuses]
           /\ order'[s] = to
           /\ \A r \in Shares : Arrow(r) /\ (r # s => order'[r] = order[r])
<1>1. CASE order[s] = to /\ order' = order
  BY <1>1 DEF ShareTypeOK, Arrow
<1>2. CASE MoveShare(s, to, actor)
  BY <1>2, MoveShareIs
<1> QED BY <1>1, <1>2 DEF ApplyWithin

\* A decision moves at most the claim's share, to CANCELED or RETURNED.
LEMMA SettleShareIs ==
    ASSUME ShareTypeOK, NEW c \in ClaimIds, NEW to, NEW actor, SettleShare(c, to, actor)
    PROVE  /\ order' \in [Shares -> OrderStatuses]
           /\ \A r \in Shares : Arrow(r) /\ (order'[r] = order[r] \/ order'[r] \in {"CANCELED", "RETURNED"})
           /\ to = "CANCEL_APPROVED" /\ CancelsAll(ShareOf[c], c) => order'[ShareOf[c]] = "CANCELED"
<1> DEFINE s == ShareOf[c]
<1>0. s \in Shares
  BY ClaimsAssumption
<1> HIDE DEF s
<1>1. CASE to = "CANCEL_APPROVED" /\ CancelsAll(s, c)
  <2>1. ApplyWithin(s, "CANCELED", actor)
    BY <1>1 DEF SettleShare, s
  <2> QED BY <1>0, <2>1, ApplyWithinIs DEF s
<1>2. CASE to = "RETURN_COMPLETED" /\ ReturnsAll(s, c)
  <2>1. ApplyWithin(s, "RETURNED", actor)
    BY <1>2 DEF SettleShare, s
  <2> QED BY <1>0, <1>2, <2>1, ApplyWithinIs DEF s
<1>3. CASE ~(to = "CANCEL_APPROVED" /\ CancelsAll(s, c)) /\ ~(to = "RETURN_COMPLETED" /\ ReturnsAll(s, c))
  <2>1. order' = order
    BY <1>3 DEF SettleShare, s
  <2> QED BY <1>3, <2>1 DEF s, ShareTypeOK, Arrow
<1> QED BY <1>1, <1>2, <1>3

\* The parcel and what is told are left alone, and the status may move.
LEMMA StatusOnly ==
    ASSUME SharesSound, UNCHANGED Fulfilled, order' \in [Shares -> OrderStatuses],
           \A r \in Shares : Arrow(r) /\ (order'[r] = order[r] \/ order'[r] # "SHIPPED")
    PROVE  SharesMove
<1> USE DEF SharesSound, Fulfilled
<1>1. ShareTypeOK'
  BY DEF ShareTypeOK
<1>2. ASSUME NEW r \in Shares PROVE Arrow(r) /\ Carried(r) /\ Told(r)
  BY DEF Carried, Told, ParcelMatchesShare
<1> QED BY <1>1, <1>2 DEF SharesMove

\* One scan, with the status the last of them brings.
LEMMA ScanMoves ==
    ASSUME SharesSound, NEW s \in Shares, NEW reported \in Ladder, NEW actor,
           Scan(s, reported, actor), listed' \in [Shares -> NoParcel .. Delivered - 1]
    PROVE  SharesMove
<1> USE FulfilmentAssumption DEF SharesSound, Ladder, NoParcel, Ready
<1>0. /\ parcel[s] # 0 /\ parcel \in [Shares -> 0 .. Delivered]
      /\ parcel' = [parcel EXCEPT ![s] = Furthest(@, reported)]
      /\ UNCHANGED <<ripe, toConfirm, unsaid, earned, stops>>
  BY DEF Scan, ShareTypeOK
<1>1. /\ Furthest(parcel[s], reported) \in parcel[s] .. Delivered
      /\ Furthest(parcel[s], reported) = Delivered => reported = Delivered \/ parcel[s] = Delivered
      /\ reported = Delivered => Furthest(parcel[s], reported) = Delivered
  BY <1>0 DEF Furthest
<1>2. /\ parcel' \in [Shares -> 0 .. Delivered]
      /\ parcel'[s] = Furthest(parcel[s], reported)
      /\ \A r \in Shares : r # s => parcel'[r] = parcel[r]
  BY <1>0, <1>1
<1>3. CASE reported = Delivered
  <2>1. ApplyWithin(s, "DELIVERED", actor)
    BY <1>3 DEF Scan
  <2>2. /\ order' \in [Shares -> OrderStatuses] /\ order'[s] = "DELIVERED"
        /\ \A r \in Shares : Arrow(r) /\ (r # s => order'[r] = order[r])
    BY <2>1, ApplyWithinIs
  <2>3. ShareTypeOK'
    BY <1>0, <1>2, <2>2 DEF ShareTypeOK
  <2>4. ASSUME NEW r \in Shares PROVE Carried(r) /\ Told(r)
    BY <1>0, <1>1, <1>2, <1>3, <2>2 DEF Carried, Told, ParcelMatchesShare
  <2> QED BY <2>2, <2>3, <2>4 DEF SharesMove
<1>4. CASE reported # Delivered
  <2>1. order' = order
    BY <1>4 DEF Scan
  <2>2. ShareTypeOK'
    BY <1>0, <1>2, <2>1 DEF ShareTypeOK
  <2>3. ASSUME NEW r \in Shares PROVE Arrow(r) /\ Told(r)
    BY <1>0, <2>1 DEF Arrow, Told
  <2>4. ASSUME NEW r \in Shares PROVE Carried(r)
    <3>1. CASE r # s
      BY <1>2, <2>1, <3>1 DEF Carried, ParcelMatchesShare
    <3>2. CASE r = s /\ parcel[s] = Delivered
      BY <1>0, <1>1, <1>2, <2>1, <3>2 DEF Carried
    <3>3. CASE r = s /\ parcel[s] # Delivered
      BY <1>0, <1>1, <1>2, <1>4, <2>1, <3>3 DEF Carried
    <3> QED BY <3>1, <3>2, <3>3
  <2> QED BY <2>2, <2>3, <2>4 DEF SharesMove
<1> QED BY <1>3, <1>4

\* The actions of people.
LEMMA WorkMoves ==
    ASSUME SharesSound, NEW s \in Shares, Work(s)
    PROVE  SharesMove
<1> USE FulfilmentAssumption DEF SharesSound
<1>0. ShareTypeOK
  OBVIOUS
<1>1. ASSUME NEW actor, NEW to \in OrderStatuses, Transition(s, to, actor)
      PROVE  SharesMove
  <2>1. /\ to = "SHIPPED" => parcel[s] # NoParcel
        /\ MoveShare(s, to, actor)
        /\ unsaid' = [unsaid EXCEPT ![s] = IF to = "CONFIRMED" THEN "request" ELSE @]
        /\ UNCHANGED <<parcel, ripe, listed, toConfirm, earned, stops>>
    BY <1>1 DEF Transition
  <2>2. /\ order' \in [Shares -> OrderStatuses] /\ order'[s] = to
        /\ \A r \in Shares : Arrow(r) /\ (r # s => order'[r] = order[r])
    BY <2>1, MoveShareIs
  <2>3. unsaid' \in [Shares -> {"nothing", "request", "cycle"}]
    BY <2>1 DEF ShareTypeOK
  <2>4. ShareTypeOK'
    BY <2>1, <2>2, <2>3 DEF ShareTypeOK
  <2>5. ASSUME NEW r \in Shares PROVE Carried(r) /\ Told(r)
    BY <2>1, <2>2 DEF ShareTypeOK, Carried, Told, ParcelMatchesShare
  <2> QED BY <2>2, <2>4, <2>5 DEF SharesMove
<1>2. CASE Ship(s)
  <2>1. /\ parcel[s] = NoParcel /\ parcel' = [parcel EXCEPT ![s] = Ready]
        /\ MoveShare(s, "SHIPPED", "SELLER")
        /\ UNCHANGED <<ripe, listed, toConfirm, unsaid, earned, stops>>
    BY <1>2 DEF Ship
  <2>2. /\ order' \in [Shares -> OrderStatuses] /\ order'[s] = "SHIPPED"
        /\ \A r \in Shares : Arrow(r) /\ (r # s => order'[r] = order[r])
    BY <2>1, MoveShareIs
  <2>3. order[s] = "PREPARING"
    BY <2>1, ShareArrows DEF MoveShare
  <2>4. parcel' \in [Shares -> Ladder]
    BY <2>1 DEF ShareTypeOK, Ladder, Ready, NoParcel
  <2>5. ShareTypeOK'
    BY <2>1, <2>2, <2>4 DEF ShareTypeOK
  <2>6. ASSUME NEW r \in Shares PROVE Carried(r) /\ Told(r)
    BY <2>1, <2>2, <2>3 DEF ShareTypeOK, Carried, Told, ParcelMatchesShare
  <2> QED BY <2>2, <2>5, <2>6 DEF SharesMove
<1>3. CASE AdvanceByHand(s, "SELLER")
  <2>1. PICK seen \in Ready .. parcel[s] :
           seen # Delivered /\ Scan(s, seen + 1, "SELLER") /\ UNCHANGED listed
    BY <1>3 DEF AdvanceByHand
  <2>2. seen + 1 \in Ladder
    BY <2>1 DEF ShareTypeOK, Ladder, Ready, NoParcel
  <2>3. listed' \in [Shares -> NoParcel .. Delivered - 1]
    BY <2>1 DEF ShareTypeOK
  <2> QED BY <2>1, <2>2, <2>3, ScanMoves
<1>4. CASE MarkDelivered(s, "SELLER")
  <2>1. Delivered \in Ladder
    BY DEF Ladder, NoParcel
  <2>2. listed' \in [Shares -> NoParcel .. Delivered - 1]
    BY <1>4 DEF ShareTypeOK, MarkDelivered
  <2> QED BY <1>4, <2>1, <2>2, ScanMoves DEF MarkDelivered
<1> QED BY <1>1, <1>2, <1>3, <1>4 DEF Work

\* The jobs, and what follows a commit.
LEMMA JobMoves ==
    ASSUME SharesSound, NEW s \in Shares, Jobs(s)
    PROVE  SharesMove
<1> USE FulfilmentAssumption DEF SharesSound
<1>1. CASE ListDue(s) \/ AdvanceFails(s) \/ Ripen(s)
  <2>1. UNCHANGED <<order, parcel, unsaid, earned>>
    BY <1>1 DEF ListDue, AdvanceFails, Ripen
  <2>2. ShareTypeOK'
    <3>1. CASE ListDue(s)
      BY <3>1 DEF ShareTypeOK, ListDue, Ready, NoParcel
    <3>2. CASE AdvanceFails(s)
      BY <3>2 DEF ShareTypeOK, AdvanceFails, NoParcel
    <3>3. CASE Ripen(s)
      BY <3>3 DEF ShareTypeOK, Ripen
    <3> QED BY <1>1, <3>1, <3>2, <3>3
  <2> QED BY <2>1, <2>2 DEF SharesMove, Arrow, Carried, Told, ParcelMatchesShare
<1>2. CASE AdvanceListed(s)
  <2>1. listed[s] + 1 \in Ladder /\ listed' \in [Shares -> NoParcel .. Delivered - 1]
    BY <1>2 DEF AdvanceListed, ShareTypeOK, Ladder, NoParcel
  <2> QED BY <1>2, <2>1, ScanMoves DEF AdvanceListed
<1>3. CASE ConfirmListed(s)
  <2>1. /\ toConfirm' = toConfirm \ {s}
        /\ UNCHANGED <<parcel, ripe, listed, earned, stops>>
    BY <1>3 DEF ConfirmListed
  <2>2. \/ UNCHANGED <<order, unsaid>>
        \/ /\ MoveShare(s, "CONFIRMED", "SYSTEM")
           /\ unsaid' = [unsaid EXCEPT ![s] = "cycle"]
    BY <1>3 DEF ConfirmListed
  <2>3. CASE UNCHANGED <<order, unsaid>>
    <3>1. ShareTypeOK'
      BY <2>1, <2>3 DEF ShareTypeOK
    <3> QED BY <2>1, <2>3, <3>1 DEF SharesMove, Arrow, Carried, Told, ParcelMatchesShare
  <2>4. CASE MoveShare(s, "CONFIRMED", "SYSTEM") /\ unsaid' = [unsaid EXCEPT ![s] = "cycle"]
    <3>1. /\ order' \in [Shares -> OrderStatuses] /\ order'[s] = "CONFIRMED"
          /\ \A r \in Shares : Arrow(r) /\ (r # s => order'[r] = order[r])
      BY <2>4, MoveShareIs
    <3>2. ShareTypeOK'
      BY <2>1, <2>4, <3>1 DEF ShareTypeOK
    <3>3. ASSUME NEW r \in Shares PROVE Carried(r) /\ Told(r)
      BY <2>1, <2>4, <3>1 DEF ShareTypeOK, Carried, Told, ParcelMatchesShare
    <3> QED BY <3>1, <3>2, <3>3 DEF SharesMove
  <2> QED BY <2>2, <2>3, <2>4
<1>4. CASE Tell(s)
  <2>1. /\ unsaid[s] # "nothing" /\ unsaid' = [unsaid EXCEPT ![s] = "nothing"]
        /\ earned' = earned \cup {s}
        /\ UNCHANGED <<order, parcel, ripe, listed, toConfirm, stops>>
    BY <1>4 DEF Tell
  <2>2. ShareTypeOK'
    BY <2>1 DEF ShareTypeOK
  <2>3. ASSUME NEW r \in Shares PROVE Arrow(r) /\ Carried(r) /\ Told(r)
    BY <2>1 DEF ShareTypeOK, Arrow, Carried, Told, ParcelMatchesShare
  <2> QED BY <2>2, <2>3 DEF SharesMove
<1> QED BY <1>1, <1>2, <1>3, <1>4 DEF Jobs

LEMMA StepMovesShares ==
    ASSUME SharesSound, [ClaimsNext]_vars
    PROVE  SharesMove
<1> USE DEF SharesSound
<1>1. ASSUME UNCHANGED fulfilmentVars PROVE SharesMove
  <2>1. order' \in [Shares -> OrderStatuses] /\ \A r \in Shares : Arrow(r) /\ order'[r] = order[r]
    BY <1>1 DEF fulfilmentVars, ShareTypeOK, Arrow
  <2> QED BY <1>1, <2>1, StatusOnly DEF fulfilmentVars, Fulfilled
<1>2. CASE ShareStep
  <2>1. CASE ListRipe
    <3>1. ShareTypeOK'
      BY <2>1 DEF ListRipe, ShareTypeOK
    <3> QED BY <2>1, <3>1 DEF ListRipe, SharesMove, Arrow, Carried, Told, ParcelMatchesShare
  <2> QED BY <1>2, <2>1, WorkMoves, JobMoves DEF ShareStep
<1>3. ASSUME NEW c \in ClaimIds, ClaimStep(c) PROVE SharesMove
  <2>1. ASSUME NEW to, NEW actor, SettleShare(c, to, actor), UNCHANGED Fulfilled PROVE SharesMove
    BY <2>1, SettleShareIs, StatusOnly
  <2>2. CASE FileClaim(c)
    BY <2>1, <2>2 DEF FileClaim
  <2>3. ASSUME NEW actor, PassInspection(c, actor) PROVE SharesMove
    <3>1. UNCHANGED Fulfilled /\ (MoveClaim(c, "RETURN_COMPLETED", actor) \/ UNCHANGED order)
      BY <2>3 DEF PassInspection
    <3> QED BY <1>1, <2>1, <3>1 DEF MoveClaim, Fulfilled, fulfilmentVars
  <2>4. ASSUME NEW actor, NEW to, Decide(c, to, actor) PROVE SharesMove
    BY <2>1, <2>4 DEF Decide, MoveClaim
  <2>5. CASE RestockFails(c)
    <3>1. UNCHANGED <<order, parcel, ripe, listed, toConfirm, unsaid, earned>> /\ stops' \in 0 .. MaxStops
      BY <2>5, FulfilmentAssumption DEF RestockFails, ShareTypeOK
    <3>2. ShareTypeOK'
      BY <3>1 DEF ShareTypeOK
    <3> QED BY <3>1, <3>2 DEF SharesMove, Arrow, Carried, Told, ParcelMatchesShare
  <2>6. ASSUME NEW actor, ReadRoute(c, actor) PROVE SharesMove
    BY <1>1, <2>6 DEF ReadRoute
  <2>7. CASE DropFiling(c) \/ Refund(c) \/ RetryRefund(c) \/ Restock(c)
    BY <1>1, <2>7 DEF DropFiling, Refund, RetryRefund, Restock
  <2> QED BY <1>3, <2>2, <2>3, <2>4, <2>5, <2>6, <2>7 DEF ClaimStep
<1>4. CASE StopAll
  <2>1. /\ UNCHANGED <<order, parcel, ripe, earned>> /\ stops' \in 0 .. MaxStops
        /\ listed' = [r \in Shares |-> NoParcel] /\ toConfirm' = {}
        /\ unsaid' = [r \in Shares |-> "nothing"]
    BY <1>4, FulfilmentAssumption DEF StopAll, Stop, ShareTypeOK
  <2>2. ShareTypeOK'
    BY <2>1, FulfilmentAssumption DEF ShareTypeOK, NoParcel
  <2> QED BY <2>1, <2>2 DEF SharesMove, Arrow, Carried, Told, ParcelMatchesShare
<1>5. CASE UNCHANGED vars
  BY <1>1, <1>5 DEF vars
<1> QED BY <1>2, <1>3, <1>4, <1>5 DEF ClaimsNext

\* What the shares' layer keeps.
LEMMA SharesStaySound ==
    ASSUME SharesSound, SharesMove
    PROVE  /\ SharesSound'
           /\ \A s \in Shares :
                 /\ parcel[s] <= parcel'[s]
                 /\ order[s] \in {"CANCELED", "RETURNED"} => order'[s] = order[s]
                 /\ order[s] = "CONFIRMED" => order'[s] \in {"CONFIRMED", "RETURNED"}
<1> USE FulfilmentAssumption DEF SharesSound, SharesMove
<1>1. ASSUME NEW s \in Shares
      PROVE  /\ parcel'[s] = NoParcel <=> order'[s] \in {"PAID", "PREPARING", "CANCELED"}
             /\ parcel'[s] = Delivered => order'[s] \in {"DELIVERED", "CONFIRMED", "RETURNED"}
             /\ parcel[s] <= parcel'[s]
  BY DEF ShareTypeOK, Ladder, NoParcel, Ready, Arrow, Carried, ParcelMatchesShare
<1>2. ASSUME NEW s \in Shares
      PROVE  s \in earned' \/ unsaid'[s] # "nothing" => order'[s] \in {"CONFIRMED", "RETURNED"}
  BY DEF Arrow, Told, ParcelMatchesShare
<1>3. ParcelMatchesShare'
  BY <1>1, <1>2 DEF ParcelMatchesShare
<1>4. ASSUME NEW s \in Shares
      PROVE  /\ order[s] \in {"CANCELED", "RETURNED"} => order'[s] = order[s]
             /\ order[s] = "CONFIRMED" => order'[s] \in {"CONFIRMED", "RETURNED"}
  BY DEF Arrow
<1> QED BY <1>1, <1>3, <1>4

-----------------------------------------------------------------------------
(* The claims and the counter of claimed units.                            *)

LEMMA ItemsAreRows == Amounts(ClaimItems, ItemQuantity)
BY ClaimsAssumption DEF Amounts

\* The items of a set of claims on one variant.
On(C, v) == {i \in ItemsOf(C) : ItemVariant[i] = v}

LEMMA UnitsAre ==
    ASSUME NEW C \in SUBSET ClaimIds, NEW D \in SUBSET ClaimIds, NEW v
    PROVE  /\ UnitsOn(C, v) \in Nat
           /\ C \cap D = {} => UnitsOn(C \cup D, v) = UnitsOn(C, v) + UnitsOn(D, v)
           /\ D \subseteq C => /\ UnitsOn(C \ D, v) = UnitsOn(C, v) - UnitsOn(D, v)
                               /\ UnitsOn(D, v) <= UnitsOn(C, v)
<1> USE DEF UnitsOn, On
<1>1. On(C, v) \in SUBSET ClaimItems /\ On(D, v) \in SUBSET ClaimItems
  BY DEF ItemsOf
<1>2. UnitsOn(C, v) \in Nat
  BY <1>1, ItemsAreRows, SumType
<1>3. ASSUME C \cap D = {} PROVE UnitsOn(C \cup D, v) = UnitsOn(C, v) + UnitsOn(D, v)
  <2>1. On(C \cup D, v) = On(C, v) \cup On(D, v) /\ On(C, v) \cap On(D, v) = {}
    BY <1>3 DEF ItemsOf
  <2> HIDE DEF On
  <2>2. SumOver(On(C, v) \cup On(D, v), ItemQuantity) =
           SumOver(On(C, v), ItemQuantity) + SumOver(On(D, v), ItemQuantity)
    BY <1>1, <2>1, ItemsAreRows, SumDisjoint
  <2>3. \A E : UnitsOn(E, v) = SumOver(On(E, v), ItemQuantity)
    BY DEF On
  <2> QED BY <2>1, <2>2, <2>3
<1>4. ASSUME D \subseteq C
      PROVE  /\ UnitsOn(C \ D, v) = UnitsOn(C, v) - UnitsOn(D, v)
             /\ UnitsOn(D, v) <= UnitsOn(C, v)
  <2>1. On(C \ D, v) = On(C, v) \ On(D, v) /\ On(D, v) \in SUBSET On(C, v)
    BY <1>4 DEF ItemsOf
  <2> HIDE DEF On
  <2>2. /\ SumOver(On(C, v) \ On(D, v), ItemQuantity) =
              SumOver(On(C, v), ItemQuantity) - SumOver(On(D, v), ItemQuantity)
        /\ SumOver(On(D, v), ItemQuantity) <= SumOver(On(C, v), ItemQuantity)
    BY <1>1, <2>1, ItemsAreRows, SumMinus
  <2>3. \A E : UnitsOn(E, v) = SumOver(On(E, v), ItemQuantity)
    BY DEF On
  <2> QED BY <2>1, <2>2, <2>3
<1> QED BY <1>2, <1>3, <1>4

\* The units of one claim, put to or taken from those of others.
LEMMA OneClaim ==
    ASSUME NEW C \in SUBSET ClaimIds, NEW c \in ClaimIds, NEW v
    PROVE  /\ UnitsOn({c}, v) \in Nat
           /\ c \notin C => UnitsOn(C \cup {c}, v) = UnitsOn(C, v) + UnitsOn({c}, v)
           /\ c \in C => /\ UnitsOn(C \ {c}, v) = UnitsOn(C, v) - UnitsOn({c}, v)
                         /\ UnitsOn({c}, v) <= UnitsOn(C, v)
<1> DEFINE D == {c}
<1>1. D \in SUBSET ClaimIds /\ (c \notin C => C \cap D = {}) /\ (c \in C => D \subseteq C)
  OBVIOUS
<1> HIDE DEF D
<1>2. /\ UnitsOn(D, v) \in Nat
      /\ c \notin C => UnitsOn(C \cup D, v) = UnitsOn(C, v) + UnitsOn(D, v)
      /\ c \in C => /\ UnitsOn(C \ D, v) = UnitsOn(C, v) - UnitsOn(D, v)
                    /\ UnitsOn(D, v) <= UnitsOn(C, v)
  <2>1. UnitsOn(D, v) \in Nat
    BY <1>1, UnitsAre
  <2> QED BY <1>1, <2>1, UnitsAre
<1> QED BY <1>2 DEF D

ClaimTypeOK ==
    /\ claim \in [ClaimIds -> ClaimStatuses \cup {"UNFILED", "FILING"}]
    /\ route \in [ClaimIds -> {"NONE", "CANCEL", "RETURN"}]
    /\ approver \in [ClaimIds -> {"NOBODY", "SYSTEM", "ADMIN"}]
    /\ claimed \in [Variants -> Nat]
    /\ after \in [ClaimIds -> {"NOTHING", "REFUND", "RESTOCK"}]
    /\ before \in [ClaimIds -> SUBSET ClaimIds]

CancelSide == {"CANCEL_REQUESTED", "CANCEL_APPROVED", "CANCEL_REJECTED"}
ReturnSide == {"RETURN_REQUESTED", "RETURN_APPROVED", "PICKING_UP", "INSPECTING",
               "RETURN_COMPLETED", "RETURN_REJECTED"}

(* A claim keeps to the route that was read when it was filed.             *)
RoutesMatch ==
    \A c \in ClaimIds :
       /\ claim[c] = "FILING" => route[c] # "NONE"
       /\ claim[c] \in CancelSide => route[c] = "CANCEL"
       /\ claim[c] \in ReturnSide => route[c] = "RETURN"

ClaimsSound == ClaimTypeOK /\ RoutesMatch /\ ClaimedOnce

\* A claim that a step leaves as it is, or that is still not stored.
Rests(d) ==
    \/ claim'[d] = claim[d] /\ route'[d] = route[d]
    \/ claim[d] \notin ClaimStatuses /\ claim'[d] = "UNFILED"
    \/ claim[d] \notin ClaimStatuses /\ claim'[d] = "FILING" /\ route'[d] # "NONE"

\* With the approval that cancels its last unit, the share ends.
EndsShare(c, to) ==
    to = "CANCEL_APPROVED" /\ CancelsAll(ShareOf[c], c) => order'[ShareOf[c]] = "CANCELED"

Filing(c, at) ==
    /\ claim[c] = "FILING" /\ claim' = [claim EXCEPT ![c] = at] /\ route' = route
    /\ at \in (IF route[c] = "CANCEL" THEN {"CANCEL_REQUESTED", "CANCEL_APPROVED"}
                                      ELSE {"RETURN_REQUESTED", "RETURN_APPROVED"})
    /\ HoldUnits(c)
    /\ EndsShare(c, at)

Moving(c, to) ==
    /\ \E actor : MayMoveClaim(claim[c], to, actor)
    /\ claim' = [claim EXCEPT ![c] = to] /\ route' = route
    /\ ReleaseUnits(c, to)
    /\ EndsShare(c, to)

\* What any step does to the claims.
ClaimsMove ==
    /\ route' \in [ClaimIds -> {"NONE", "CANCEL", "RETURN"}]
    /\ approver' \in [ClaimIds -> {"NOBODY", "SYSTEM", "ADMIN"}]
    /\ after' \in [ClaimIds -> {"NOTHING", "REFUND", "RESTOCK"}]
    /\ before' \in [ClaimIds -> SUBSET ClaimIds]
    /\ \/ claim' \in [ClaimIds -> ClaimStatuses \cup {"UNFILED", "FILING"}]
          /\ claimed' = claimed /\ \A d \in ClaimIds : Rests(d)
       \/ \E c \in ClaimIds, to \in ClaimStatuses : Filing(c, to) \/ Moving(c, to)

LEMMA AwaitsFromIs ==
    ASSUME before \in [ClaimIds -> SUBSET ClaimIds], NEW c \in ClaimIds, NEW to, AwaitsFrom(c, to)
    PROVE  before' \in [ClaimIds -> SUBSET ClaimIds]
<1>1. Refundable \in SUBSET ClaimIds
  BY DEF Refundable, Filed
<1> QED BY <1>1 DEF AwaitsFrom

LEMMA StepMovesClaims ==
    ASSUME SharesSound, ClaimTypeOK, [ClaimsNext]_vars
    PROVE  ClaimsMove
<1>0. ShareTypeOK
  BY DEF SharesSound
<1>1. ASSUME UNCHANGED claimVars PROVE ClaimsMove
  BY <1>1 DEF claimVars, ClaimTypeOK, ClaimsMove, Rests
<1>2. ASSUME NEW c \in ClaimIds, ClaimStep(c) PROVE ClaimsMove
  <2>1. ASSUME NEW actor \in {"BUYER", "ADMIN"}, ReadRoute(c, actor) PROVE ClaimsMove
    <3>1. PICK way \in {"CANCEL", "RETURN"}, by \in {"NOBODY", "SYSTEM", "ADMIN"} :
             /\ route' = [route EXCEPT ![c] = way] /\ approver' = [approver EXCEPT ![c] = by]
             /\ claim[c] = "UNFILED" /\ claim' = [claim EXCEPT ![c] = "FILING"]
             /\ UNCHANGED <<claimed, after, before>>
      BY <2>1 DEF ReadRoute
    <3>2. "UNFILED" \notin ClaimStatuses
      BY ClaimStatusesAre
    <3> QED BY <3>1, <3>2 DEF ClaimTypeOK, ClaimsMove, Rests
  <2>2. CASE FileClaim(c)
    <3>1. PICK at \in {"CANCEL_REQUESTED", "RETURN_REQUESTED", "CANCEL_APPROVED", "RETURN_APPROVED"},
               actor \in {"NOBODY", "SYSTEM", "ADMIN"} :
             /\ at \in (IF route[c] = "CANCEL" THEN {"CANCEL_REQUESTED", "CANCEL_APPROVED"}
                                               ELSE {"RETURN_REQUESTED", "RETURN_APPROVED"})
             /\ claim' = [claim EXCEPT ![c] = at] /\ SettleShare(c, at, actor)
             /\ after' = [after EXCEPT ![c] = IF at = "CANCEL_APPROVED" THEN "REFUND" ELSE @]
             /\ AwaitsFrom(c, at)
      BY <2>2 DEF FileClaim, ClaimTypeOK
    <3>2. /\ claim[c] = "FILING" /\ HoldUnits(c) /\ route' = route
          /\ approver' = [approver EXCEPT ![c] = "NOBODY"]
      BY <2>2 DEF FileClaim
    <3>3. EndsShare(c, at)
      BY <1>0, <3>1, SettleShareIs DEF EndsShare
    <3>4. at \in ClaimStatuses
      BY ClaimStatusesAre
    <3>5. Filing(c, at)
      BY <3>1, <3>2, <3>3 DEF Filing
    <3>6. before' \in [ClaimIds -> SUBSET ClaimIds]
      BY <3>1, AwaitsFromIs DEF ClaimTypeOK
    <3> QED BY <3>1, <3>2, <3>4, <3>5, <3>6 DEF ClaimsMove, ClaimTypeOK
  <2>3. ASSUME NEW to \in ClaimStatuses, NEW actor, MoveClaim(c, to, actor), UNCHANGED route
        PROVE  Moving(c, to)
    BY <1>0, <2>3, SettleShareIs DEF MoveClaim, Moving, EndsShare
  <2>4. ASSUME NEW actor, NEW to \in ClaimStatuses, Decide(c, to, actor) PROVE ClaimsMove
    <3>1. Moving(c, to) /\ UNCHANGED <<route, approver>>
      BY <2>3, <2>4 DEF Decide
    <3>2. after' \in [ClaimIds -> {"NOTHING", "REFUND", "RESTOCK"}]
      BY <2>4 DEF Decide, ClaimTypeOK
    <3>3. before' \in [ClaimIds -> SUBSET ClaimIds]
      BY <2>4, AwaitsFromIs DEF Decide, MoveClaim, ClaimTypeOK
    <3> QED BY <3>1, <3>2, <3>3 DEF ClaimsMove, ClaimTypeOK
  <2>5. ASSUME NEW actor, PassInspection(c, actor) PROVE ClaimsMove
    <3>1. "RETURN_COMPLETED" \in ClaimStatuses
      BY ClaimStatusesAre
    <3>2. /\ UNCHANGED <<route, approver>> /\ after' = [after EXCEPT ![c] = "REFUND"]
          /\ Moving(c, "RETURN_COMPLETED") \/ UNCHANGED <<claim, claimed>>
      BY <2>3, <2>5, <3>1 DEF PassInspection
    <3>3. before' \in [ClaimIds -> SUBSET ClaimIds]
      BY <2>5, AwaitsFromIs DEF PassInspection, MoveClaim, ClaimTypeOK
    <3> QED BY <3>1, <3>2, <3>3 DEF ClaimsMove, ClaimTypeOK, Rests
  <2>6. ASSUME Settle(c), UNCHANGED <<route, claimed>>
        PROVE  Moving(c, "REFUNDED") /\ "REFUNDED" \in ClaimStatuses
    <3>1. MayMoveClaim(claim[c], "REFUNDED", "SYSTEM") /\ claim' = [claim EXCEPT ![c] = "REFUNDED"]
      BY <2>6 DEF Settle, Refundable
    <3>2. ReleaseUnits(c, "REFUNDED")
      <4>1. claimed = [v \in Variants |-> claimed[v] - 0]
        BY DEF ClaimTypeOK
      <4> QED BY <2>6, <4>1 DEF ReleaseUnits, Rejected
    <3>3. "REFUNDED" \in ClaimStatuses
      BY ClaimStatusesAre
    <3> QED BY <2>6, <3>1, <3>2, <3>3 DEF Moving, EndsShare
  <2>7. CASE Refund(c)
    <3>1. /\ UNCHANGED <<route, approver, claimed, before>> /\ after' = [after EXCEPT ![c] = "RESTOCK"]
          /\ Settle(c) \/ UNCHANGED claim
      BY <2>7 DEF Refund
    <3> QED BY <2>6, <3>1 DEF ClaimsMove, ClaimTypeOK, Rests
  <2>8. CASE RetryRefund(c)
    BY <2>6, <2>8 DEF RetryRefund, ClaimsMove, ClaimTypeOK
  <2>9. CASE DropFiling(c)
    <3>1. "FILING" \notin ClaimStatuses
      BY ClaimStatusesAre
    <3> QED BY <2>9, <3>1 DEF DropFiling, ClaimsMove, ClaimTypeOK, Rests
  <2>10. CASE Restock(c) \/ RestockFails(c)
    <3>1. UNCHANGED <<claim, route, approver, claimed, before>> /\ after' = [after EXCEPT ![c] = "NOTHING"]
      BY <2>10 DEF Restock, RestockFails
    <3> QED BY <3>1 DEF ClaimsMove, ClaimTypeOK, Rests
  <2> QED BY <1>2, <2>1, <2>2, <2>4, <2>5, <2>7, <2>8, <2>9, <2>10 DEF ClaimStep
<1>3. CASE StopAll
  <2>1. "FILING" \notin ClaimStatuses
    BY ClaimStatusesAre
  <2>2. /\ claim' \in [ClaimIds -> ClaimStatuses \cup {"UNFILED", "FILING"}] /\ claimed' = claimed
        /\ route' \in [ClaimIds -> {"NONE", "CANCEL", "RETURN"}]
        /\ approver' \in [ClaimIds -> {"NOBODY", "SYSTEM", "ADMIN"}]
        /\ after' \in [ClaimIds -> {"NOTHING", "REFUND", "RESTOCK"}]
        /\ before' \in [ClaimIds -> SUBSET ClaimIds]
    BY <1>3 DEF StopAll, ClaimTypeOK
  <2>3. ASSUME NEW d \in ClaimIds PROVE Rests(d)
    BY <1>3, <2>1 DEF StopAll, Rests
  <2> QED BY <2>2, <2>3 DEF ClaimsMove
<1>4. CASE ShareStep \/ UNCHANGED vars
  BY <1>1, <1>4 DEF ShareStep, vars
<1> QED BY <1>2, <1>3, <1>4 DEF ClaimsNext

\* Counting is done on a set, before or after a step.
LEMMA CountedAfter ==
    ASSUME NEW v
    PROVE  /\ UnitsOn(Living, v)' = UnitsOn(Living', v)
           /\ UnitsOn(Cancelled, v)' = UnitsOn(Cancelled', v)
BY DEF UnitsOn, ItemsOf, SumOver, Units, Pieces

\* How the living and the cancelled claims change with one step.
LEMMA SetsMove ==
    ASSUME ClaimTypeOK, RoutesMatch, ClaimsMove
    PROVE  \/ /\ claimed' = claimed /\ Living' = Living /\ Cancelled' = Cancelled
           \/ \E c \in ClaimIds :
                 /\ c \notin Living /\ Living' = Living \cup {c} /\ HoldUnits(c)
                 /\ \/ Cancelled' = Cancelled
                    \/ Cancelled' = Cancelled \cup {c} /\ EndsShare(c, "CANCEL_APPROVED")
           \/ \E c \in Living :
                 /\ Living' = Living \ {c} /\ Cancelled' = Cancelled
                 /\ claimed' = [v \in Variants |-> claimed[v] - UnitsOn({c}, v)]
           \/ \E c \in Living :
                 /\ Living' = Living
                 /\ claimed' = [v \in Variants |-> claimed[v] - 0]
                 /\ \/ Cancelled' = Cancelled
                    \/ Cancelled' = Cancelled \cup {c} /\ EndsShare(c, "CANCEL_APPROVED")
<1> USE ClaimStatusesAre DEF Living, Cancelled, Filed, Rejected, CancelSettled
<1>1. CASE claimed' = claimed /\ \A d \in ClaimIds : Rests(d)
  <2>1. \A d \in ClaimIds : d \in Living' <=> d \in Living
    BY <1>1 DEF Rests
  <2>2. \A d \in ClaimIds : d \in Cancelled' <=> d \in Cancelled
    BY <1>1 DEF Rests
  <2> QED BY <1>1, <2>1, <2>2
<1>2. ASSUME NEW c \in ClaimIds, NEW to \in ClaimStatuses, Filing(c, to)
      PROVE  /\ c \notin Living /\ Living' = Living \cup {c} /\ HoldUnits(c)
             /\ \/ Cancelled' = Cancelled
                \/ Cancelled' = Cancelled \cup {c} /\ EndsShare(c, "CANCEL_APPROVED")
  <2>1. /\ claim[c] = "FILING" /\ claim' = [claim EXCEPT ![c] = to] /\ route' = route
        /\ to \in {"CANCEL_REQUESTED", "CANCEL_APPROVED", "RETURN_REQUESTED", "RETURN_APPROVED"}
    BY <1>2 DEF Filing
  <2>2. c \notin Living /\ Living' = Living \cup {c}
    BY <2>1 DEF ClaimTypeOK
  <2>3. CASE to = "CANCEL_APPROVED"
    <3>1. Cancelled' = Cancelled \/ Cancelled' = Cancelled \cup {c}
      BY <2>1, <2>3 DEF ClaimTypeOK
    <3> QED BY <1>2, <2>2, <2>3, <3>1 DEF Filing
  <2>4. CASE to # "CANCEL_APPROVED"
    <3>1. Cancelled' = Cancelled
      BY <2>1, <2>4 DEF ClaimTypeOK
    <3> QED BY <1>2, <2>2, <3>1 DEF Filing
  <2> QED BY <2>3, <2>4
<1>3. ASSUME NEW c \in ClaimIds, NEW to \in ClaimStatuses, Moving(c, to)
      PROVE  \/ /\ c \in Living /\ Living' = Living \ {c} /\ Cancelled' = Cancelled
                /\ claimed' = [v \in Variants |-> claimed[v] - UnitsOn({c}, v)]
             \/ /\ c \in Living /\ Living' = Living
                /\ claimed' = [v \in Variants |-> claimed[v] - 0]
                /\ \/ Cancelled' = Cancelled
                   \/ Cancelled' = Cancelled \cup {c} /\ EndsShare(c, "CANCEL_APPROVED")
  <2>1. PICK actor : MayMoveClaim(claim[c], to, actor)
    BY <1>3 DEF Moving
  <2>2. /\ claim' = [claim EXCEPT ![c] = to] /\ route' = route
        /\ ReleaseUnits(c, to) /\ EndsShare(c, to)
    BY <1>3 DEF Moving
  <2>3. c \in Living
    BY <2>1, ClaimArrows
  <2>4. CASE to \in Rejected
    <3>1. Living' = Living \ {c} /\ Cancelled' = Cancelled
      BY <2>1, <2>2, <2>4, ClaimArrows DEF ClaimTypeOK
    <3>2. claimed' = [v \in Variants |-> claimed[v] - UnitsOn({c}, v)]
      BY <2>2, <2>4 DEF ReleaseUnits
    <3> QED BY <2>3, <3>1, <3>2
  <2>5. CASE to \notin Rejected
    <3>1. Living' = Living
      BY <2>1, <2>2, <2>3, <2>5 DEF ClaimTypeOK
    <3>2. claimed' = [v \in Variants |-> claimed[v] - 0]
      BY <2>2, <2>5 DEF ReleaseUnits
    <3>3. CASE to = "CANCEL_APPROVED"
      <4>1. Cancelled' = Cancelled \cup {c} \/ Cancelled' = Cancelled
        BY <2>2, <3>3 DEF ClaimTypeOK
      <4> QED BY <2>2, <2>3, <3>1, <3>2, <3>3, <4>1
    <3>4. CASE to # "CANCEL_APPROVED"
      <4>1. to = "REFUNDED" => claim[c] = "CANCEL_APPROVED" \/ route[c] = "RETURN"
        BY <2>1, ClaimArrows DEF RoutesMatch, ReturnSide
      <4>2. claim[c] # "CANCEL_APPROVED" \/ to = "REFUNDED"
        BY <2>1, ClaimArrows
      <4>3. claim[c] # "REFUNDED"
        BY <2>1, ClaimArrows
      <4>4. Cancelled' = Cancelled
        BY <2>2, <3>4, <4>1, <4>2, <4>3 DEF ClaimTypeOK
      <4> QED BY <2>3, <3>1, <3>2, <4>4
    <3> QED BY <3>3, <3>4
  <2> QED BY <2>4, <2>5
<1> QED BY <1>1, <1>2, <1>3, Zenon DEF ClaimsMove

\* What the claims' layer keeps.
LEMMA ClaimsStaySound ==
    ASSUME ClaimsSound, ClaimsMove
    PROVE  ClaimsSound'
<1> USE DEF ClaimsSound
<1>0. /\ Living \in SUBSET ClaimIds
      /\ \A v \in Variants : claimed[v] = UnitsOn(Living, v) /\ claimed[v] <= Ordered[v]
      /\ claimed \in [Variants -> Nat] /\ Ordered \in [Variants -> Nat \ {0}]
  BY ClaimsAssumption DEF Living, Filed, ClaimedOnce, ClaimTypeOK
<1>1. /\ claimed' \in [Variants -> Nat]
      /\ \A v \in Variants : claimed'[v] = UnitsOn(Living', v) /\ claimed'[v] <= Ordered[v]
  <2>1. CASE claimed' = claimed /\ Living' = Living
    BY <1>0, <2>1
  <2>2. ASSUME NEW c \in ClaimIds, c \notin Living, Living' = Living \cup {c}, HoldUnits(c)
        PROVE  /\ claimed' \in [Variants -> Nat]
               /\ \A v \in Variants : claimed'[v] = UnitsOn(Living', v) /\ claimed'[v] <= Ordered[v]
    <3>1. \A v \in Variants : /\ UnitsOn({c}, v) \in Nat
                              /\ UnitsOn(Living \cup {c}, v) = UnitsOn(Living, v) + UnitsOn({c}, v)
      BY <1>0, <2>2, OneClaim
    <3>2. \A v \in Variants : claimed'[v] = claimed[v] + UnitsOn({c}, v) /\ claimed'[v] <= Ordered[v]
      BY <2>2 DEF HoldUnits
    <3>3. \A v \in Variants : claimed'[v] = UnitsOn(Living', v) /\ claimed'[v] \in Nat
      BY <1>0, <2>2, <3>1, <3>2
    <3>4. DOMAIN claimed' = Variants /\ claimed' = [v \in DOMAIN claimed' |-> claimed'[v]]
      BY <2>2 DEF HoldUnits
    <3> QED BY <3>2, <3>3, <3>4
  <2>3. ASSUME NEW c \in Living, Living' = Living \ {c},
               claimed' = [v \in Variants |-> claimed[v] - UnitsOn({c}, v)]
        PROVE  /\ claimed' \in [Variants -> Nat]
               /\ \A v \in Variants : claimed'[v] = UnitsOn(Living', v) /\ claimed'[v] <= Ordered[v]
    <3>0. c \in ClaimIds
      BY <1>0
    <3>1. \A v \in Variants : /\ UnitsOn({c}, v) \in Nat
                              /\ UnitsOn(Living \ {c}, v) = UnitsOn(Living, v) - UnitsOn({c}, v)
                              /\ UnitsOn({c}, v) <= UnitsOn(Living, v)
      BY <1>0, <3>0, OneClaim
    <3>2. \A v \in Variants : claimed'[v] = claimed[v] - UnitsOn({c}, v)
      BY <2>3
    <3>3. \A v \in Variants : UnitsOn(Living', v) = UnitsOn(Living, v) - UnitsOn({c}, v)
      BY <2>3, <3>1, Zenon
    <3>4. \A v \in Variants :
             claimed'[v] = UnitsOn(Living', v) /\ claimed'[v] \in Nat /\ claimed'[v] <= Ordered[v]
      <4> SUFFICES ASSUME NEW v \in Variants
                   PROVE  claimed'[v] = UnitsOn(Living', v) /\ claimed'[v] \in Nat /\ claimed'[v] <= Ordered[v]
        OBVIOUS
      <4>1. /\ claimed'[v] = claimed[v] - UnitsOn({c}, v) /\ claimed[v] = UnitsOn(Living, v)
            /\ UnitsOn({c}, v) <= UnitsOn(Living, v) /\ UnitsOn({c}, v) \in Nat
            /\ claimed[v] \in Nat /\ Ordered[v] \in Nat /\ claimed[v] <= Ordered[v]
        BY <1>0, <3>1, <3>2
      <4> QED BY <3>3, <4>1
    <3>5. DOMAIN claimed' = Variants /\ claimed' = [v \in DOMAIN claimed' |-> claimed'[v]]
      BY <2>3
    <3> QED BY <3>4, <3>5
  <2>4. CASE Living' = Living /\ claimed' = [v \in Variants |-> claimed[v] - 0]
    BY <1>0, <2>4
  <2> QED BY <2>1, <2>2, <2>3, <2>4, SetsMove
<1>2. ClaimedOnce'
  BY <1>1, CountedAfter DEF ClaimedOnce
<1>3. claim' \in [ClaimIds -> ClaimStatuses \cup {"UNFILED", "FILING"}]
  BY DEF ClaimsMove, Filing, Moving, ClaimTypeOK
<1>4. ClaimTypeOK'
  BY <1>1, <1>3 DEF ClaimsMove, ClaimTypeOK
<1>5. RoutesMatch'
  <2> USE ClaimStatusesAre DEF RoutesMatch, CancelSide, ReturnSide
  <2>1. CASE \A d \in ClaimIds : Rests(d)
    BY <2>1 DEF Rests
  <2>2. ASSUME NEW c \in ClaimIds, NEW to \in ClaimStatuses, Filing(c, to) PROVE RoutesMatch'
    BY <2>2 DEF Filing, ClaimTypeOK
  <2>3. ASSUME NEW c \in ClaimIds, NEW to \in ClaimStatuses, Moving(c, to) PROVE RoutesMatch'
    <3>1. \/ claim[c] \in CancelSide /\ to \in CancelSide
          \/ claim[c] \in ReturnSide /\ to \in ReturnSide
          \/ to = "REFUNDED"
      BY <2>3, ClaimArrows DEF Moving
    <3>2. claim' = [claim EXCEPT ![c] = to] /\ route' = route
      BY <2>3 DEF Moving
    <3> QED BY <3>1, <3>2 DEF ClaimTypeOK
  <2> QED BY <2>1, <2>2, <2>3 DEF ClaimsMove
<1> QED BY <1>2, <1>4, <1>5

\* A claim on one share takes no unit of another.
LEMMA OtherSharesUntouched ==
    ASSUME NEW C, NEW c \in ClaimIds, NEW v \in Variants, SoldIn[v] # ShareOf[c]
    PROVE  UnitsOn(C \cup {c}, v) = UnitsOn(C, v)
<1>1. On(C \cup {c}, v) = On(C, v)
  BY ClaimsAssumption DEF On, ItemsOf
<1> HIDE DEF On
<1>2. \A E : UnitsOn(E, v) = SumOver(On(E, v), ItemQuantity)
  BY DEF UnitsOn, On
<1> QED BY <1>1, <1>2

(* The last unit is cancelled together with the share, and the share stays *)
(* as it then is.                                                          *)
LEMMA CancelledSharesStay ==
    ASSUME SharesSound, ClaimsSound, CancelledShareEnds, SharesMove, ClaimsMove
    PROVE  CancelledShareEnds'
<1> SUFFICES ASSUME NEW s \in Shares, \A v \in LinesOf(s) : UnitsOn(Cancelled', v) = Ordered[v]
             PROVE  order'[s] = "CANCELED"
  BY CountedAfter DEF CancelledShareEnds, LinesOf
<1>1. (\A v \in LinesOf(s) : UnitsOn(Cancelled, v) = Ordered[v]) => order'[s] = "CANCELED"
  BY DEF CancelledShareEnds, SharesMove, Arrow
<1>2. CASE Cancelled' = Cancelled
  BY <1>1, <1>2
<1>3. ASSUME NEW c \in ClaimIds, Cancelled' = Cancelled \cup {c}, EndsShare(c, "CANCEL_APPROVED")
      PROVE  order'[s] = "CANCELED"
  <2>1. CASE s = ShareOf[c]
    <3>1. \A v \in LinesOf(s) : UnitsOn(Cancelled \cup {c}, v) = Ordered[v] /\ Ordered[v] \in Nat
      BY <1>3, ClaimsAssumption, Zenon DEF LinesOf
    <3>2. CancelsAll(s, c)
      BY <3>1 DEF CancelsAll
    <3> QED BY <1>3, <2>1, <3>2 DEF EndsShare
  <2>2. CASE s # ShareOf[c]
    <3>1. \A v \in LinesOf(s) : UnitsOn(Cancelled \cup {c}, v) = UnitsOn(Cancelled, v)
      BY <2>2, OtherSharesUntouched DEF LinesOf
    <3> QED BY <1>1, <1>3, <3>1, Zenon
  <2> QED BY <2>1, <2>2
<1>4. Living \subseteq ClaimIds
  BY DEF Living, Filed
<1> QED BY <1>2, <1>3, <1>4, SetsMove DEF ClaimsSound

-----------------------------------------------------------------------------
(* The shelf and its ledger.                                               *)

Settled == Cancelled \cup Returned

\* The items that are back on a variant's shelf.
BackOn(v) == {i \in ClaimItems : ItemVariant[i] = v /\ \E n \in DOMAIN ledger[v] : ledger[v][n].ref = i}

\* A row that tells of an item tells what its claim allows.
TrueRow(v, e, settled, ways) ==
    e.ref \in ClaimItems =>
       /\ ItemClaim[e.ref] \in settled
       /\ ItemVariant[e.ref] = v /\ e.quantity = ItemQuantity[e.ref]
       /\ e.type = IF ways[ItemClaim[e.ref]] = "CANCEL" THEN "CANCEL" ELSE "RETURN_IN"

ShelfSound ==
    /\ StockTypeOK
    /\ \A v \in Variants :
          /\ stock[v] = OpeningStock[v] - Ordered[v] + SumOver(BackOn(v), ItemQuantity)
          /\ \A n \in DOMAIN ledger[v] : TrueRow(v, ledger[v][n], Settled, route)
    /\ RecordedOnce

\* What a step does to one variant's shelf: nothing, or one item comes back.
ShelfMoves(v) ==
    \/ ledger'[v] = ledger[v] /\ stock'[v] = stock[v]
    \/ \E i \in ClaimItems, e \in Entries :
          /\ ItemVariant[i] = v /\ ItemClaim[i] \in Settled /\ i \notin BackOn(v)
          /\ e.ref = i /\ e.quantity = ItemQuantity[i] /\ e.type = RestockType(ItemClaim[i])
          /\ ledger'[v] = Append(ledger[v], e)
          /\ stock'[v] = stock[v] + ItemQuantity[i]

\* A settled claim stays settled, and goes the way it went.
LEMMA SettledStays ==
    ASSUME ClaimTypeOK, RoutesMatch, ClaimsMove
    PROVE  /\ Settled \subseteq Settled'
           /\ \A c \in Settled : route'[c] = route[c]
<1> USE ClaimStatusesAre DEF Settled, Cancelled, Returned, Filed, CancelSettled, ReturnSettled
<1>1. CASE \A d \in ClaimIds : Rests(d)
  BY <1>1 DEF Rests
<1>2. ASSUME NEW c \in ClaimIds, NEW to \in ClaimStatuses, Filing(c, to)
      PROVE  Settled \subseteq Settled' /\ \A d \in Settled : route'[d] = route[d]
  BY <1>2 DEF Filing, ClaimTypeOK
<1>3. ASSUME NEW c \in ClaimIds, NEW to \in ClaimStatuses, Moving(c, to)
      PROVE  Settled \subseteq Settled' /\ \A d \in Settled : route'[d] = route[d]
  <2>1. claim[c] \in {"CANCEL_APPROVED", "RETURN_COMPLETED"} => to = "REFUNDED"
    BY <1>3, ClaimArrows DEF Moving
  <2>2. claim[c] # "REFUNDED"
    BY <1>3, ClaimArrows DEF Moving
  <2>3. claim' = [claim EXCEPT ![c] = to] /\ route' = route
    BY <1>3 DEF Moving
  <2> QED BY <2>1, <2>2, <2>3 DEF ClaimTypeOK
<1> QED BY <1>1, <1>2, <1>3 DEF ClaimsMove

\* A restock brings each variant at most one item, and none twice.
LEMMA RestockMoves ==
    ASSUME ShelfSound, ClaimTypeOK, NEW c \in ClaimIds, Restock(c), NEW v \in Variants
    PROVE  ShelfMoves(v)
<1> DEFINE comes == {i \in Back(c) : ItemVariant[i] = v}
<1>1. /\ stock'[v] = stock[v] + SumOver(comes, ItemQuantity)
      /\ comes = {} => ledger'[v] = ledger[v]
      /\ comes # {} => LET i == CHOOSE i \in comes : TRUE
                       IN ledger'[v] = Append(ledger[v], Entry(v, RestockType(c), ItemQuantity[i], i))
  BY DEF Restock
<1>2. stock[v] \in Nat
  BY DEF ShelfSound, StockTypeOK
<1>3. CASE comes = {}
  <2>1. SumOver(comes, ItemQuantity) = 0
    BY <1>3, SumEmpty, Zenon
  <2> QED BY <1>1, <1>2, <1>3, <2>1 DEF ShelfMoves
<1>4. CASE comes # {}
  <2> DEFINE i == CHOOSE i \in comes : TRUE
             e == Entry(v, RestockType(c), ItemQuantity[i], i)
  <2>1. i \in comes
    BY <1>4
  <2> HIDE DEF i
  <2>2. /\ i \in ClaimItems /\ ItemClaim[i] = c /\ ItemVariant[i] = v
        /\ c \in Settled /\ ~Recorded(v, RestockType(c), i)
    BY <2>1 DEF Back, ItemsOf, RestockDue, Settled
  <2>3. comes = {i}
    <3>1. \A j \in comes : j \in ClaimItems /\ ItemClaim[j] = c /\ ItemVariant[j] = v
      BY DEF Back, ItemsOf
    <3> QED BY <2>1, <2>2, <3>1, ClaimsAssumption
  <2>4. SumOver(comes, ItemQuantity) = ItemQuantity[i]
    <3>1. SumOver({i}, ItemQuantity) = ItemQuantity[i]
      BY <2>2, ItemsAreRows, SumSingle
    <3> HIDE DEF comes
    <3> QED BY <2>3, <3>1, Zenon
  <2>5. ItemQuantity[i] \in Nat \ {0} /\ i \in Refs /\ i # NoRef
    BY <2>2, ClaimsAssumption, StockAssumption
  <2>6. /\ e \in Entries /\ e.ref = i /\ e.quantity = ItemQuantity[i]
        /\ e.type = RestockType(ItemClaim[i])
    BY <1>2, <2>2, <2>5 DEF Entry, Entries, MovementTypes, Inward, RestockType
  <2>7. ledger'[v] = Append(ledger[v], e)
    BY <1>1, <1>4 DEF i
  <2>8. i \notin BackOn(v)
    <3> SUFFICES ASSUME NEW n \in DOMAIN ledger[v], ledger[v][n].ref = i PROVE FALSE
      BY DEF BackOn
    <3>1. TrueRow(v, ledger[v][n], Settled, route)
      BY DEF ShelfSound
    <3>2. ledger[v][n].type = RestockType(c)
      BY <2>2, <3>1 DEF TrueRow, RestockType
    <3> QED BY <2>2, <2>5, <3>2 DEF Recorded
  <2> HIDE DEF e, comes
  <2>9. stock'[v] = stock[v] + ItemQuantity[i]
    BY <1>1, <2>4
  <2> QED BY <2>2, <2>6, <2>7, <2>8, <2>9 DEF ShelfMoves
<1> QED BY <1>3, <1>4

LEMMA StepMovesShelf ==
    ASSUME ShelfSound, ClaimTypeOK, [ClaimsNext]_vars
    PROVE  /\ reserved' = reserved
           /\ DOMAIN stock' = Variants /\ stock' = [v \in DOMAIN stock' |-> stock'[v]]
           /\ DOMAIN ledger' = Variants /\ ledger' = [v \in DOMAIN ledger' |-> ledger'[v]]
           /\ \A v \in Variants : ShelfMoves(v)
<1>1. CASE UNCHANGED stockVars
  BY <1>1 DEF stockVars, ShelfMoves, ShelfSound, StockTypeOK
<1>2. ASSUME NEW c \in ClaimIds, Restock(c)
      PROVE  /\ reserved' = reserved
             /\ DOMAIN stock' = Variants /\ stock' = [v \in DOMAIN stock' |-> stock'[v]]
             /\ DOMAIN ledger' = Variants /\ ledger' = [v \in DOMAIN ledger' |-> ledger'[v]]
  BY <1>2 DEF Restock
<1>3. UNCHANGED stockVars \/ \E c \in ClaimIds : Restock(c)
  BY DEF ClaimsNext, ClaimStep, ShareStep, StopAll, vars, ReadRoute, FileClaim, DropFiling,
     PassInspection, Decide, Refund, RetryRefund, RestockFails
<1> QED BY <1>1, <1>2, <1>3, RestockMoves

\* What a variant's shelf keeps, whatever claims settle meanwhile.
LEMMA ShelfStaysSound ==
    ASSUME ShelfSound, ClaimTypeOK, [ClaimsNext]_vars,
           Settled \subseteq Settled', \A c \in Settled : route'[c] = route[c]
    PROVE  ShelfSound'
<1>0. /\ reserved' = reserved
      /\ DOMAIN stock' = Variants /\ stock' = [v \in DOMAIN stock' |-> stock'[v]]
      /\ DOMAIN ledger' = Variants /\ ledger' = [v \in DOMAIN ledger' |-> ledger'[v]]
      /\ \A v \in Variants : ShelfMoves(v)
  BY StepMovesShelf
<1> DEFINE Once(l) == \A n, m \in DOMAIN l :
               (l[n].ref # NoRef /\ l[n].ref = l[m].ref /\ l[n].type = l[m].type) => n = m
<1>1. ASSUME NEW v \in Variants
      PROVE  /\ stock'[v] \in Nat /\ ledger'[v] \in Seq(Entries)
             /\ stock'[v] = OpeningStock[v] - Ordered[v] + SumOver(BackOn(v)', ItemQuantity)
             /\ \A n \in DOMAIN ledger'[v] : TrueRow(v, ledger'[v][n], Settled', route')
             /\ Once(ledger'[v])
  <2> DEFINE l == ledger[v]
             m == ledger'[v]
  <2>1. /\ stock[v] \in Nat /\ l \in Seq(Entries)
        /\ stock[v] = OpeningStock[v] - Ordered[v] + SumOver(BackOn(v), ItemQuantity)
        /\ \A n \in DOMAIN l : TrueRow(v, l[n], Settled, route)
        /\ Once(l)
    BY DEF ShelfSound, StockTypeOK, RecordedOnce
  <2>2. \A e : TrueRow(v, e, Settled, route) => TrueRow(v, e, Settled', route')
    BY DEF TrueRow
  <2>3. CASE m = l /\ stock'[v] = stock[v]
    <3>1. BackOn(v)' = BackOn(v)
      BY <2>3 DEF BackOn
    <3> QED BY <2>1, <2>2, <2>3, <3>1
  <2>4. ASSUME NEW i \in ClaimItems, NEW e \in Entries,
               ItemVariant[i] = v, ItemClaim[i] \in Settled, i \notin BackOn(v),
               e.ref = i, e.quantity = ItemQuantity[i], e.type = RestockType(ItemClaim[i]),
               m = Append(l, e), stock'[v] = stock[v] + ItemQuantity[i]
        PROVE  /\ stock'[v] \in Nat /\ m \in Seq(Entries)
               /\ stock'[v] = OpeningStock[v] - Ordered[v] + SumOver(BackOn(v)', ItemQuantity)
               /\ \A n \in DOMAIN m : TrueRow(v, m[n], Settled', route')
               /\ Once(m)
    <3>1. /\ m \in Seq(Entries) /\ DOMAIN m = DOMAIN l \cup {Len(l) + 1} /\ Len(l) + 1 \notin DOMAIN l
          /\ \A n \in DOMAIN l : m[n] = l[n] /\ l[n] \in Entries
          /\ m[Len(l) + 1] = e
      BY <2>1, <2>4
    <3>2. BackOn(v)' = BackOn(v) \cup {i}
      BY <2>4, <3>1 DEF BackOn
    <3>3. SumOver(BackOn(v) \cup {i}, ItemQuantity) = SumOver(BackOn(v), ItemQuantity) + ItemQuantity[i]
      <4> DEFINE D == {i}
      <4>1. BackOn(v) \in SUBSET ClaimItems /\ D \in SUBSET ClaimItems /\ BackOn(v) \cap D = {}
        BY <2>4 DEF BackOn
      <4>2. SumOver(D, ItemQuantity) = ItemQuantity[i]
        BY ItemsAreRows, SumSingle
      <4> HIDE DEF D
      <4>3. SumOver(BackOn(v) \cup D, ItemQuantity) =
               SumOver(BackOn(v), ItemQuantity) + SumOver(D, ItemQuantity)
        BY <4>1, ItemsAreRows, SumDisjoint
      <4> QED BY <4>2, <4>3 DEF D
    <3>4. ItemQuantity[i] \in Nat /\ OpeningStock[v] \in Nat /\ Ordered[v] \in Nat
          /\ SumOver(BackOn(v), ItemQuantity) \in Nat
      <4>1. BackOn(v) \in SUBSET ClaimItems
        BY DEF BackOn
      <4> QED BY <4>1, ItemsAreRows, SumType, ClaimsAssumption, StockAssumption
    <3>5. stock'[v] = OpeningStock[v] - Ordered[v] + SumOver(BackOn(v)', ItemQuantity)
      BY <2>1, <2>4, <3>2, <3>3, <3>4
    <3>6. TrueRow(v, e, Settled, route)
      BY <2>4 DEF TrueRow, RestockType
    <3>7. \A n \in DOMAIN m : TrueRow(v, m[n], Settled', route')
      BY <2>1, <2>2, <3>1, <3>6
    <3>8. \A n \in DOMAIN l : l[n].ref # e.ref
      BY <2>4 DEF BackOn
    <3>9. Once(m)
      BY <2>1, <3>1, <3>8
    <3>10. stock'[v] \in Nat
      BY <2>1, <2>4, <3>4
    <3> QED BY <3>1, <3>5, <3>7, <3>9, <3>10, Zenon
  <2> QED BY <1>0, <2>3, <2>4 DEF ShelfMoves
<1>2. StockTypeOK'
  <2>1. reserved' \in [Variants -> Nat]
    BY <1>0 DEF ShelfSound, StockTypeOK
  <2>2. stock' \in [Variants -> Nat]
    BY <1>0, <1>1
  <2>3. ledger' \in [Variants -> Seq(Entries)]
    BY <1>0, <1>1
  <2> QED BY <2>1, <2>2, <2>3 DEF StockTypeOK
<1>3. RecordedOnce'
  BY <1>1 DEF RecordedOnce
<1>4. \A v \in Variants : SumOver(BackOn(v), ItemQuantity)' = SumOver(BackOn(v)', ItemQuantity)
  BY DEF SumOver, Units, Pieces
<1>5. ShelfSound' <=>
         /\ StockTypeOK' /\ RecordedOnce'
         /\ \A v \in Variants :
               /\ stock'[v] = OpeningStock[v] - Ordered[v] + SumOver(BackOn(v), ItemQuantity)'
               /\ \A n \in DOMAIN ledger'[v] : TrueRow(v, ledger'[v][n], Settled', route')
  BY DEF ShelfSound, TrueRow
<1> QED BY <1>1, <1>2, <1>3, <1>4, <1>5, Zenon

-----------------------------------------------------------------------------
(* The three layers together.                                              *)

IInv == SharesSound /\ ClaimsSound /\ CancelledShareEnds /\ ShelfSound

LEMMA TypesAreLayers ==
    ClaimsTypeOK <=> ShareTypeOK /\ StockTypeOK /\ ClaimTypeOK
BY DEF ClaimsTypeOK, ShareTypeOK, ClaimTypeOK

LEMMA ClaimsInitIsSound == ClaimsInit => IInv
<1> SUFFICES ASSUME ClaimsInit PROVE IInv
  OBVIOUS
<1> USE FulfilmentAssumption, StockAssumption, ClaimsAssumption
<1>1. SharesSound
  BY DEF ClaimsInit, FulfilmentInit, SharesSound, ShareTypeOK, OrderStatuses, Ladder,
     NoParcel, ParcelMatchesShare
<1>2. "UNFILED" \notin ClaimStatuses
  BY ClaimStatusesAre
<1>3. Filed = {}
  BY <1>2 DEF ClaimsInit, Filed
<1>4. \A v : UnitsOn({}, v) = 0
  <2> SUFFICES ASSUME NEW v PROVE UnitsOn({}, v) = 0
    OBVIOUS
  <2>1. {i \in ItemsOf({}) : ItemVariant[i] = v} = {}
    BY DEF ItemsOf
  <2> QED BY <2>1, SumEmpty, Zenon DEF UnitsOn
<1>5. Living = {} /\ Cancelled = {}
  BY <1>3 DEF Living, Cancelled
<1>6. ClaimsSound
  <2>1. ClaimTypeOK /\ RoutesMatch
    BY <1>2 DEF ClaimsInit, ClaimTypeOK, RoutesMatch, CancelSide, ReturnSide
  <2>2. ClaimedOnce
    BY <1>4, <1>5 DEF ClaimsInit, ClaimedOnce
  <2> QED BY <2>1, <2>2 DEF ClaimsSound
<1>7. CancelledShareEnds
  BY <1>4, <1>5 DEF CancelledShareEnds, LinesOf
<1>8. ShelfSound
  <2>1. ASSUME NEW v \in Variants
        PROVE  /\ stock[v] \in Nat /\ ledger[v] \in Seq(Entries)
               /\ stock[v] = OpeningStock[v] - Ordered[v] + SumOver(BackOn(v), ItemQuantity)
               /\ \A n \in DOMAIN ledger[v] : TrueRow(v, ledger[v][n], Settled, route)
               /\ \A n, m \in DOMAIN ledger[v] : ledger[v][n].ref = ledger[v][m].ref => n = m
    <3> DEFINE first == [type |-> "INBOUND", quantity |-> OpeningStock[v],
                         balance |-> OpeningStock[v], ref |-> NoRef]
               sold  == [type |-> "RESERVE_CONFIRM", quantity |-> -Ordered[v],
                         balance |-> OpeningStock[v] - Ordered[v], ref |-> Sale]
    <3>1. /\ OpeningStock[v] \in Nat /\ Ordered[v] \in Nat \ {0} /\ Ordered[v] <= OpeningStock[v]
          /\ stock[v] = OpeningStock[v] - Ordered[v]
      BY DEF ClaimsInit
    <3>2. first \in Entries /\ sold \in Entries /\ first.ref = NoRef /\ sold.ref = Sale
      BY <3>1 DEF Entries, MovementTypes, Inward, Outward
    <3>3. ledger[v] = Append(<<first>>, sold)
      BY <3>1 DEF ClaimsInit, Open
    <3> HIDE DEF first, sold
    <3>4. /\ ledger[v] \in Seq(Entries) /\ DOMAIN ledger[v] = {1, 2}
          /\ ledger[v][1] = first /\ ledger[v][2] = sold
      BY <3>2, <3>3
    <3>5. NoRef \notin ClaimItems /\ Sale \notin ClaimItems /\ Sale # NoRef
      OBVIOUS
    <3>6. BackOn(v) = {}
      BY <3>2, <3>4, <3>5 DEF BackOn
    <3>7. SumOver(BackOn(v), ItemQuantity) = 0
      BY <3>6, SumEmpty, Zenon
    <3>8. stock[v] \in Nat /\ stock[v] = OpeningStock[v] - Ordered[v] + SumOver(BackOn(v), ItemQuantity)
      BY <3>1, <3>7
    <3>9. \A n \in DOMAIN ledger[v] : TrueRow(v, ledger[v][n], Settled, route)
      BY <3>2, <3>4, <3>5 DEF TrueRow
    <3>10. \A n, m \in DOMAIN ledger[v] : ledger[v][n].ref = ledger[v][m].ref => n = m
      BY <3>2, <3>4, <3>5
    <3> QED BY <3>4, <3>8, <3>9, <3>10
  <2>2. StockTypeOK
    <3>1. stock \in [Variants -> Nat] /\ reserved \in [Variants -> Nat]
      BY <2>1 DEF ClaimsInit
    <3>2. ledger \in [Variants -> Seq(Entries)]
      <4>1. DOMAIN ledger = Variants /\ ledger = [v \in DOMAIN ledger |-> ledger[v]]
        BY DEF ClaimsInit
      <4> QED BY <2>1, <4>1
    <3> QED BY <3>1, <3>2 DEF StockTypeOK
  <2>3. RecordedOnce
    BY <2>1 DEF RecordedOnce
  <2> QED BY <2>1, <2>2, <2>3, Zenon DEF ShelfSound
<1> QED BY <1>1, <1>6, <1>7, <1>8 DEF IInv

LEMMA ClaimsStepIsSound == IInv /\ [ClaimsNext]_vars => IInv' /\ SharesMove /\ ClaimsMove
<1> SUFFICES ASSUME IInv, [ClaimsNext]_vars PROVE IInv' /\ SharesMove /\ ClaimsMove
  OBVIOUS
<1> USE DEF IInv
<1>1. SharesMove
  BY StepMovesShares
<1>2. ClaimsMove
  BY StepMovesClaims DEF ClaimsSound
<1>3. SharesSound'
  BY <1>1, SharesStaySound
<1>4. ClaimsSound'
  BY <1>2, ClaimsStaySound
<1>5. CancelledShareEnds'
  BY <1>1, <1>2, CancelledSharesStay
<1>6. ShelfSound'
  <2>1. Settled \subseteq Settled' /\ \A c \in Settled : route'[c] = route[c]
    BY <1>2, SettledStays DEF ClaimsSound
  <2> QED BY <2>1, ShelfStaysSound DEF ClaimsSound
<1> QED BY <1>1, <1>2, <1>3, <1>4, <1>5, <1>6

(* The three layers are sound in every state.                              *)
THEOREM ClaimsAreSound == ClaimsSpec => []IInv
<1>1. IInv /\ [ClaimsNext]_vars => IInv'
  BY ClaimsStepIsSound
<1> QED BY <1>1, ClaimsInitIsSound, PTL DEF ClaimsSpec

(* Every variable keeps its type: no rejection takes the counter of        *)
(* claimed units below zero.                                               *)
THEOREM ClaimsAreTyped == ClaimsSpec => []ClaimsTypeOK
<1>1. IInv => ClaimsTypeOK
  BY TypesAreLayers DEF IInv, SharesSound, ClaimsSound, ShelfSound
<1> QED BY <1>1, ClaimsAreSound, PTL

(* claimedQuantity is the units of the living claims, and at most what was *)
(* bought, whatever requests, rejections and retries come together.        *)
THEOREM UnitsAreClaimedOnce == ClaimsSpec => []ClaimedOnce
<1>1. IInv => ClaimedOnce
  BY DEF IInv, ClaimsSound
<1> QED BY <1>1, ClaimsAreSound, PTL

(* A share all of whose units are cancelled is CANCELED.                   *)
THEOREM SharesEndWithTheirUnits == ClaimsSpec => []CancelledShareEnds
<1>1. IInv => CancelledShareEnds
  BY DEF IInv
<1> QED BY <1>1, ClaimsAreSound, PTL

(* A share has a parcel exactly while its status says so, and has earned   *)
(* points only once it was confirmed.                                      *)
THEOREM ParcelsMatchShares == ClaimsSpec => []ParcelMatchesShare
<1>1. IInv => ParcelMatchesShare
  BY DEF IInv, SharesSound
<1> QED BY <1>1, ClaimsAreSound, PTL

(* Only units of settled claims come back to the shelf, each once, so a    *)
(* variant never has more stock than before it was sold.                   *)
THEOREM ShelvesMatchClaims == ClaimsSpec => []ShelfMatchesClaims
<1>1. IInv => ShelfMatchesClaims
  <2> SUFFICES ASSUME IInv, NEW v \in Variants
               PROVE  /\ stock[v] <= OpeningStock[v]
                      /\ \A n \in DOMAIN ledger[v] : ledger[v][n].ref \in ClaimItems =>
                            LET i == ledger[v][n].ref IN
                            /\ ItemClaim[i] \in Cancelled \cup Returned
                            /\ ItemVariant[i] = v /\ ledger[v][n].quantity = ItemQuantity[i]
    BY DEF ShelfMatchesClaims, IInv, ShelfSound
  <2>1. /\ stock[v] = OpeningStock[v] - Ordered[v] + SumOver(BackOn(v), ItemQuantity)
        /\ \A n \in DOMAIN ledger[v] : TrueRow(v, ledger[v][n], Settled, route)
        /\ claimed[v] = UnitsOn(Living, v) /\ claimed[v] <= Ordered[v]
    BY DEF IInv, ShelfSound, ClaimsSound, ClaimedOnce
  <2>2. Settled \subseteq Living
    BY DEF Settled, Cancelled, Returned, Living, CancelSettled, ReturnSettled, Rejected
  <2>3. BackOn(v) \in SUBSET On(Living, v)
    BY <2>1, <2>2 DEF BackOn, On, ItemsOf, TrueRow
  <2>4. On(Living, v) \in SUBSET ClaimItems
    BY DEF On, ItemsOf
  <2>5. /\ SumOver(BackOn(v), ItemQuantity) <= SumOver(On(Living, v), ItemQuantity)
        /\ SumOver(BackOn(v), ItemQuantity) \in Nat
    BY <2>3, <2>4, ItemsAreRows, SumMinus, SumType
  <2>6. SumOver(On(Living, v), ItemQuantity) = claimed[v]
    BY <2>1 DEF On, UnitsOn
  <2>7. OpeningStock[v] \in Nat /\ Ordered[v] \in Nat /\ claimed[v] \in Nat
    BY StockAssumption, ClaimsAssumption DEF IInv, ClaimsSound, ClaimTypeOK
  <2>8. stock[v] <= OpeningStock[v]
    BY <2>1, <2>5, <2>6, <2>7
  <2> QED BY <2>1, <2>8 DEF TrueRow, Settled
<1> QED BY <1>1, ClaimsAreSound, PTL

(* No late request, listing, retry or scan undoes what has ended.          *)
THEOREM NothingIsTurnedBack == ClaimsSpec => NothingTurnsBack
<1> DEFINE Forward ==
      /\ \A s \in Shares :
            /\ parcel[s] <= parcel'[s]
            /\ order[s] \in {"CANCELED", "RETURNED"} => order'[s] = order[s]
            /\ order[s] = "CONFIRMED" => order'[s] \in {"CONFIRMED", "RETURNED"}
      /\ \A c \in ClaimIds :
            claim[c] \in Rejected \cup {"REFUNDED"} => claim'[c] = claim[c]
<1>1. IInv /\ [ClaimsNext]_vars => Forward
  <2> SUFFICES ASSUME IInv, [ClaimsNext]_vars PROVE Forward
    OBVIOUS
  <2>1. SharesMove /\ ClaimsMove
    BY ClaimsStepIsSound
  <2>2. ASSUME NEW c \in ClaimIds, claim[c] \in Rejected \cup {"REFUNDED"}
        PROVE  claim'[c] = claim[c]
    <3>1. claim[c] \in ClaimStatuses /\ claim[c] # "FILING"
      BY <2>2, ClaimStatusesAre DEF Rejected
    <3>2. ASSUME NEW d \in ClaimIds, NEW to \in ClaimStatuses, Filing(d, to) \/ Moving(d, to)
          PROVE  claim'[c] = claim[c]
      <4>1. d # c
        BY <2>2, <3>1, <3>2, ClaimArrows DEF Filing, Moving, Rejected
      <4> QED BY <3>2, <4>1 DEF Filing, Moving, IInv, ClaimsSound, ClaimTypeOK
    <3> QED BY <2>1, <3>1, <3>2 DEF ClaimsMove, Rests
  <2>3. SharesSound
    BY DEF IInv
  <2> QED BY <2>1, <2>2, <2>3, SharesStaySound
<1>2. IInv /\ [ClaimsNext]_vars => [Forward]_vars
  BY <1>1
<1> HIDE DEF Forward
<1>3. ClaimsSpec => [][Forward]_vars
  BY <1>2, ClaimsAreSound, PTL DEF ClaimsSpec
<1> QED BY <1>3 DEF NothingTurnsBack, Forward

=============================================================================
