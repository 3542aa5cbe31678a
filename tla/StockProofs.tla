----------------------------- MODULE StockProofs -----------------------------
(***************************************************************************)
(* What holds of the reservation service, and of checkouts, orders and the *)
(* expiry sweeper together with it, for any variants, holds, quantities,   *)
(* checkouts, time to live and batch size.                                 *)
(*                                                                         *)
(* The service by itself: the reserved counter is the total of the HELD    *)
(* rows and never exceeds the stock, a settled row stays settled, and the  *)
(* service implements Inventory.  The inductive invariant IInv is the type *)
(* invariant with the counter's meaning and its bound.  Counter and bound  *)
(* are needed together: a sale keeps the bound because it lowers both      *)
(* counters by the same total, and the total it lowers is one the counter  *)
(* contains.                                                               *)
(*                                                                         *)
(* With the sweeper: the types, the bound of the reserved counter on both  *)
(* sides, and that stock leaves the shelf for paid orders and for nothing  *)
(* else.  The sweeper settles rows by what they were when it listed them,  *)
(* so the equality of IInv is gone and a row's status no longer says       *)
(* whether it was sold.  What is left is enough (CInv): the counter never  *)
(* exceeds the HELD rows, a CONFIRMED row was sold, a sold row exists, and *)
(* what orders and batches refer to exists.                                *)
(***************************************************************************)
EXTENDS Checkout, DataProofs

-----------------------------------------------------------------------------
(* The facts about sums, for the holds and their quantities.               *)

LEMMA HoldsAreRows == Amounts(Holds, QuantityOf)
BY HoldsAssumption DEF Amounts

LEMMA TotalType ==
    ASSUME NEW S \in SUBSET Holds
    PROVE  Total(S) \in Nat
BY HoldsAreRows, SumType DEF Total

LEMMA TotalEmpty == Total({}) = 0
BY SumEmpty DEF Total

LEMMA TotalDisjoint ==
    ASSUME NEW S \in SUBSET Holds, NEW T \in SUBSET Holds, S \cap T = {}
    PROVE  Total(S \cup T) = Total(S) + Total(T)
BY HoldsAreRows, SumDisjoint DEF Total

LEMMA TotalMinus ==
    ASSUME NEW S \in SUBSET Holds, NEW T \in SUBSET S
    PROVE  /\ Total(S \ T) = Total(S) - Total(T)
           /\ Total(T) <= Total(S)
BY HoldsAreRows, SumMinus DEF Total

\* A set with one hold on a variant has that hold's quantity there.
LEMMA TotalOnSingle ==
    ASSUME NEW S \in SUBSET Holds, OnePerVariant(S), NEW h \in S
    PROVE  /\ On(S, VariantOf[h]) = {h}
           /\ Total(On(S, VariantOf[h])) = QuantityOf[h]
<1>1. On(S, VariantOf[h]) = {h}
  BY DEF OnePerVariant, On
<1> QED BY <1>1, HoldsAreRows, SumSingle DEF Total

-----------------------------------------------------------------------------
IInv == TypeOK /\ ReservedIsHeld /\ WithinStock

\* The HELD rows among holds, on one variant.
HeldOn(v) == On(With("HELD"), v)

-----------------------------------------------------------------------------
(* Facts about one step of each kind.                                      *)

LEMMA SingleOnePerVariant ==
    ASSUME NEW h \in Holds
    PROVE  OnePerVariant({h})
BY DEF OnePerVariant

LEMMA CheckoutOnePerVariant ==
    ASSUME NEW c, NEW S \in SUBSET InCheckout(Holds, c)
    PROVE  OnePerVariant(S)
BY HoldsAssumption DEF OnePerVariant, InCheckout

LEMMA TotalOnType ==
    ASSUME NEW S \in SUBSET Holds, NEW v
    PROVE  On(S, v) \in SUBSET Holds /\ Total(On(S, v)) \in Nat
<1>1. On(S, v) \in SUBSET Holds
  BY DEF On
<1> QED BY <1>1, TotalType

\* Rows that are created HELD add their total to what is held.
LEMMA HeldGrows ==
    ASSUME NEW S \in SUBSET With("NONE"), NEW v \in Variants,
           status' = [h \in Holds |-> IF h \in S THEN "HELD" ELSE status[h]]
    PROVE  Total(HeldOn(v))' = Total(HeldOn(v)) + Total(On(S, v))
<1>1. HeldOn(v)' = HeldOn(v) \cup On(S, v)
  BY DEF HeldOn, On, With
<1>2. HeldOn(v) \cap On(S, v) = {}
  BY DEF HeldOn, On, With
<1>3. HeldOn(v) \in SUBSET Holds /\ On(S, v) \in SUBSET Holds
  BY DEF HeldOn, On, With
<1>4. Total(HeldOn(v) \cup On(S, v)) = Total(HeldOn(v)) + Total(On(S, v))
  BY <1>2, <1>3, TotalDisjoint
<1>5. Total(HeldOn(v))' = Total(HeldOn(v)')
  BY DEF Total, SumOver, Units, Pieces
<1> QED BY <1>1, <1>4, <1>5, Zenon

\* Rows that are settled take their total out of what is held.
LEMMA HeldShrinks ==
    ASSUME NEW S \in SUBSET With("HELD"), NEW v \in Variants,
           NEW target, target # "HELD",
           status' = [h \in Holds |-> IF h \in S THEN target ELSE status[h]]
    PROVE  /\ Total(HeldOn(v))' = Total(HeldOn(v)) - Total(On(S, v))
           /\ Total(On(S, v)) <= Total(HeldOn(v))
<1>1. HeldOn(v)' = HeldOn(v) \ On(S, v)
  BY DEF HeldOn, On, With
<1>2. HeldOn(v) \in SUBSET Holds /\ On(S, v) \in SUBSET HeldOn(v)
  BY DEF HeldOn, On, With
<1>3. /\ Total(HeldOn(v) \ On(S, v)) = Total(HeldOn(v)) - Total(On(S, v))
      /\ Total(On(S, v)) <= Total(HeldOn(v))
  BY <1>2, TotalMinus
<1>4. Total(HeldOn(v))' = Total(HeldOn(v)')
  BY DEF Total, SumOver, Units, Pieces
<1> QED BY <1>1, <1>3, <1>4, Zenon

\* ReservedIsHeld in the words of the lemmas.
LEMMA ReservedHeldOn ==
    /\ ReservedIsHeld <=> \A v \in Variants : reserved[v] = Total(HeldOn(v))
    /\ ReservedIsHeld' <=> \A v \in Variants : reserved'[v] = Total(HeldOn(v))'
BY DEF ReservedIsHeld, HeldOn

-----------------------------------------------------------------------------
(* Types and the bound under the state changes of the service.             *)

\* What the sweeper of module Checkout leaves of the invariant.
Sound == TypeOK /\ WithinStock

LEMMA ReserveKeeps ==
    ASSUME Sound, NEW S \in SUBSET Holds, Reserve(S)
    PROVE  Sound'
<1> USE DEF Sound
<1>1. \A v \in Variants : Total(On(S, v)) \in Nat
  BY TotalOnType
<1>2. TypeOK'
  BY <1>1, ReservationAssumption, SMTT(20) DEF TypeOK, StockTypeOK, Reserve, Statuses
<1>3. WithinStock'
  <2> SUFFICES ASSUME NEW v \in Variants
               PROVE  0 <= reserved'[v] /\ reserved'[v] <= stock'[v]
    BY DEF WithinStock
  <2>1. /\ reserved'[v] = reserved[v] + Total(On(S, v))
        /\ stock'[v] = stock[v]
    BY DEF Reserve
  <2>2. reserved[v] \in Nat /\ stock[v] \in Nat /\ reserved[v] <= stock[v]
    BY DEF TypeOK, StockTypeOK, WithinStock
  <2>3. CASE v \in {VariantOf[h] : h \in S}
    <3>1. stock[v] - reserved[v] >= Total(On(S, v))
      BY <2>3 DEF Reserve, Available
    <3> QED BY <1>1, <2>1, <2>2, <3>1
  <2>4. CASE v \notin {VariantOf[h] : h \in S}
    <3>1. On(S, v) = {}
      BY <2>4 DEF On
    <3>2. Total(On(S, v)) = 0
      BY <3>1, TotalEmpty, Zenon
    <3> QED BY <2>1, <2>2, <3>2
  <2> QED BY <2>3, <2>4
<1> QED BY <1>2, <1>3

\* What settling rows does to the counter, before looking at the stock.
LEMMA SettleTypes ==
    ASSUME TypeOK, NEW target \in {"CONFIRMED", "RELEASED"},
           NEW S \in SUBSET Holds, Settle(S, target)
    PROVE  /\ reserved' \in [Variants -> Nat]
           /\ status' \in [Holds -> Statuses]
<1>1. \A v \in Variants : Total(On(S, v)) \in Nat
  BY TotalOnType
<1>2. reserved' \in [Variants -> Nat]
  <2> SUFFICES ASSUME NEW v \in Variants
               PROVE  reserved[v] - Total(On(S, v)) \in Nat
    BY DEF Settle
  <2>1. reserved[v] \in Nat /\ reserved[v] >= Total(On(S, v))
    BY DEF TypeOK, StockTypeOK, Settle
  <2> QED BY <1>1, <2>1
<1>3. status' \in [Holds -> Statuses]
  BY DEF TypeOK, Settle, Statuses
<1> QED BY <1>2, <1>3

\* Giving rows back is sound whatever their status is: the counter's own
\* guard is enough.
LEMMA GiveBackKeeps ==
    ASSUME Sound, NEW S \in SUBSET Holds, GiveBack(S),
           closing' \in [Checkouts -> SUBSET Holds]
    PROVE  Sound'
<1> USE DEF Sound
<1>1. Settle(S, "RELEASED") /\ UNCHANGED <<stock, ledger, timeLeft>>
  BY DEF GiveBack
<1>2. reserved' \in [Variants -> Nat] /\ status' \in [Holds -> Statuses]
  BY <1>1, SettleTypes
<1>3. TypeOK'
  BY <1>1, <1>2 DEF TypeOK, StockTypeOK
<1>4. WithinStock'
  <2> SUFFICES ASSUME NEW v \in Variants
               PROVE  0 <= reserved'[v] /\ reserved'[v] <= stock'[v]
    BY DEF WithinStock
  <2>1. Total(On(S, v)) \in Nat
    BY TotalOnType
  <2>2. reserved'[v] = reserved[v] - Total(On(S, v)) /\ stock'[v] = stock[v]
    BY <1>1 DEF Settle
  <2>3. /\ reserved'[v] \in Nat /\ reserved[v] \in Nat /\ stock[v] \in Nat
        /\ reserved[v] <= stock[v]
    BY <1>2 DEF TypeOK, StockTypeOK, WithinStock
  <2> QED BY <2>1, <2>2, <2>3
<1> QED BY <1>3, <1>4

\* A sale takes exactly the quantity of its one hold on each variant.
LEMMA SellTakes ==
    ASSUME TypeOK, NEW S \in SUBSET With("HELD"), OnePerVariant(S), Sell(S),
           NEW v \in Variants
    PROVE  /\ stock'[v] = stock[v] - Total(On(S, v))
           /\ stock'[v] \in Nat
           /\ \/ On(S, v) = {} /\ stock'[v] = stock[v] /\ ledger'[v] = ledger[v]
              \/ \E h \in S : /\ VariantOf[h] = v
                             /\ stock'[v] = stock[v] - QuantityOf[h]
                             /\ ~Recorded(v, "RESERVE_CONFIRM", h)
                             /\ SaleOf(h) \in Entries
                             /\ ledger'[v] = Append(ledger[v], SaleOf(h))
<1>1. stock'[v] = stock[v] - Total(On(S, v))
  BY DEF Sell
<1>2. stock[v] \in Nat
  BY DEF TypeOK, StockTypeOK
<1>3. S \in SUBSET Holds
  BY DEF With
<1>4. CASE On(S, v) = {}
  <2>1. Total(On(S, v)) = 0
    BY <1>4, TotalEmpty, Zenon
  <2>2. ledger'[v] = ledger[v]
    BY <1>4 DEF Sell
  <2> QED BY <1>1, <1>2, <1>4, <2>1, <2>2
<1>5. CASE On(S, v) # {}
  <2>1. PICK h \in S : VariantOf[h] = v
    BY <1>5 DEF On
  <2>2. On(S, v) = {h} /\ Total(On(S, v)) = QuantityOf[h]
    BY <1>3, <2>1, TotalOnSingle
  <2>3. (CHOOSE g \in On(S, v) : TRUE) = h
    BY <2>2
  <2>4. ledger'[v] = Append(ledger[v], SaleOf(h))
    BY <1>5, <2>3, Zenon DEF Sell
  <2>5. stock[v] >= QuantityOf[h] /\ ~Recorded(v, "RESERVE_CONFIRM", h)
    BY <2>1 DEF Sell
  <2>6. QuantityOf[h] \in Nat \ {0}
    BY <1>3, HoldsAssumption
  <2>7. SaleOf(h) \in Entries
    <3>1. h \in Refs
      BY <1>3, ReservationAssumption
    <3>2. stock[v] + (-QuantityOf[h]) \in Nat
      BY <1>2, <2>5, <2>6
    <3> QED BY <2>1, <2>6, <3>1, <3>2
         DEF SaleOf, Entry, Entries, MovementTypes, Outward
  <2>8. stock'[v] = stock[v] - QuantityOf[h]
    BY <1>1, <2>2, Zenon
  <2>9. stock'[v] \in Nat
    BY <1>2, <2>5, <2>6, <2>8
  <2> QED BY <1>1, <2>1, <2>4, <2>5, <2>7, <2>8, <2>9, Zenon
<1> QED BY <1>4, <1>5, Zenon

LEMMA SellKeeps ==
    ASSUME Sound, NEW S \in SUBSET With("HELD"), OnePerVariant(S), Sell(S)
    PROVE  Sound'
<1> USE DEF Sound
<1>1. Settle(S, "CONFIRMED") /\ UNCHANGED <<timeLeft, closing>>
  BY DEF Sell
<1>2. reserved' \in [Variants -> Nat] /\ status' \in [Holds -> Statuses]
  BY <1>1, SettleTypes DEF With
<1>3. TypeOK'
  <2>1. stock' \in [Variants -> Nat]
    <3>1. \A v \in Variants : stock'[v] \in Nat
      BY SellTakes
    <3> QED BY <3>1 DEF Sell
  <2>2. ledger' \in [Variants -> Seq(Entries)]
    <3>1. ASSUME NEW v \in Variants PROVE ledger'[v] \in Seq(Entries)
      <4>1. ledger[v] \in Seq(Entries)
        BY DEF TypeOK, StockTypeOK
      <4>2. \/ ledger'[v] = ledger[v]
            \/ \E h \in S : /\ SaleOf(h) \in Entries
                           /\ ledger'[v] = Append(ledger[v], SaleOf(h))
        BY SellTakes
      <4> QED BY <4>1, <4>2
    <3> QED BY <3>1 DEF Sell
  <2> QED BY <1>1, <1>2, <2>1, <2>2 DEF TypeOK, StockTypeOK
<1>4. WithinStock'
  <2> SUFFICES ASSUME NEW v \in Variants
               PROVE  0 <= reserved'[v] /\ reserved'[v] <= stock'[v]
    BY DEF WithinStock
  <2>1. Total(On(S, v)) \in Nat
    BY TotalOnType DEF With
  <2>2. /\ reserved'[v] = reserved[v] - Total(On(S, v))
        /\ stock'[v] = stock[v] - Total(On(S, v))
    BY <1>1 DEF Settle, Sell
  <2>3. /\ reserved'[v] \in Nat /\ reserved[v] \in Nat /\ stock[v] \in Nat
        /\ reserved[v] <= stock[v]
    BY <1>2 DEF TypeOK, StockTypeOK, WithinStock
  <2> QED BY <2>1, <2>2, <2>3
<1> QED BY <1>3, <1>4

\* A seller's movement is one new ledger row without a reference.
LEMMA MoveIsRecord ==
    ASSUME TypeOK, NEW v \in Variants, SellerMoves(v)
    PROVE  /\ UNCHANGED holdVars /\ UNCHANGED reserved
           /\ \E type \in MovementTypes, quantity \in Int :
                 /\ Record(v, type, quantity, NoRef)
                 /\ stock[v] + quantity \in Nat
                 /\ Entry(v, type, quantity, NoRef) \in Entries
<1>1. stock[v] \in Nat
  BY DEF TypeOK, StockTypeOK
<1>2. /\ UNCHANGED holdVars /\ UNCHANGED reserved
      /\ \E type \in MovementTypes, quantity \in Int :
            Record(v, type, quantity, NoRef) /\ stock[v] + quantity >= 0
  <2>1. CASE \E type \in {"INBOUND", "ADJUST"}, quantity \in Deltas :
                Apply(v, type, quantity, NoRef)
    BY <2>1, StockAssumption DEF SellerMoves, Apply, SetLevel, MovementTypes, Inward
  <2>2. CASE \E level \in 0 .. MaxLevel : SetLevel(v, level)
    <3>1. PICK level \in 0 .. MaxLevel : SetLevel(v, level)
      BY <2>2
    <3>2. level \in Nat
      BY <3>1, StockAssumption
    <3>3. level - stock[v] \in Int /\ stock[v] + (level - stock[v]) >= 0
      BY <1>1, <3>2
    <3> QED BY <3>1, <3>3 DEF SellerMoves, Apply, SetLevel, MovementTypes
  <2> QED BY <2>1, <2>2 DEF SellerMoves
<1>3. PICK type \in MovementTypes, quantity \in Int :
         Record(v, type, quantity, NoRef) /\ stock[v] + quantity >= 0
  BY <1>2
<1>4. stock[v] + quantity \in Nat
  BY <1>1, <1>3
<1>5. Entry(v, type, quantity, NoRef) \in Entries
  BY <1>4 DEF Entry, Entries
<1> QED BY <1>2, <1>3, <1>4, <1>5

\* A seller's movement leaves the counters in their bound.
LEMMA MoveKeeps ==
    ASSUME Sound, NEW v \in Variants, SellerMoves(v)
    PROVE  Sound'
<1> USE DEF Sound
<1>1. UNCHANGED holdVars /\ UNCHANGED reserved
  BY MoveIsRecord
<1>2. PICK type \in MovementTypes, quantity \in Int :
         /\ Record(v, type, quantity, NoRef)
         /\ stock[v] + quantity \in Nat
         /\ Entry(v, type, quantity, NoRef) \in Entries
  BY MoveIsRecord
<1>3. TypeOK'
  <2>1. stock' \in [Variants -> Nat]
    BY <1>2 DEF Record, TypeOK, StockTypeOK
  <2>2. ledger' \in [Variants -> Seq(Entries)]
    BY <1>2 DEF Record, TypeOK, StockTypeOK
  <2> QED BY <1>1, <2>1, <2>2 DEF TypeOK, StockTypeOK, holdVars
<1>4. WithinStock'
  BY <1>1, <1>2 DEF Record, WithinStock, TypeOK, StockTypeOK
<1> QED BY <1>3, <1>4

\* The rest changes no counter and no status.
LEMMA IdleKeeps ==
    ASSUME Sound, UNCHANGED <<stockVars, status>>,
           timeLeft' \in [Holds -> -1 .. TTL],
           closing' \in [Checkouts -> SUBSET Holds]
    PROVE  Sound'
<1>1. TypeOK'
  BY DEF Sound, TypeOK, StockTypeOK, stockVars
<1>2. WithinStock'
  BY DEF Sound, WithinStock, stockVars
<1> QED BY <1>1, <1>2 DEF Sound

-----------------------------------------------------------------------------
(* Every step of the service is one of the state changes above.            *)

\* What a step of the service does to the rows and the counters.
Change ==
    \/ \E S \in SUBSET Holds : Reserve(S)
    \/ \E S \in SUBSET With("HELD") : OnePerVariant(S) /\ Sell(S)
    \/ \E S \in SUBSET With("HELD") :
          GiveBack(S) /\ closing' \in [Checkouts -> SUBSET Holds]
    \/ \E v \in Variants : SellerMoves(v)
    \/ /\ UNCHANGED <<stockVars, status>>
       /\ timeLeft' \in [Holds -> -1 .. TTL]
       /\ closing' \in [Checkouts -> SUBSET Holds]

LEMMA StepIsChange ==
    ASSUME TypeOK, [ReservationNext]_reservationVars
    PROVE  Change
<1>1. ASSUME NEW h \in Holds, Hold(h) PROVE Change
  BY <1>1 DEF Hold, Change
<1>2. ASSUME NEW h \in Holds, Confirm(h) PROVE Change
  <2>1. {h} \in SUBSET With("HELD") /\ Sell({h})
    BY <1>2 DEF Confirm, Settlement, With
  <2> QED BY <2>1, SingleOnePerVariant DEF Change
<1>3. ASSUME NEW h \in Holds, Release(h) PROVE Change
  <2>1. {h} \in SUBSET With("HELD") /\ GiveBack({h})
    BY <1>3 DEF Release, Settlement, With
  <2>2. closing' \in [Checkouts -> SUBSET Holds]
    BY <1>3 DEF Release, TypeOK
  <2> QED BY <2>1, <2>2 DEF Change
<1>4. ASSUME NEW h \in Holds, Extend(h) PROVE Change
  BY <1>4, ReservationAssumption DEF Extend, Change, TypeOK
<1>5. ASSUME NEW c \in Checkouts, ReserveMany(c) PROVE Change
  BY <1>5 DEF ReserveMany, InCheckout, Change
<1>6. ASSUME NEW c \in Checkouts, ConfirmCheckout(c) PROVE Change
  <2> DEFINE rows == InCheckout(Holds \ With("NONE"), c)
             held == {h \in rows : Settlement(h, "CONFIRMED") = "apply"}
  <2>1. Sell(held)
    BY <1>6 DEF ConfirmCheckout
  <2>2. held \in SUBSET With("HELD") /\ held \in SUBSET InCheckout(Holds, c)
    BY DEF Settlement, With, InCheckout
  <2> HIDE DEF held
  <2>3. OnePerVariant(held)
    BY <2>2, CheckoutOnePerVariant
  <2> QED BY <2>1, <2>2, <2>3 DEF Change
<1>7. ASSUME NEW c \in Checkouts, ListHeld(c) \/ AbandonClose(c) PROVE Change
  <2>1. InCheckout(With("HELD"), c) \in SUBSET Holds
    BY DEF InCheckout, With
  <2> QED BY <1>7, <2>1 DEF ListHeld, AbandonClose, Change, TypeOK
<1>8. ASSUME NEW c \in Checkouts, NEW h \in Holds, ReleaseListed(c, h) PROVE Change
  <2>1. closing' \in [Checkouts -> SUBSET Holds]
    BY <1>8 DEF ReleaseListed, TypeOK
  <2>2. CASE Settlement(h, "RELEASED") = "apply" /\ GiveBack({h})
    <3>1. {h} \in SUBSET With("HELD")
      BY <2>2 DEF Settlement, With
    <3> QED BY <2>1, <2>2, <3>1 DEF Change
  <2>3. CASE UNCHANGED <<stockVars, status, timeLeft>>
    BY <2>1, <2>3 DEF Change, TypeOK
  <2> QED BY <1>8, <2>2, <2>3 DEF ReleaseListed
<1>9. ASSUME Tick PROVE Change
  <2>1. timeLeft' \in [Holds -> -1 .. TTL]
    BY <1>9, ReservationAssumption DEF Tick, Ageing, TypeOK
  <2> QED BY <1>9, <2>1 DEF Tick, Change, TypeOK
<1>10. ASSUME UNCHANGED reservationVars PROVE Change
  BY <1>10 DEF reservationVars, holdVars, Change, TypeOK
<1>11. ASSUME NEW v \in Variants, SellerMoves(v) PROVE Change
  BY <1>11 DEF Change
<1> QED
  BY <1>1, <1>2, <1>3, <1>4, <1>5, <1>6, <1>7, <1>8, <1>9, <1>10, <1>11
  DEF ReservationNext, HoldStep, CheckoutStep

LEMMA ChangeKeepsSound ==
    ASSUME Sound, Change
    PROVE  Sound'
<1>1. With("HELD") \in SUBSET Holds
  BY DEF With
<1> QED BY <1>1, ReserveKeeps, SellKeeps, GiveBackKeeps, MoveKeeps, IdleKeeps DEF Change

\* The counter moves with the total of the HELD rows, whatever it was.
LEMMA CounterFollows ==
    ASSUME TypeOK, Change, NEW v \in Variants
    PROVE  \E d \in Nat :
              \/ /\ reserved'[v] = reserved[v] + d
                 /\ Total(HeldOn(v))' = Total(HeldOn(v)) + d
              \/ /\ reserved'[v] = reserved[v] - d
                 /\ Total(HeldOn(v))' = Total(HeldOn(v)) - d
<1> DEFINE Follows(d) ==
              \/ /\ reserved'[v] = reserved[v] + d
                 /\ Total(HeldOn(v))' = Total(HeldOn(v)) + d
              \/ /\ reserved'[v] = reserved[v] - d
                 /\ Total(HeldOn(v))' = Total(HeldOn(v)) - d
<1>1. ASSUME NEW S \in SUBSET Holds, Reserve(S) PROVE \E d \in Nat : Follows(d)
  <2>1. Total(On(S, v)) \in Nat
    BY TotalOnType
  <2>2. reserved'[v] = reserved[v] + Total(On(S, v))
    BY <1>1 DEF Reserve
  <2>3. Total(HeldOn(v))' = Total(HeldOn(v)) + Total(On(S, v))
    BY <1>1, HeldGrows DEF Reserve
  <2>4. Follows(Total(On(S, v)))
    BY <2>2, <2>3, Zenon
  <2> QED BY <2>1, <2>4, Zenon
<1>2. ASSUME NEW S \in SUBSET With("HELD"), NEW target \in {"CONFIRMED", "RELEASED"},
             Settle(S, target)
      PROVE  \E d \in Nat : Follows(d)
  <2>1. Total(On(S, v)) \in Nat
    BY TotalOnType DEF With
  <2>2. reserved'[v] = reserved[v] - Total(On(S, v))
    BY <1>2 DEF Settle
  <2>3. Total(HeldOn(v))' = Total(HeldOn(v)) - Total(On(S, v))
    <3>1. target # "HELD"
      OBVIOUS
    <3> QED BY <1>2, <3>1, HeldShrinks DEF Settle
  <2>4. Follows(Total(On(S, v)))
    BY <2>2, <2>3, Zenon
  <2> QED BY <2>1, <2>4, Zenon
<1>3. ASSUME UNCHANGED <<reserved, status>> PROVE \E d \in Nat : Follows(d)
  <2>1. Total(HeldOn(v))' = Total(HeldOn(v))
    BY <1>3 DEF HeldOn, With, On, Total, SumOver, Units, Pieces
  <2>2. Total(HeldOn(v)) \in Nat /\ reserved[v] \in Nat
    BY TotalOnType DEF HeldOn, With, TypeOK, StockTypeOK
  <2>3. Follows(0)
    BY <1>3, <2>1, <2>2
  <2> QED BY <2>3
<1>4. (\E u \in Variants : SellerMoves(u)) => UNCHANGED <<reserved, status>>
  BY MoveIsRecord DEF holdVars
<1>5. UNCHANGED <<stockVars, status>> => UNCHANGED <<reserved, status>>
  BY DEF stockVars
<1> HIDE DEF Follows
<1>6. \E d \in Nat : Follows(d)
  BY <1>1, <1>2, <1>3, <1>4, <1>5 DEF Change, Sell, GiveBack
<1> QED BY <1>6 DEF Follows

LEMMA ChangeKeeps ==
    ASSUME IInv, Change
    PROVE  IInv'
<1>1. Sound'
  BY ChangeKeepsSound DEF IInv, Sound
<1>2. ASSUME NEW v \in Variants PROVE reserved'[v] = Total(HeldOn(v))'
  <2>1. reserved[v] = Total(HeldOn(v))
    BY ReservedHeldOn DEF IInv
  <2> QED BY <2>1, CounterFollows DEF IInv
<1> QED BY <1>1, <1>2, ReservedHeldOn DEF IInv, Sound

LEMMA InitIInv == ReservationInit => IInv
<1> SUFFICES ASSUME ReservationInit PROVE IInv
  OBVIOUS
<1>1. TypeOK
  <2>1. ASSUME NEW v \in Variants PROVE Open(v) \in Seq(Entries)
    <3> DEFINE e == [type |-> "INBOUND", quantity |-> OpeningStock[v],
                     balance |-> OpeningStock[v], ref |-> NoRef]
    <3>1. OpeningStock[v] \in Nat
      BY StockAssumption
    <3>2. e \in Entries
      BY <3>1 DEF Entries, MovementTypes, Inward
    <3> HIDE DEF e
    <3>3. <<e>> \in Seq(Entries) /\ <<>> \in Seq(Entries)
      BY <3>2
    <3> QED BY <3>3 DEF Open, e
  <2>2. ledger \in [Variants -> Seq(Entries)]
    BY <2>1 DEF ReservationInit
  <2> QED BY <2>2, StockAssumption, ReservationAssumption
       DEF ReservationInit, TypeOK, StockTypeOK, Statuses
<1>2. ReservedIsHeld
  <2>1. \A v \in Variants : On(With("HELD"), v) = {}
    BY DEF ReservationInit, With, On
  <2> QED BY <2>1, TotalEmpty DEF ReservationInit, ReservedIsHeld
<1>3. WithinStock
  <2> SUFFICES ASSUME NEW v \in Variants
               PROVE  0 <= reserved[v] /\ reserved[v] <= stock[v]
    BY DEF WithinStock
  <2>1. OpeningStock[v] \in Nat
    BY StockAssumption
  <2> QED BY <2>1 DEF ReservationInit
<1> QED BY <1>1, <1>2, <1>3 DEF IInv

-----------------------------------------------------------------------------
(* The theorems.                                                           *)

(* The inductive invariant holds in every reachable state of the service:  *)
(* the one every other theorem of this module rests on.                    *)
THEOREM Invariance == ReservationSpec => []IInv
<1>1. ReservationInit => IInv
  BY InitIInv
<1>2. IInv /\ [ReservationNext]_reservationVars => IInv'
  BY StepIsChange, ChangeKeeps DEF IInv
<1> QED BY <1>1, <1>2, PTL DEF ReservationSpec

\* Every variable keeps its type.
THEOREM TypeCorrect == ReservationSpec => []TypeOK
<1>1. IInv => TypeOK
  BY DEF IInv
<1> QED BY <1>1, Invariance, PTL

(* The reserved counter of every variant is the total of its HELD rows:    *)
(* what the reconciliation of ReservationService looks for never occurs.   *)
THEOREM ReservedIsAlwaysHeld == ReservationSpec => []ReservedIsHeld
<1>1. IInv => ReservedIsHeld
  BY DEF IInv
<1> QED BY <1>1, Invariance, PTL

(* The stock of a hold's variant covers every hold on it at once, so a     *)
(* confirmation is never refused for want of stock.                        *)
THEOREM HeldIsAlwaysSellable == ReservationSpec => []HeldIsSellable
<1>1. IInv => HeldIsSellable
  <2> SUFFICES ASSUME IInv, NEW h \in With("HELD")
               PROVE  stock[VariantOf[h]] >= Total(On(With("HELD"), VariantOf[h]))
    BY DEF HeldIsSellable
  <2>1. VariantOf[h] \in Variants
    BY ReservationAssumption DEF With
  <2> QED BY <2>1 DEF IInv, TypeOK, StockTypeOK, WithinStock, ReservedIsHeld
<1> QED BY <1>1, Invariance, PTL

\* A row that is CONFIRMED or RELEASED is never written again.
THEOREM SettledStays == ReservationSpec => SettledIsFinal
<1> DEFINE Final == \A h \in Holds :
              status[h] \in {"CONFIRMED", "RELEASED"} => status'[h] = status[h]
<1>1. IInv /\ [ReservationNext]_reservationVars => [Final]_status
  <2> SUFFICES ASSUME IInv, [ReservationNext]_reservationVars PROVE Final
    OBVIOUS
  <2>1. Change
    BY StepIsChange DEF IInv
  <2>2. ASSUME NEW S \in SUBSET Holds, Reserve(S) PROVE Final
    BY <2>2 DEF Reserve, With
  <2>3. ASSUME NEW S \in SUBSET With("HELD"), Sell(S) PROVE Final
    BY <2>3 DEF Sell, Settle, With
  <2>4. ASSUME NEW S \in SUBSET With("HELD"), GiveBack(S) PROVE Final
    BY <2>4 DEF GiveBack, Settle, With
  <2>5. CASE UNCHANGED status
    BY <2>5
  <2>6. (\E v \in Variants : SellerMoves(v)) => UNCHANGED status
    BY DEF SellerMoves, holdVars
  <2> QED BY <2>1, <2>2, <2>3, <2>4, <2>5, <2>6 DEF Change
<1> QED BY <1>1, Invariance, PTL DEF ReservationSpec, SettledIsFinal

-----------------------------------------------------------------------------
(* The ledger.                                                             *)

Chain(l) ==
    \A i \in DOMAIN l : l[i].balance = BalanceAfter(l, i - 1) + l[i].quantity

\* The rows a step adds: none, or one at the end that continues the chain.
Grows(v) ==
    \/ ledger'[v] = ledger[v] /\ stock'[v] = stock[v]
    \/ \E e \in Entries :
          /\ ledger'[v] = Append(ledger[v], e)
          /\ stock'[v] = e.balance
          /\ e.balance = stock[v] + e.quantity

LEMMA ChangeGrows ==
    ASSUME TypeOK, Change, NEW v \in Variants
    PROVE  Grows(v)
<1>1. ASSUME NEW S \in SUBSET Holds, Reserve(S) PROVE Grows(v)
  BY <1>1 DEF Reserve, Grows
<1>2. ASSUME NEW S \in SUBSET With("HELD"), OnePerVariant(S), Sell(S) PROVE Grows(v)
  <2>1. CASE stock'[v] = stock[v] /\ ledger'[v] = ledger[v]
    BY <2>1 DEF Grows
  <2>2. ASSUME NEW h \in S, VariantOf[h] = v,
               stock'[v] = stock[v] - QuantityOf[h], SaleOf(h) \in Entries,
               ledger'[v] = Append(ledger[v], SaleOf(h))
        PROVE  Grows(v)
    <3>1. QuantityOf[h] \in Nat /\ stock[v] \in Nat
      BY HoldsAssumption DEF With, TypeOK, StockTypeOK
    <3>2. SaleOf(h).balance = stock[v] + (-QuantityOf[h])
          /\ SaleOf(h).quantity = -QuantityOf[h]
      BY <2>2 DEF SaleOf, Entry
    <3>3. stock'[v] = SaleOf(h).balance
      BY <2>2, <3>1, <3>2
    <3> QED BY <2>2, <3>2, <3>3 DEF Grows
  <2> QED BY <1>2, <2>1, <2>2, SellTakes
<1>3. ASSUME NEW S \in SUBSET With("HELD"), GiveBack(S) PROVE Grows(v)
  BY <1>3 DEF GiveBack, Grows
<1>4. ASSUME NEW u \in Variants, SellerMoves(u) PROVE Grows(v)
  <2>1. PICK type \in MovementTypes, quantity \in Int :
           /\ Record(u, type, quantity, NoRef)
           /\ Entry(u, type, quantity, NoRef) \in Entries
    BY <1>4, MoveIsRecord
  <2>2. CASE u = v
    BY <2>1, <2>2 DEF Record, Entry, Grows, TypeOK, StockTypeOK
  <2>3. CASE u # v
    BY <2>1, <2>3 DEF Record, Grows, TypeOK, StockTypeOK
  <2> QED BY <2>2, <2>3
<1>5. CASE UNCHANGED stockVars
  BY <1>5 DEF stockVars, Grows
<1> QED BY <1>1, <1>2, <1>3, <1>4, <1>5 DEF Change

LEMMA AppendKeepsChain ==
    ASSUME NEW l \in Seq(Entries), NEW e \in Entries, Chain(l),
           e.balance = BalanceAfter(l, Len(l)) + e.quantity
    PROVE  /\ Chain(Append(l, e))
           /\ BalanceAfter(Append(l, e), Len(Append(l, e))) = e.balance
<1> DEFINE m == Append(l, e)
<1>1. /\ m \in Seq(Entries) /\ Len(m) = Len(l) + 1 /\ Len(l) \in Nat
      /\ \A i \in 1 .. Len(l) : m[i] = l[i]
      /\ m[Len(l) + 1] = e
  OBVIOUS
<1>2. DOMAIN m = 1 .. Len(l) + 1 /\ DOMAIN l = 1 .. Len(l)
  BY <1>1
<1> HIDE DEF m
<1>3. \A i \in 0 .. Len(l) : BalanceAfter(m, i) = BalanceAfter(l, i)
  BY <1>1 DEF BalanceAfter
<1>4. ASSUME NEW i \in DOMAIN m
      PROVE  m[i].balance = BalanceAfter(m, i - 1) + m[i].quantity
  <2>1. i - 1 \in 0 .. Len(l) /\ BalanceAfter(m, i - 1) = BalanceAfter(l, i - 1)
    BY <1>1, <1>2, <1>3
  <2>2. CASE i \in 1 .. Len(l)
    BY <1>1, <1>2, <2>1, <2>2 DEF Chain
  <2>3. CASE i = Len(l) + 1
    <3>1. i - 1 = Len(l)
      BY <1>1, <2>3
    <3> QED BY <1>1, <2>1, <2>3, <3>1
  <2> QED BY <1>1, <1>2, <2>2, <2>3
<1>5. BalanceAfter(m, Len(m)) = e.balance
  BY <1>1 DEF BalanceAfter
<1> QED BY <1>4, <1>5 DEF Chain, m

\* LedgerExplainsStock for one variant.
Explained(v) ==
    stock[v] = BalanceAfter(ledger[v], Len(ledger[v])) /\ Chain(ledger[v])

LEMMA ExplainedParts ==
    /\ LedgerExplainsStock <=> \A v \in Variants : Explained(v)
    /\ LedgerExplainsStock' <=> \A v \in Variants : Explained(v)'
BY DEF LedgerExplainsStock, Explained, Chain

LEMMA InitExplains == ReservationInit => LedgerExplainsStock
<1> SUFFICES ASSUME ReservationInit, NEW v \in Variants PROVE Explained(v)
  BY ExplainedParts
<1>1. OpeningStock[v] \in Nat
  BY StockAssumption
<1>2. stock[v] = OpeningStock[v] /\ ledger[v] = Open(v)
  BY DEF ReservationInit
<1>3. CASE OpeningStock[v] = 0
  BY <1>2, <1>3 DEF Open, Explained, Chain, BalanceAfter
<1>4. CASE OpeningStock[v] # 0
  <2> DEFINE e == [type |-> "INBOUND", quantity |-> OpeningStock[v],
                   balance |-> OpeningStock[v], ref |-> NoRef]
  <2>1. ledger[v] = <<e>>
    BY <1>2, <1>4 DEF Open
  <2>2. e.balance = OpeningStock[v] /\ e.quantity = OpeningStock[v]
    OBVIOUS
  <2> HIDE DEF e
  <2>3. Len(ledger[v]) = 1 /\ DOMAIN ledger[v] = {1} /\ ledger[v][1] = e
    BY <2>1
  <2> QED BY <1>1, <1>2, <2>2, <2>3 DEF Explained, Chain, BalanceAfter
<1> QED BY <1>3, <1>4

LEMMA GrowthKeepsLedger ==
    ASSUME TypeOK, LedgerExplainsStock, \A v \in Variants : Grows(v)
    PROVE  LedgerExplainsStock'
<1> SUFFICES ASSUME NEW v \in Variants PROVE Explained(v)'
  BY ExplainedParts
<1>1. Grows(v)
  OBVIOUS
<1>2. Explained(v) /\ ledger[v] \in Seq(Entries)
  BY ExplainedParts DEF TypeOK, StockTypeOK
<1>3. CASE ledger'[v] = ledger[v] /\ stock'[v] = stock[v]
  BY <1>2, <1>3 DEF Explained, Chain, BalanceAfter
<1>4. ASSUME NEW e \in Entries, ledger'[v] = Append(ledger[v], e),
             stock'[v] = e.balance, e.balance = stock[v] + e.quantity
      PROVE  Explained(v)'
  <2>1. /\ Chain(Append(ledger[v], e))
        /\ BalanceAfter(Append(ledger[v], e), Len(Append(ledger[v], e))) = e.balance
    BY <1>2, <1>4, AppendKeepsChain DEF Explained
  <2> QED BY <1>4, <2>1 DEF Explained, Chain, BalanceAfter
<1> QED BY <1>1, <1>3, <1>4 DEF Grows

(* The ledger explains the stock of every variant in every reachable state *)
(* of the service: no break in the chain, the newest balance is the stock. *)
THEOREM LedgerAlwaysExplains == ReservationSpec => []LedgerExplainsStock
<1>1. IInv /\ LedgerExplainsStock /\ [ReservationNext]_reservationVars
         => LedgerExplainsStock'
  BY StepIsChange, ChangeGrows, GrowthKeepsLedger DEF IInv
<1> QED BY <1>1, InitExplains, Invariance, PTL DEF ReservationSpec

-----------------------------------------------------------------------------
(* Sales.                                                                  *)

\* SoldOnce for one hold and the ledger of its variant.
SoldIn(l, h, s) ==
    /\ s = "CONFIRMED" <=> \E i \in DOMAIN l : l[i].type = "RESERVE_CONFIRM" /\ l[i].ref = h
    /\ \A i, j \in DOMAIN l :
          (/\ l[i].type = "RESERVE_CONFIRM" /\ l[i].ref = h
           /\ l[j].type = "RESERVE_CONFIRM" /\ l[j].ref = h) => i = j
    /\ \A i \in DOMAIN l : l[i].ref = h => l[i].quantity = -QuantityOf[h]

(* What a step does to the sale of one hold: it adds no row that refers to *)
(* the hold and leaves it as confirmed as it was, or it sells it.          *)
SaleStep(h) ==
    LET v == VariantOf[h]
    IN \/ /\ status'[h] = "CONFIRMED" <=> status[h] = "CONFIRMED"
          /\ \/ ledger'[v] = ledger[v]
             \/ \E e \in Entries : e.ref # h /\ ledger'[v] = Append(ledger[v], e)
       \/ /\ status[h] # "CONFIRMED" /\ status'[h] = "CONFIRMED"
          /\ SaleOf(h) \in Entries
          /\ ledger'[v] = Append(ledger[v], SaleOf(h))

LEMMA ChangeSells ==
    ASSUME TypeOK, Change, NEW h \in Holds
    PROVE  SaleStep(h)
<1> DEFINE v == VariantOf[h]
<1>0. v \in Variants
  BY ReservationAssumption
<1>1. ASSUME NEW S \in SUBSET Holds, Reserve(S) PROVE SaleStep(h)
  BY <1>1 DEF Reserve, With, SaleStep
<1>2. ASSUME NEW S \in SUBSET With("HELD"), OnePerVariant(S), Sell(S) PROVE SaleStep(h)
  <2>1. /\ h \in S => status[h] # "CONFIRMED" /\ status'[h] = "CONFIRMED"
        /\ h \notin S => status'[h] = status[h]
    BY <1>2 DEF Sell, Settle, With
  <2>2. CASE On(S, v) = {} /\ ledger'[v] = ledger[v]
    <3>1. h \notin S
      BY <2>2 DEF On
    <3> QED BY <2>1, <2>2, <3>1 DEF SaleStep
  <2>3. ASSUME NEW g \in S, VariantOf[g] = v, SaleOf(g) \in Entries,
               ledger'[v] = Append(ledger[v], SaleOf(g))
        PROVE  SaleStep(h)
    <3>1. CASE g = h
      BY <2>1, <2>3, <3>1 DEF SaleStep
    <3>2. CASE g # h
      <4>1. h \notin S
        BY <1>2, <2>3, <3>2 DEF OnePerVariant
      <4>2. SaleOf(g).ref # h
        BY <3>2 DEF SaleOf, Entry
      <4> QED BY <2>1, <2>3, <4>1, <4>2 DEF SaleStep
    <3> QED BY <3>1, <3>2
  <2> QED BY <1>0, <1>2, <2>2, <2>3, SellTakes
<1>3. ASSUME NEW S \in SUBSET With("HELD"), GiveBack(S) PROVE SaleStep(h)
  BY <1>3 DEF GiveBack, Settle, With, SaleStep
<1>4. ASSUME NEW u \in Variants, SellerMoves(u) PROVE SaleStep(h)
  <2>1. UNCHANGED status
    BY <1>4 DEF SellerMoves, holdVars
  <2>2. PICK type \in MovementTypes, quantity \in Int :
           /\ Record(u, type, quantity, NoRef)
           /\ Entry(u, type, quantity, NoRef) \in Entries
    BY <1>4, MoveIsRecord
  <2>3. Entry(u, type, quantity, NoRef).ref # h
    BY StockAssumption, ReservationAssumption DEF Entry
  <2>4. ledger \in [Variants -> Seq(Entries)]
    BY DEF TypeOK, StockTypeOK
  <2>5. CASE u = v
    BY <1>0, <2>1, <2>2, <2>3, <2>4, <2>5 DEF Record, SaleStep
  <2>6. CASE u # v
    BY <1>0, <2>1, <2>2, <2>4, <2>6 DEF Record, SaleStep
  <2> QED BY <2>5, <2>6
<1>5. CASE UNCHANGED <<stockVars, status>>
  BY <1>5 DEF stockVars, SaleStep
<1> QED BY <1>1, <1>2, <1>3, <1>4, <1>5 DEF Change

LEMMA AppendKeepsSold ==
    ASSUME NEW l \in Seq(Entries), NEW e \in Entries, NEW h, NEW s, SoldIn(l, h, s)
    PROVE  /\ e.ref # h => SoldIn(Append(l, e), h, s)
           /\ (/\ s # "CONFIRMED" /\ e.type = "RESERVE_CONFIRM" /\ e.ref = h
               /\ e.quantity = -QuantityOf[h]) => SoldIn(Append(l, e), h, "CONFIRMED")
<1> DEFINE m == Append(l, e)
<1>1. /\ DOMAIN m = 1 .. Len(l) + 1 /\ DOMAIN l = 1 .. Len(l) /\ Len(l) \in Nat
      /\ \A i \in 1 .. Len(l) : m[i] = l[i]
      /\ m[Len(l) + 1] = e
  OBVIOUS
<1> HIDE DEF m
<1>2. \A i \in DOMAIN m : (i \in DOMAIN l /\ m[i] = l[i]) \/ (i = Len(l) + 1 /\ m[i] = e)
  BY <1>1
<1>3. \A i \in DOMAIN l : i \in DOMAIN m /\ m[i] = l[i]
  BY <1>1
<1>4. Len(l) + 1 \in DOMAIN m
  BY <1>1
<1>5. e.ref # h => SoldIn(m, h, s)
  BY <1>2, <1>3 DEF SoldIn
<1>6. (s # "CONFIRMED" /\ e.type = "RESERVE_CONFIRM" /\ e.ref = h /\ e.quantity = -QuantityOf[h])
         => SoldIn(m, h, "CONFIRMED")
  BY <1>1, <1>2, <1>4 DEF SoldIn
<1> QED BY <1>5, <1>6 DEF m

\* SoldOnce, hold by hold.
LEMMA SoldParts ==
    /\ SoldOnce <=> \A h \in Holds : SoldIn(ledger[VariantOf[h]], h, status[h])
    /\ SoldOnce' <=> \A h \in Holds : SoldIn(ledger'[VariantOf[h]], h, status'[h])
<1>1. ASSUME NEW h \in Holds, NEW i
      PROVE  /\ i \in SalesOf(h) <=>
                   /\ i \in DOMAIN ledger[VariantOf[h]]
                   /\ ledger[VariantOf[h]][i].type = "RESERVE_CONFIRM"
                   /\ ledger[VariantOf[h]][i].ref = h
             /\ i \in SalesOf(h)' <=>
                   /\ i \in DOMAIN ledger'[VariantOf[h]]
                   /\ ledger'[VariantOf[h]][i].type = "RESERVE_CONFIRM"
                   /\ ledger'[VariantOf[h]][i].ref = h
  BY DEF SalesOf
<1>2. ASSUME NEW h \in Holds
      PROVE  SoldIn(ledger[VariantOf[h]], h, status[h]) <=>
                /\ status[h] = "CONFIRMED" <=> SalesOf(h) # {}
                /\ \A i, j \in SalesOf(h) : i = j
                /\ \A i \in DOMAIN ledger[VariantOf[h]] :
                      ledger[VariantOf[h]][i].ref = h =>
                         ledger[VariantOf[h]][i].quantity = -QuantityOf[h]
  BY <1>1 DEF SoldIn
<1>3. ASSUME NEW h \in Holds
      PROVE  SoldIn(ledger'[VariantOf[h]], h, status'[h]) <=>
                /\ status'[h] = "CONFIRMED" <=> SalesOf(h)' # {}
                /\ \A i, j \in SalesOf(h)' : i = j
                /\ \A i \in DOMAIN ledger'[VariantOf[h]] :
                      ledger'[VariantOf[h]][i].ref = h =>
                         ledger'[VariantOf[h]][i].quantity = -QuantityOf[h]
  BY <1>1 DEF SoldIn
<1> QED BY <1>2, <1>3 DEF SoldOnce

(* A hold is CONFIRMED exactly when the ledger of its variant has its      *)
(* sale, once and for exactly its quantity, in every reachable state of    *)
(* the service.                                                            *)
THEOREM SalesAreTrue == ReservationSpec => []SoldOnce
<1> DEFINE Sold(h) == SoldIn(ledger[VariantOf[h]], h, status[h])
<1>0. SoldOnce <=> \A h \in Holds : Sold(h)
  BY SoldParts
<1>1. ReservationInit => SoldOnce
  <2> SUFFICES ASSUME ReservationInit, NEW h \in Holds PROVE Sold(h)
    BY <1>0
  <2>1. h # NoRef /\ VariantOf[h] \in Variants
    BY StockAssumption, ReservationAssumption
  <2>2. ledger[VariantOf[h]] = Open(VariantOf[h]) /\ status[h] = "NONE"
    BY <2>1 DEF ReservationInit
  <2>3. \A i \in DOMAIN Open(VariantOf[h]) : Open(VariantOf[h])[i].ref = NoRef
    BY DEF Open
  <2>4. \A i \in DOMAIN ledger[VariantOf[h]] : ledger[VariantOf[h]][i].ref # h
    BY <2>1, <2>2, <2>3
  <2> QED BY <2>2, <2>4 DEF SoldIn
<1>2. IInv /\ SoldOnce /\ [ReservationNext]_reservationVars => SoldOnce'
  <2> SUFFICES ASSUME IInv, SoldOnce, [ReservationNext]_reservationVars
               PROVE  SoldOnce'
    OBVIOUS
  <2>1. ASSUME NEW h \in Holds PROVE SoldIn(ledger'[VariantOf[h]], h, status'[h])
    <3> DEFINE l == ledger[VariantOf[h]]
    <3>1. SaleStep(h)
      BY StepIsChange, ChangeSells DEF IInv
    <3>2. l \in Seq(Entries) /\ SoldIn(l, h, status[h])
      BY <1>0, ReservationAssumption DEF IInv, TypeOK, StockTypeOK
    <3>3. CASE ledger'[VariantOf[h]] = l
               /\ (status'[h] = "CONFIRMED" <=> status[h] = "CONFIRMED")
      BY <3>2, <3>3 DEF SoldIn
    <3>4. ASSUME NEW e \in Entries, e.ref # h,
                 ledger'[VariantOf[h]] = Append(l, e),
                 status'[h] = "CONFIRMED" <=> status[h] = "CONFIRMED"
          PROVE  SoldIn(ledger'[VariantOf[h]], h, status'[h])
      <4>1. SoldIn(Append(l, e), h, status[h])
        BY <3>2, <3>4, AppendKeepsSold
      <4> QED BY <3>4, <4>1 DEF SoldIn
    <3>5. CASE /\ status[h] # "CONFIRMED" /\ status'[h] = "CONFIRMED" /\ SaleOf(h) \in Entries
               /\ ledger'[VariantOf[h]] = Append(l, SaleOf(h))
      <4>1. /\ SaleOf(h).type = "RESERVE_CONFIRM" /\ SaleOf(h).ref = h
            /\ SaleOf(h).quantity = -QuantityOf[h]
        BY DEF SaleOf, Entry
      <4>2. SoldIn(Append(l, SaleOf(h)), h, "CONFIRMED")
        BY <3>2, <3>5, <4>1, AppendKeepsSold
      <4> QED BY <3>5, <4>2
    <3> QED BY <3>1, <3>3, <3>4, <3>5 DEF SaleStep
  <2> QED BY <2>1, SoldParts
<1> QED BY <1>1, <1>2, Invariance, PTL DEF ReservationSpec

-----------------------------------------------------------------------------
(* The service implements Inventory.                                       *)

promiseBar == [h \in Holds |-> PromiseOf(status[h])]

LEMMA PromiseOfIs ==
    /\ PromiseOf("NONE") = "none" /\ PromiseOf("HELD") = "open"
    /\ PromiseOf("CONFIRMED") = "sold" /\ PromiseOf("RELEASED") = "returned"
BY DEF PromiseOf

\* What is promised is what is held.
LEMMA PromisedIsHeld ==
    ASSUME IInv, NEW v \in Variants
    PROVE  /\ Shelf!Promised(v) = reserved[v]
           /\ reserved[v] \in Nat /\ stock[v] \in Nat /\ reserved[v] <= stock[v]
<1>1. {h \in Holds : promiseBar[h] = "open"} = With("HELD")
  BY PromiseOfIs DEF promiseBar, With, IInv, TypeOK, Statuses
<1>2. Shelf!Promised(v) = Total(HeldOn(v))
  BY <1>1 DEF Shelf!Promised, TotalOn, HeldOn, promiseBar
<1>3. reserved[v] = Total(HeldOn(v))
  BY ReservedHeldOn DEF IInv
<1> QED BY <1>2, <1>3 DEF IInv, TypeOK, StockTypeOK, WithinStock

\* The rows of S changing status together is S turning in Inventory.
LEMMA TurnTogether ==
    ASSUME NEW S \in SUBSET Holds, NEW s \in Statuses, NEW t \in Statuses,
           \A h \in S : status[h] = s,
           status' = [h \in Holds |-> IF h \in S THEN t ELSE status[h]]
    PROVE  Shelf!Turn(S, PromiseOf(s), PromiseOf(t))
BY DEF Shelf!Turn, promiseBar

LEMMA ChangeRefines ==
    ASSUME IInv, IInv', Change
    PROVE  [Shelf!InventoryNext]_<<stock, promiseBar>>
<1>0. UNCHANGED status => UNCHANGED promiseBar
  BY DEF promiseBar
<1>1. ASSUME NEW S \in SUBSET Holds, Reserve(S)
      PROVE  Shelf!InventoryNext
  <2>1. Shelf!Turn(S, "none", "open")
    <3>1. Shelf!Turn(S, PromiseOf("NONE"), PromiseOf("HELD"))
      BY <1>1, TurnTogether DEF Reserve, With, Statuses
    <3> QED BY <3>1, PromiseOfIs
  <2>2. ASSUME NEW v \in Variants
        PROVE  stock[v] >= Shelf!Promised(v) + TotalOn(S, v)
    <3>1. /\ Shelf!Promised(v) = reserved[v]
          /\ reserved[v] \in Nat /\ stock[v] \in Nat /\ reserved[v] <= stock[v]
      BY PromisedIsHeld
    <3>2. TotalOn(S, v) = Total(On(S, v)) /\ Total(On(S, v)) \in Nat
      BY TotalOnType DEF TotalOn
    <3>3. CASE v \in {VariantOf[h] : h \in S}
      <4>1. stock[v] - reserved[v] >= Total(On(S, v))
        BY <1>1, <3>3 DEF Reserve, Available
      <4> QED BY <3>1, <3>2, <4>1
    <3>4. CASE v \notin {VariantOf[h] : h \in S}
      <4>1. On(S, v) = {}
        BY <3>4 DEF On
      <4>2. Total(On(S, v)) = 0
        BY <4>1, TotalEmpty, Zenon
      <4> QED BY <3>1, <3>2, <4>2
    <3> QED BY <3>3, <3>4
  <2>3. S # {} /\ UNCHANGED stock
    BY <1>1 DEF Reserve
  <2>4. Shelf!PromiseAll(S)
    BY <2>1, <2>2, <2>3 DEF Shelf!PromiseAll
  <2> QED BY <2>3, <2>4 DEF Shelf!InventoryNext
<1>2. ASSUME NEW S \in SUBSET With("HELD"), OnePerVariant(S), Sell(S)
      PROVE  [Shelf!InventoryNext]_<<stock, promiseBar>>
  <2>1. S \in SUBSET Holds
    BY DEF With
  <2>2. Shelf!Turn(S, "open", "sold")
    <3>1. Shelf!Turn(S, PromiseOf("HELD"), PromiseOf("CONFIRMED"))
      BY <1>2, <2>1, TurnTogether DEF Sell, Settle, With, Statuses
    <3> QED BY <3>1, PromiseOfIs
  <2>3. stock' = [v \in Variants |-> stock[v] - TotalOn(S, v)]
    BY <1>2 DEF Sell, TotalOn
  <2>4. Shelf!SellAll(S)
    BY <2>2, <2>3 DEF Shelf!SellAll
  <2>5. CASE S # {}
    BY <2>1, <2>4, <2>5 DEF Shelf!InventoryNext
  <2>6. CASE S = {}
    <3>1. status' = status
      BY <1>2, <2>6 DEF Sell, Settle, IInv, TypeOK
    <3>2. \A v \in Variants : stock'[v] = stock[v]
      <4> SUFFICES ASSUME NEW v \in Variants PROVE stock'[v] = stock[v]
        OBVIOUS
      <4>1. On(S, v) = {}
        BY <2>6 DEF On
      <4>2. Total(On(S, v)) = 0
        BY <4>1, TotalEmpty, Zenon
      <4> QED BY <1>2, <4>2 DEF Sell, IInv, TypeOK, StockTypeOK
    <3>3. stock' = stock
      BY <3>2 DEF IInv, TypeOK, StockTypeOK
    <3> QED BY <1>0, <3>1, <3>3
  <2> QED BY <2>5, <2>6
<1>3. ASSUME NEW S \in SUBSET With("HELD"), GiveBack(S)
      PROVE  [Shelf!InventoryNext]_<<stock, promiseBar>>
  <2>1. S \in SUBSET Holds /\ UNCHANGED stock
    BY <1>3 DEF With, GiveBack
  <2>2. Shelf!Turn(S, "open", "returned")
    <3>1. Shelf!Turn(S, PromiseOf("HELD"), PromiseOf("RELEASED"))
      BY <1>3, <2>1, TurnTogether DEF GiveBack, Settle, With, Statuses
    <3> QED BY <3>1, PromiseOfIs
  <2>3. Shelf!ReturnAll(S)
    BY <2>1, <2>2 DEF Shelf!ReturnAll
  <2>4. CASE S # {}
    BY <2>1, <2>3, <2>4 DEF Shelf!InventoryNext
  <2>5. CASE S = {}
    <3>1. status' = status
      BY <1>3, <2>5 DEF GiveBack, Settle, IInv, TypeOK
    <3> QED BY <1>0, <2>1, <3>1
  <2> QED BY <2>4, <2>5
<1>4. ASSUME NEW v \in Variants, SellerMoves(v)
      PROVE  Shelf!InventoryNext
  <2>1. PICK type \in MovementTypes, quantity \in Int :
           Record(v, type, quantity, NoRef)
    BY <1>4, MoveIsRecord DEF IInv
  <2>2. UNCHANGED promiseBar
    BY <1>0, <1>4, MoveIsRecord DEF IInv, holdVars
  <2>3. stock' \in [Variants -> Nat]
    BY DEF IInv, TypeOK, StockTypeOK
  <2>4. \A u \in Variants \ {v} : stock'[u] = stock[u]
    BY <2>1 DEF Record, IInv, TypeOK, StockTypeOK
  <2>5. stock'[v] >= Shelf!Promised(v)
    <3>1. stock'[v] = stock[v] + quantity /\ reserved[v] <= stock[v] + quantity
      BY <2>1 DEF Record, IInv, TypeOK, StockTypeOK
    <3>2. Shelf!Promised(v) = reserved[v] /\ reserved[v] \in Nat /\ stock[v] \in Nat
      BY PromisedIsHeld
    <3> QED BY <3>1, <3>2
  <2>6. Shelf!Restate(v)
    BY <2>2, <2>3, <2>4, <2>5 DEF Shelf!Restate, promiseBar
  <2> QED BY <2>6 DEF Shelf!InventoryNext
<1>5. CASE UNCHANGED <<stockVars, status>>
  BY <1>0, <1>5 DEF stockVars
<1> QED BY <1>1, <1>2, <1>3, <1>4, <1>5 DEF Change

(* The stock and reservation services implement Inventory: nothing is      *)
(* promised that is not on the shelf, and a promise ends once.             *)
THEOREM ReservationRefinesInventory == ReservationSpec => ImplementsInventory
<1>1. ReservationInit => Shelf!InventoryInit
  <2> SUFFICES ASSUME ReservationInit PROVE Shelf!InventoryInit
    OBVIOUS
  <2>1. stock \in [Variants -> Nat]
    BY StockAssumption DEF ReservationInit
  <2>2. promiseBar = [h \in Holds |-> "none"]
    BY PromiseOfIs DEF ReservationInit, promiseBar
  <2> QED BY <2>1, <2>2 DEF Shelf!InventoryInit, promiseBar
<1>2. IInv /\ IInv' /\ [ReservationNext]_reservationVars
         => [Shelf!InventoryNext]_Shelf!inventoryVars
  BY StepIsChange, ChangeRefines DEF IInv, Shelf!inventoryVars, promiseBar
<1> QED BY <1>1, <1>2, Invariance, PTL
     DEF ReservationSpec, ImplementsInventory, Shelf!InventorySpec

-----------------------------------------------------------------------------
(* Checkouts, orders and the expiry sweeper.                               *)

\* The rows a checkout has by now.
Existing(c) == InCheckout(Holds \ With("NONE"), c)

\* What was drawn or listed once is a row, whatever it has become since.
DrawnExists ==
    /\ \A c \in Checkouts : drafted[c] \subseteq Existing(c) /\ lines[c] \subseteq Existing(c)
    /\ batch \subseteq Holds \ With("NONE")

\* A row that reads CONFIRMED has its sale; a sale is of a row.
SaleOfRow ==
    \A h \in Holds : /\ status[h] = "CONFIRMED" => SoldRow(h)
                     /\ SoldRow(h) => status[h] # "NONE"

CInv ==
    /\ CheckoutTypeOK /\ NothingReservedInVain
    /\ DrawnExists /\ SaleOfRow /\ PaidIffSold

-----------------------------------------------------------------------------
(* What a step does to the rows and the counters.                          *)

LEMMA StepIsServiceOrSweep ==
    ASSUME TypeOK, [CheckoutNext]_checkoutVars
    PROVE  Change \/ ReleaseExpired
<1>1. [ReservationNext]_reservationVars => Change
  BY StepIsChange
<1>2. ASSUME NEW c \in Checkouts, Shopper(c) PROVE [ReservationNext]_reservationVars
  <2>1. CASE OpenCheckout(c) \/ OrderFromCart(c)
    BY <2>1 DEF OpenCheckout, OrderFromCart, ReservationNext, CheckoutStep
  <2>2. CASE CloseCheckout(c)
    BY <2>2 DEF CloseCheckout, ReservationNext, CheckoutStep
  <2>3. CASE DrawLines(c) \/ StoreOrder(c) \/ DropDraft(c) \/ Capture(c)
    BY <2>3 DEF DrawLines, StoreOrder, DropDraft, Capture
  <2>4. CASE MarkPaid(c)
    BY <2>4 DEF MarkPaid, Confirmed, ReservationNext, CheckoutStep
  <2> QED BY <1>2, <2>1, <2>2, <2>3, <2>4 DEF Shopper
<1>3. (ListExpired \/ AbortSweep) => UNCHANGED reservationVars
  BY DEF ListExpired, AbortSweep
<1>4. (\E v \in Variants : SellerMoves(v)) \/ Tick => ReservationNext
  BY DEF ReservationNext
<1>5. UNCHANGED checkoutVars => UNCHANGED reservationVars
  BY DEF checkoutVars
<1> QED BY <1>1, <1>2, <1>3, <1>4, <1>5 DEF CheckoutNext

\* Types and both bounds of the counter survive the sweeper's blind writes.
LEMMA StepKeepsSound ==
    ASSUME Sound, batch \in SUBSET Holds, [CheckoutNext]_checkoutVars
    PROVE  Sound'
<1>1. Change => Sound'
  BY ChangeKeepsSound
<1>2. ReleaseExpired => Sound'
  BY GiveBackKeeps DEF ReleaseExpired, Sound, TypeOK
<1> QED BY <1>1, <1>2, StepIsServiceOrSweep DEF Sound

LEMMA HeldOnType ==
    ASSUME NEW v
    PROVE  HeldOn(v) \in SUBSET Holds /\ Total(HeldOn(v)) \in Nat
BY TotalOnType DEF HeldOn, With

\* A sweep takes at least as much off the counter as off the HELD rows.
LEMMA SweepKeepsVain ==
    ASSUME TypeOK, batch \in SUBSET Holds, ReleaseExpired, NEW v \in Variants,
           reserved[v] <= Total(HeldOn(v))
    PROVE  reserved'[v] <= Total(HeldOn(v))'
<1> DEFINE swept == On(batch, v)
           taken == HeldOn(v) \cap swept
<1>1. Settle(batch, "RELEASED")
  BY DEF ReleaseExpired, GiveBack
<1>2. reserved'[v] = reserved[v] - Total(swept)
  BY <1>1 DEF Settle
<1>3. HeldOn(v)' = HeldOn(v) \ taken
  BY <1>1 DEF Settle, HeldOn, On, With
<1>4. /\ swept \in SUBSET Holds /\ Total(swept) \in Nat
      /\ HeldOn(v) \in SUBSET Holds /\ Total(HeldOn(v)) \in Nat
  BY TotalOnType, HeldOnType
<1> HIDE DEF swept
<1>5. Total(HeldOn(v) \ taken) = Total(HeldOn(v)) - Total(taken)
  BY <1>4, TotalMinus
<1>6. Total(taken) <= Total(swept) /\ Total(taken) \in Nat
  BY <1>4, TotalMinus, TotalType
<1>7. Total(HeldOn(v))' = Total(HeldOn(v)')
  BY DEF Total, SumOver, Units, Pieces
<1>8. Total(HeldOn(v))' = Total(HeldOn(v)) - Total(taken)
  BY <1>3, <1>5, <1>7, Zenon
<1>9. reserved[v] \in Nat
  BY DEF TypeOK, StockTypeOK
<1> QED BY <1>2, <1>4, <1>6, <1>8, <1>9

LEMMA StepKeepsVain ==
    ASSUME TypeOK, batch \in SUBSET Holds, NothingReservedInVain,
           [CheckoutNext]_checkoutVars
    PROVE  NothingReservedInVain'
<1> SUFFICES ASSUME NEW v \in Variants PROVE reserved'[v] <= Total(HeldOn(v))'
  BY DEF NothingReservedInVain, HeldOn
<1>1. reserved[v] <= Total(HeldOn(v)) /\ reserved[v] \in Nat
  BY DEF NothingReservedInVain, HeldOn, TypeOK, StockTypeOK
<1>2. CASE Change
  BY <1>1, <1>2, CounterFollows, HeldOnType
<1>3. CASE ReleaseExpired
  BY <1>1, <1>3, SweepKeepsVain
<1> QED BY <1>2, <1>3, StepIsServiceOrSweep

-----------------------------------------------------------------------------
(* What a step does to an order.                                           *)

OrderTypeOK ==
    /\ batch \subseteq Holds
    /\ drafted \in [Checkouts -> SUBSET Holds]
    /\ lines \in [Checkouts -> SUBSET Holds]
    /\ share \in [Checkouts -> ShareStatuses]
    /\ captured \in [Checkouts -> BOOLEAN]

\* What one order may become, and what its lines may be drawn from.
OrderStep(c) ==
    /\ share[c] \in {"PAID", "PAYMENT_FAILED"} => share'[c] = share[c]
    /\ share'[c] = "PAID" => share[c] = "PAID" \/ MarkPaid(c)
    /\ share[c] = "PAID" => lines'[c] = lines[c]
    /\ captured[c] => captured'[c]
    /\ drafted'[c] \subseteq drafted[c] \cup InCheckout(With("HELD"), c)
    /\ \/ lines'[c] \subseteq lines[c] \cup drafted[c]
       \/ ReserveMany(c) /\ lines'[c] = InCheckout(Holds, c)

OrderStepKeeps ==
    /\ OrderTypeOK'
    /\ \A c \in Checkouts : OrderStep(c)
    /\ batch' \subseteq batch \cup With("HELD")

LEMMA StepIsOrderStep ==
    ASSUME OrderTypeOK, [CheckoutNext]_checkoutVars
    PROVE  OrderStepKeeps
<1> USE DEF OrderTypeOK, ShareStatuses
<1>1. ASSUME UNCHANGED orderVars PROVE OrderStepKeeps
  BY <1>1 DEF orderVars, OrderStepKeeps, OrderStep
<1>2. \A c : InCheckout(With("HELD"), c) \in SUBSET Holds /\ InCheckout(Holds, c) \in SUBSET Holds
  BY DEF InCheckout, With
<1>3. ASSUME NEW c \in Checkouts, Shopper(c) PROVE OrderStepKeeps
  <2>1. CASE OpenCheckout(c) \/ CloseCheckout(c)
    BY <1>1, <2>1 DEF OpenCheckout, CloseCheckout
  <2>2. CASE DrawLines(c)
    BY <1>2, <2>2 DEF DrawLines, OrderStepKeeps, OrderStep
  <2>3. CASE StoreOrder(c)
    BY <2>3 DEF StoreOrder, OrderStepKeeps, OrderStep
  <2>4. CASE DropDraft(c)
    BY <2>4 DEF DropDraft, OrderStepKeeps, OrderStep
  <2>5. CASE OrderFromCart(c)
    BY <1>2, <2>5 DEF OrderFromCart, OrderStepKeeps, OrderStep
  <2>6. CASE Capture(c)
    BY <2>6 DEF Capture, OrderStepKeeps, OrderStep
  <2>7. CASE MarkPaid(c)
    <3>1. /\ share[c] = "PAYMENT_PENDING" /\ share' = [share EXCEPT ![c] = "PAID"]
          /\ UNCHANGED <<batch, drafted, lines, captured>>
      BY <2>7 DEF MarkPaid
    <3>2. OrderTypeOK'
      BY <3>1
    <3>3. ASSUME NEW d \in Checkouts PROVE OrderStep(d)
      <4>1. CASE d = c
        BY <2>7, <3>1, <4>1 DEF OrderStep
      <4>2. CASE d # c
        BY <3>1, <4>2 DEF OrderStep
      <4> QED BY <4>1, <4>2
    <3> QED BY <3>1, <3>2, <3>3 DEF OrderStepKeeps
  <2> QED BY <1>3, <2>1, <2>2, <2>3, <2>4, <2>5, <2>6, <2>7 DEF Shopper
<1>4. ASSUME ListExpired PROVE OrderStepKeeps
  <2>1. /\ UNCHANGED <<drafted, lines, share, captured>>
        /\ batch' \subseteq With("HELD") /\ batch' \subseteq Holds
    BY <1>4 DEF ListExpired, Expired, With
  <2> QED BY <2>1 DEF OrderStepKeeps, OrderStep
<1>5. ASSUME ReleaseExpired PROVE OrderStepKeeps
  <2>1. /\ UNCHANGED <<drafted, lines, captured>> /\ batch' = {}
        /\ share' = [c \in Checkouts |->
                        IF c \in Stranded THEN "PAYMENT_FAILED" ELSE share[c]]
    BY <1>5 DEF ReleaseExpired
  <2>2. \A c \in Stranded : share[c] = "PAYMENT_PENDING"
    BY DEF Stranded
  <2> QED BY <2>1, <2>2 DEF OrderStepKeeps, OrderStep
<1>6. ASSUME AbortSweep PROVE OrderStepKeeps
  BY <1>6 DEF AbortSweep, OrderStepKeeps, OrderStep
<1>7. UNCHANGED checkoutVars => UNCHANGED orderVars
  BY DEF checkoutVars
<1> QED BY <1>1, <1>3, <1>4, <1>5, <1>6, <1>7 DEF CheckoutNext

-----------------------------------------------------------------------------
(* What a step does to the status of the rows.                             *)

StatusStep ==
    \/ \E c \in Checkouts : ReserveMany(c)
    \/ \E c \in Checkouts : MarkPaid(c) /\ ConfirmCheckout(c)
    \/ \E S \in SUBSET Holds : GiveBack(S) /\ S \cap With("NONE") = {}
    \/ UNCHANGED status

LEMMA StepIsStatusStep ==
    ASSUME DrawnExists, [CheckoutNext]_checkoutVars
    PROVE  StatusStep
<1>1. ASSUME NEW c \in Checkouts, Shopper(c) PROVE StatusStep
  <2>1. CASE OpenCheckout(c) \/ OrderFromCart(c)
    BY <2>1 DEF OpenCheckout, OrderFromCart, StatusStep
  <2>2. CASE CloseCheckout(c)
    <3>1. CASE ListHeld(c) \/ AbandonClose(c)
      BY <3>1 DEF ListHeld, AbandonClose, StatusStep
    <3>2. ASSUME NEW h \in Holds, ReleaseListed(c, h) PROVE StatusStep
      <4>1. CASE Settlement(h, "RELEASED") = "apply" /\ GiveBack({h})
        <5>1. {h} \in SUBSET Holds /\ {h} \cap With("NONE") = {}
          BY <4>1 DEF Settlement, With
        <5> QED BY <4>1, <5>1 DEF StatusStep
      <4>2. CASE UNCHANGED status
        BY <4>2 DEF StatusStep
      <4> QED BY <3>2, <4>1, <4>2 DEF ReleaseListed
    <3> QED BY <2>2, <3>1, <3>2 DEF CloseCheckout
  <2>3. CASE DrawLines(c) \/ StoreOrder(c) \/ DropDraft(c) \/ Capture(c)
    BY <2>3 DEF DrawLines, StoreOrder, DropDraft, Capture, reservationVars, holdVars, StatusStep
  <2>4. CASE MarkPaid(c)
    BY <2>4 DEF MarkPaid, Confirmed, reservationVars, holdVars, StatusStep
  <2> QED BY <1>1, <2>1, <2>2, <2>3, <2>4 DEF Shopper
<1>2. CASE ListExpired \/ AbortSweep \/ UNCHANGED checkoutVars
  BY <1>2 DEF ListExpired, AbortSweep, checkoutVars, reservationVars, holdVars, StatusStep
<1>3. CASE ReleaseExpired
  <2>1. batch \in SUBSET Holds /\ batch \cap With("NONE") = {}
    BY DEF DrawnExists
  <2> QED BY <1>3, <2>1 DEF ReleaseExpired, StatusStep
<1>4. CASE Tick
  BY <1>4 DEF Tick, StatusStep
<1>5. CASE \E v \in Variants : SellerMoves(v)
  BY <1>5 DEF SellerMoves, holdVars, StatusStep
<1> QED BY <1>1, <1>2, <1>3, <1>4, <1>5 DEF CheckoutNext

\* The rows MarkPaid settles: all a checkout has, and no other.
LEMMA MarkPaidConfirms ==
    ASSUME NEW c \in Checkouts, MarkPaid(c)
    PROVE  /\ \A h \in Existing(c) : status'[h] = "CONFIRMED"
           /\ \A h \in Holds : h \notin Existing(c) => status'[h] = status[h]
<1>1. CASE Confirmed(c)
  BY <1>1 DEF Confirmed, Existing, InCheckout, reservationVars, holdVars
<1>2. CASE ConfirmCheckout(c)
  <2> DEFINE held == {h \in Existing(c) : Settlement(h, "CONFIRMED") = "apply"}
  <2>1. status' = [h \in Holds |-> IF h \in held THEN "CONFIRMED" ELSE status[h]]
    BY <1>2 DEF ConfirmCheckout, Existing, Sell, Settle
  <2>2. ASSUME NEW h \in Existing(c), h \notin held PROVE status[h] = "CONFIRMED"
    BY <1>2, <2>2 DEF ConfirmCheckout, Existing, Settlement
  <2>3. Existing(c) \subseteq Holds
    BY DEF Existing, InCheckout
  <2> QED BY <2>1, <2>2, <2>3
<1> QED BY <1>1, <1>2 DEF MarkPaid

(* A row that exists stays one; only paying for its checkout confirms it;  *)
(* and a checkout's rows come into existence together.                     *)
LEMMA StatusFacts ==
    ASSUME DrawnExists, [CheckoutNext]_checkoutVars, NEW h \in Holds
    PROVE  /\ status[h] # "NONE" => status'[h] # "NONE"
           /\ status'[h] = "CONFIRMED" => status[h] = "CONFIRMED"
                \/ \E c \in Checkouts : MarkPaid(c) /\ h \in Existing(c)
           /\ status[h] = "NONE" /\ status'[h] # "NONE" =>
                \A g \in InCheckout(Holds, CheckoutOf[h]) : status[g] = "NONE"
<1>1. ASSUME NEW c \in Checkouts, ReserveMany(c)
      PROVE  /\ status[h] # "NONE" => status'[h] = status[h]
             /\ status'[h] = "CONFIRMED" => status[h] = "CONFIRMED"
             /\ status[h] = "NONE" /\ status'[h] # "NONE" =>
                  \A g \in InCheckout(Holds, CheckoutOf[h]) : status[g] = "NONE"
  <2>1. /\ InCheckout(Holds, c) \subseteq With("NONE")
        /\ status' = [g \in Holds |-> IF g \in InCheckout(Holds, c) THEN "HELD" ELSE status[g]]
    BY <1>1 DEF ReserveMany, Reserve
  <2> QED BY <2>1 DEF InCheckout, With
<1>2. ASSUME NEW c \in Checkouts, MarkPaid(c)
      PROVE  /\ h \in Existing(c) => status'[h] = "CONFIRMED" /\ status[h] # "NONE"
             /\ h \notin Existing(c) => status'[h] = status[h]
  BY <1>2, MarkPaidConfirms DEF Existing, InCheckout, With
<1>3. ASSUME NEW S \in SUBSET Holds, GiveBack(S), S \cap With("NONE") = {}
      PROVE  /\ status'[h] # "CONFIRMED" \/ status'[h] = status[h]
             /\ status[h] # "NONE" => status'[h] # "NONE"
             /\ status[h] = "NONE" => status'[h] = "NONE"
  BY <1>3 DEF GiveBack, Settle, With
<1> QED BY <1>1, <1>2, <1>3, StepIsStatusStep DEF StatusStep

-----------------------------------------------------------------------------
(* What a step does to the sales in the ledger.                            *)

SaleIn(l, h) == \E i \in DOMAIN l : l[i].type = "RESERVE_CONFIRM" /\ l[i].ref = h

LEMMA SoldRowIn ==
    ASSUME NEW h \in Holds
    PROVE  /\ SoldRow(h) <=> SaleIn(ledger[VariantOf[h]], h)
           /\ SoldRow(h)' <=> SaleIn(ledger'[VariantOf[h]], h)
<1>1. h # NoRef
  BY StockAssumption, ReservationAssumption
<1> QED BY <1>1 DEF SoldRow, Recorded, SaleIn

LEMMA AppendSale ==
    ASSUME NEW l \in Seq(Entries), NEW e \in Entries, NEW h
    PROVE  SaleIn(Append(l, e), h) <=>
              SaleIn(l, h) \/ (e.type = "RESERVE_CONFIRM" /\ e.ref = h)
<1> DEFINE m == Append(l, e)
<1>1. /\ DOMAIN m = 1 .. Len(l) + 1 /\ DOMAIN l = 1 .. Len(l) /\ Len(l) \in Nat
      /\ \A i \in 1 .. Len(l) : m[i] = l[i]
      /\ m[Len(l) + 1] = e
  OBVIOUS
<1> HIDE DEF m
<1>2. \A i \in DOMAIN m : (i \in DOMAIN l /\ m[i] = l[i]) \/ m[i] = e
  BY <1>1
<1>3. \A i \in DOMAIN l : i \in DOMAIN m /\ m[i] = l[i]
  BY <1>1
<1>4. Len(l) + 1 \in DOMAIN m /\ m[Len(l) + 1] = e
  BY <1>1
<1>5. SaleIn(m, h) <=> SaleIn(l, h) \/ (e.type = "RESERVE_CONFIRM" /\ e.ref = h)
  BY <1>2, <1>3, <1>4, Zenon DEF SaleIn
<1> QED BY <1>5 DEF m

(* A sale stays in the ledger, a new one is of a row now CONFIRMED, and    *)
(* no row becomes CONFIRMED without one.                                   *)
LEMMA SaleFacts ==
    ASSUME TypeOK, SaleOfRow, [CheckoutNext]_checkoutVars, NEW h \in Holds
    PROVE  /\ SoldRow(h) => SoldRow(h)'
           /\ SoldRow(h)' => SoldRow(h) \/ status'[h] = "CONFIRMED"
           /\ status'[h] = "CONFIRMED" => SoldRow(h)'
<1> DEFINE l == ledger[VariantOf[h]]
           m == ledger'[VariantOf[h]]
<1>1. status[h] = "CONFIRMED" => SaleIn(l, h)
  BY SoldRowIn DEF SaleOfRow
<1>2. l \in Seq(Entries)
  BY ReservationAssumption DEF TypeOK, StockTypeOK
<1>3. /\ SaleIn(l, h) => SaleIn(m, h)
      /\ SaleIn(m, h) => SaleIn(l, h) \/ status'[h] = "CONFIRMED"
      /\ status'[h] = "CONFIRMED" => SaleIn(m, h)
  <2>1. CASE Change
    <3>1. SaleStep(h)
      BY <2>1, ChangeSells
    <3>2. CASE m = l /\ (status'[h] = "CONFIRMED" <=> status[h] = "CONFIRMED")
      BY <1>1, <3>2
    <3>3. ASSUME NEW e \in Entries, e.ref # h, m = Append(l, e),
                 status'[h] = "CONFIRMED" <=> status[h] = "CONFIRMED"
          PROVE  SaleIn(m, h) <=> SaleIn(l, h)
      BY <1>2, <3>3, AppendSale
    <3>4. CASE status'[h] = "CONFIRMED" /\ SaleOf(h) \in Entries /\ m = Append(l, SaleOf(h))
      <4>1. SaleOf(h).type = "RESERVE_CONFIRM" /\ SaleOf(h).ref = h
        BY DEF SaleOf, Entry
      <4> QED BY <1>2, <3>4, <4>1, AppendSale
    <3> QED BY <1>1, <3>1, <3>2, <3>3, <3>4 DEF SaleStep
  <2>2. CASE ReleaseExpired
    <3>1. ledger' = ledger /\ (status'[h] = "CONFIRMED" => status[h] = "CONFIRMED")
      BY <2>2 DEF ReleaseExpired, GiveBack, Settle
    <3> QED BY <1>1, <3>1
  <2> QED BY <2>1, <2>2, StepIsServiceOrSweep
<1> QED BY <1>3, SoldRowIn

LEMMA StepKeepsSales ==
    ASSUME TypeOK, DrawnExists, SaleOfRow, [CheckoutNext]_checkoutVars
    PROVE  SaleOfRow'
<1> SUFFICES ASSUME NEW h \in Holds
             PROVE  /\ status'[h] = "CONFIRMED" => SoldRow(h)'
                    /\ SoldRow(h)' => status'[h] # "NONE"
  BY DEF SaleOfRow
<1> QED BY SaleFacts, StatusFacts DEF SaleOfRow

\* Rows do not go away, so what exists of a checkout only grows.
LEMMA StepKeepsDrawn ==
    ASSUME OrderTypeOK, DrawnExists, [CheckoutNext]_checkoutVars
    PROVE  DrawnExists'
<1>1. ASSUME NEW h \in Holds, status[h] # "NONE" PROVE status'[h] # "NONE"
  BY <1>1, StatusFacts
<1>2. \A c : Existing(c) \subseteq Existing(c)'
  BY <1>1 DEF Existing, InCheckout, With
<1>3. \A c : InCheckout(With("HELD"), c) \subseteq Existing(c)
  BY DEF Existing, InCheckout, With
<1>4. OrderStepKeeps
  BY StepIsOrderStep
<1>5. ASSUME NEW c \in Checkouts
      PROVE  drafted'[c] \subseteq Existing(c)' /\ lines'[c] \subseteq Existing(c)'
  <2>1. OrderStep(c)
    BY <1>4 DEF OrderStepKeeps
  <2>2. drafted[c] \subseteq Existing(c) /\ lines[c] \subseteq Existing(c)
    BY DEF DrawnExists
  <2>3. drafted'[c] \subseteq Existing(c)'
    BY <1>2, <1>3, <2>1, <2>2 DEF OrderStep
  <2>4. CASE lines'[c] \subseteq lines[c] \cup drafted[c]
    BY <1>2, <2>2, <2>3, <2>4
  <2>5. CASE ReserveMany(c) /\ lines'[c] = InCheckout(Holds, c)
    <3>1. \A h \in InCheckout(Holds, c) : status'[h] = "HELD"
      BY <2>5 DEF ReserveMany, Reserve, InCheckout
    <3> QED BY <2>3, <2>5, <3>1 DEF Existing, InCheckout, With
  <2> QED BY <2>1, <2>3, <2>4, <2>5 DEF OrderStep
<1>6. batch' \subseteq Holds \ With("NONE")'
  <2>1. batch' \subseteq batch \cup With("HELD")
    BY <1>4 DEF OrderStepKeeps
  <2> QED BY <1>1, <2>1 DEF DrawnExists, With
<1> QED BY <1>5, <1>6 DEF DrawnExists

-----------------------------------------------------------------------------
(* Stock and orders.                                                       *)

\* Paying for a checkout leaves a sale for every row it has.
LEMMA MarkPaidSells ==
    ASSUME TypeOK, SaleOfRow, DrawnExists, [CheckoutNext]_checkoutVars,
           NEW c \in Checkouts, MarkPaid(c)
    PROVE  /\ \A g \in Existing(c) : SoldRow(g)'
           /\ Existing(c)' = Existing(c)
<1>1. Existing(c) \subseteq Holds
  BY DEF Existing, InCheckout
<1>2. /\ \A g \in Existing(c) : status'[g] = "CONFIRMED"
      /\ \A g \in Holds : g \notin Existing(c) => status'[g] = status[g]
  BY MarkPaidConfirms
<1>3. ASSUME NEW g \in Existing(c) PROVE SoldRow(g)'
  BY <1>1, <1>2, SaleFacts
<1>4. Existing(c)' = Existing(c)
  BY <1>2 DEF Existing, InCheckout, With
<1> QED BY <1>3, <1>4

\* A PAID order's lines are sold, and are rows of its checkout.
PaidIsSold(c) ==
    share[c] = "PAID" => /\ \A h \in lines[c] : SoldRow(h)
                         /\ lines[c] \subseteq InCheckout(Holds, c)

\* A sold row's checkout is captured, paid and sold whole.
SoldIsPaid(h) ==
    SoldRow(h) => /\ captured[CheckoutOf[h]]
                  /\ share[CheckoutOf[h]] = "PAID"
                  /\ \A g \in Existing(CheckoutOf[h]) : SoldRow(g)

LEMMA PaidIffSoldParts ==
    /\ PaidIffSold <=> /\ \A c \in Checkouts : PaidIsSold(c)
                       /\ \A h \in Holds : SoldIsPaid(h)
    /\ PaidIffSold' <=> /\ \A c \in Checkouts : PaidIsSold(c)'
                        /\ \A h \in Holds : SoldIsPaid(h)'
BY DEF PaidIffSold, PaidIsSold, SoldIsPaid, Existing

LEMMA StepKeepsPaidIsSold ==
    ASSUME TypeOK, OrderTypeOK, DrawnExists, SaleOfRow,
           [CheckoutNext]_checkoutVars, NEW c \in Checkouts, PaidIsSold(c)
    PROVE  PaidIsSold(c)'
<1> SUFFICES ASSUME share'[c] = "PAID"
             PROVE  /\ \A h \in lines'[c] : SoldRow(h)'
                    /\ lines'[c] \subseteq InCheckout(Holds, c)
  BY DEF PaidIsSold, InCheckout
<1>1. OrderStep(c)
  BY StepIsOrderStep DEF OrderStepKeeps
<1>2. CASE share[c] = "PAID"
  <2>1. lines'[c] = lines[c] /\ lines[c] \subseteq InCheckout(Holds, c)
        /\ \A h \in lines[c] : SoldRow(h)
    BY <1>1, <1>2 DEF OrderStep, PaidIsSold
  <2>2. lines[c] \subseteq Holds
    BY <2>1 DEF InCheckout
  <2>3. ASSUME NEW h \in lines[c] PROVE SoldRow(h)'
    BY <2>1, <2>2, SaleFacts
  <2> QED BY <2>1, <2>3
<1>3. CASE MarkPaid(c)
  <2>1. lines'[c] = lines[c] /\ lines[c] \subseteq Existing(c)
    BY <1>3 DEF MarkPaid, DrawnExists
  <2>2. \A h \in Existing(c) : SoldRow(h)'
    BY <1>3, MarkPaidSells
  <2>3. Existing(c) \subseteq InCheckout(Holds, c)
    BY DEF Existing, InCheckout
  <2> QED BY <2>1, <2>2, <2>3
<1> QED BY <1>1, <1>2, <1>3 DEF OrderStep

LEMMA StepKeepsSoldIsPaid ==
    ASSUME TypeOK, OrderTypeOK, DrawnExists, SaleOfRow,
           [CheckoutNext]_checkoutVars, NEW h \in Holds, SoldIsPaid(h)
    PROVE  SoldIsPaid(h)'
<1> DEFINE c == CheckoutOf[h]
<1>0. c \in Checkouts
  BY HoldsAssumption
<1> SUFFICES ASSUME SoldRow(h)'
             PROVE  captured'[c] /\ share'[c] = "PAID" /\ \A g \in Existing(c)' : SoldRow(g)'
  BY DEF SoldIsPaid
<1>1. CASE SoldRow(h)
  <2>1. captured[c] /\ share[c] = "PAID" /\ \A g \in Existing(c) : SoldRow(g)
    BY <1>1 DEF SoldIsPaid
  <2>2. captured'[c] /\ share'[c] = "PAID"
    BY <1>0, <2>1, StepIsOrderStep DEF OrderStepKeeps, OrderStep
  <2>3. ASSUME NEW g \in Existing(c)' PROVE SoldRow(g)'
    <3>1. g \in Holds /\ CheckoutOf[g] = c /\ status'[g] # "NONE"
      BY DEF Existing, InCheckout, With
    <3>2. status[h] # "NONE" /\ h \in InCheckout(Holds, c)
      BY <1>1 DEF SaleOfRow, InCheckout
    <3>3. status[g] # "NONE"
      BY <3>1, <3>2, StatusFacts
    <3>4. g \in Existing(c)
      BY <3>1, <3>3 DEF Existing, InCheckout, With
    <3> QED BY <2>1, <3>1, <3>4, SaleFacts
  <2> QED BY <2>2, <2>3
<1>2. CASE ~SoldRow(h)
  <2>1. status'[h] = "CONFIRMED" /\ status[h] # "CONFIRMED"
    BY <1>2, SaleFacts DEF SaleOfRow
  <2>2. PICK d \in Checkouts : MarkPaid(d) /\ h \in Existing(d)
    BY <2>1, StatusFacts
  <2>3. d = c
    BY <2>2 DEF Existing, InCheckout
  <2>4. captured'[c] /\ share'[c] = "PAID"
    BY <1>0, <2>2, <2>3 DEF MarkPaid, OrderTypeOK
  <2>5. \A g \in Existing(c)' : SoldRow(g)'
    BY <1>0, <2>2, <2>3, MarkPaidSells
  <2> QED BY <2>4, <2>5
<1> QED BY <1>1, <1>2

-----------------------------------------------------------------------------
(* The theorems.                                                           *)

LEMMA CheckoutTypeParts ==
    /\ CheckoutTypeOK <=> Sound /\ OrderTypeOK
    /\ CheckoutTypeOK' <=> Sound' /\ OrderTypeOK'
BY DEF CheckoutTypeOK, Sound, OrderTypeOK

LEMMA InitCInv == CheckoutInit => CInv
<1> SUFFICES ASSUME CheckoutInit PROVE CInv
  OBVIOUS
<1>1. IInv
  BY InitIInv DEF CheckoutInit
<1>2. OrderTypeOK
  BY DEF CheckoutInit, OrderTypeOK, ShareStatuses
<1>3. CheckoutTypeOK
  BY <1>1, <1>2, CheckoutTypeParts DEF IInv, Sound
<1>4. NothingReservedInVain
  <2> SUFFICES ASSUME NEW v \in Variants PROVE reserved[v] <= Total(HeldOn(v))
    BY DEF NothingReservedInVain, HeldOn
  <2>1. reserved[v] = Total(HeldOn(v))
    BY <1>1, ReservedHeldOn DEF IInv
  <2>2. Total(HeldOn(v)) \in Nat
    BY HeldOnType
  <2> QED BY <2>1, <2>2
<1>5. DrawnExists
  BY DEF CheckoutInit, DrawnExists
<1>6. ASSUME NEW h \in Holds PROVE ~SoldRow(h) /\ status[h] = "NONE"
  <2>1. h # NoRef /\ VariantOf[h] \in Variants
    BY StockAssumption, ReservationAssumption
  <2>2. ledger[VariantOf[h]] = Open(VariantOf[h]) /\ status[h] = "NONE"
    BY <2>1 DEF CheckoutInit, ReservationInit
  <2>3. \A i \in DOMAIN Open(VariantOf[h]) : Open(VariantOf[h])[i].ref = NoRef
    BY DEF Open
  <2> QED BY <2>1, <2>2, <2>3, SoldRowIn DEF SaleIn
<1>7. SaleOfRow
  BY <1>6 DEF SaleOfRow
<1>8. PaidIffSold
  BY <1>6 DEF CheckoutInit, PaidIffSold
<1> QED BY <1>3, <1>4, <1>5, <1>7, <1>8 DEF CInv

LEMMA StepKeepsCInv ==
    ASSUME CInv, [CheckoutNext]_checkoutVars
    PROVE  CInv'
<1>0. Sound /\ TypeOK /\ OrderTypeOK /\ batch \in SUBSET Holds
  BY CheckoutTypeParts DEF CInv, Sound, OrderTypeOK
<1>1. CheckoutTypeOK'
  BY <1>0, StepKeepsSound, StepIsOrderStep, CheckoutTypeParts DEF OrderStepKeeps
<1>2. NothingReservedInVain'
  BY <1>0, StepKeepsVain DEF CInv
<1>3. DrawnExists'
  BY <1>0, StepKeepsDrawn DEF CInv
<1>4. SaleOfRow'
  BY <1>0, StepKeepsSales DEF CInv
<1>5. PaidIffSold'
  <2>1. ASSUME NEW c \in Checkouts PROVE PaidIsSold(c)'
    BY <1>0, StepKeepsPaidIsSold, PaidIffSoldParts DEF CInv
  <2>2. ASSUME NEW h \in Holds PROVE SoldIsPaid(h)'
    BY <1>0, StepKeepsSoldIsPaid, PaidIffSoldParts DEF CInv
  <2> QED BY <2>1, <2>2, PaidIffSoldParts
<1> QED BY <1>1, <1>2, <1>3, <1>4, <1>5 DEF CInv

(* The inductive invariant holds in every reachable state of checkouts,    *)
(* orders and sweeper together: what the theorems below rest on.           *)
THEOREM CheckoutInvariance == CheckoutSpec => []CInv
<1>1. CInv /\ [CheckoutNext]_checkoutVars => CInv'
  BY StepKeepsCInv
<1> QED BY <1>1, InitCInv, PTL DEF CheckoutSpec

(* Every variable keeps its type and what is reserved stays within the     *)
(* stock, the sweeper's blind writes included.                             *)
THEOREM CheckoutsAreTyped == CheckoutSpec => []CheckoutTypeOK
<1>1. CInv => CheckoutTypeOK
  BY DEF CInv
<1> QED BY <1>1, CheckoutInvariance, PTL

(* The sweeper may leave the reserved counter short of the HELD rows, but  *)
(* never above them: no piece is withheld that nobody holds.               *)
THEOREM NothingIsWithheld == CheckoutSpec => []NothingReservedInVain
<1>1. CInv => NothingReservedInVain
  BY DEF CInv
<1> QED BY <1>1, CheckoutInvariance, PTL

(* A PAID order has each of its lines sold from its own checkout, and      *)
(* nothing is sold but to a captured, PAID order, and then whole: however  *)
(* holds are swept, closed or listed meanwhile.                            *)
THEOREM PaidOrdersAreSold == CheckoutSpec => []PaidIffSold
<1>1. CInv => PaidIffSold
  BY DEF CInv
<1> QED BY <1>1, CheckoutInvariance, PTL

(* An order that is PAID or PAYMENT_FAILED stays what it is: the sweeper   *)
(* fails only what is pending, and the straggler batch pays only that.     *)
THEOREM OutcomesStay == CheckoutSpec => OutcomeIsFinal
<1> DEFINE Final == \A c \in Checkouts :
              share[c] \in {"PAID", "PAYMENT_FAILED"} => share'[c] = share[c]
<1>1. CInv /\ [CheckoutNext]_checkoutVars => [Final]_share
  BY CheckoutTypeParts, StepIsOrderStep DEF CInv, OrderStepKeeps, OrderStep
<1> QED BY <1>1, CheckoutInvariance, PTL DEF CheckoutSpec, OutcomeIsFinal

(* The ledger explains the stock of every variant in the composition too:  *)
(* a sweep writes to rows and to the counter, never to stock or ledger.    *)
THEOREM LedgerExplainsWhenSwept == CheckoutSpec => []LedgerExplainsStock
<1>1. CheckoutInit => LedgerExplainsStock
  BY InitExplains DEF CheckoutInit
<1>2. CInv /\ LedgerExplainsStock /\ [CheckoutNext]_checkoutVars => LedgerExplainsStock'
  <2> SUFFICES ASSUME CInv, LedgerExplainsStock, [CheckoutNext]_checkoutVars
               PROVE  LedgerExplainsStock'
    OBVIOUS
  <2>1. TypeOK
    BY DEF CInv, CheckoutTypeOK
  <2>2. ReleaseExpired => \A v \in Variants : Grows(v)
    BY DEF ReleaseExpired, GiveBack, Grows
  <2> QED BY <2>1, <2>2, StepIsServiceOrSweep, ChangeGrows, GrowthKeepsLedger
<1> QED BY <1>1, <1>2, CheckoutInvariance, PTL DEF CheckoutSpec

=============================================================================
