-------------------------- MODULE SettlementProofs --------------------------
(***************************************************************************)
(* What holds of the settlement for any sellers, shares, quantities and    *)
(* weeks: no seller is short, a sheet's sums are those of its lines, and   *)
(* every write makes the lines of a share add up to what was read.         *)
(*                                                                         *)
(* The batch writes what it has read some time ago.  The proof rests on    *)
(* two facts about that: units only ever come back, so what was read is    *)
(* never more than what is back (ReadsAreOld), and a later batch reads no  *)
(* less than an earlier one, so the lines of a share never add up to less  *)
(* than the last reading allows (Owed).                                    *)
(***************************************************************************)
EXTENDS Settlement, DataProofs

SheetStatuses == {"NONE", "PENDING", "HOLD", "APPROVED", "PAID"}

SettlementTypeOK ==
    /\ week \in 0 .. MaxWeeks
    /\ confirmed \in [Shares -> Nat] /\ returned \in [Shares -> Nat]
    /\ sheet \in [Sellers -> [Weeks -> SheetStatuses]]
    /\ total \in [Sellers -> [Weeks -> [sold : Nat, deducted : Nat]]]
    /\ sale \in [Shares -> [week : 0 .. MaxWeeks, units : Nat]]
    /\ deducted \in [Shares -> [Weeks -> Nat]]
    /\ late \subseteq Shares
    /\ period \in 0 .. MaxWeeks
    /\ task \in [Shares -> {"NONE", "SETTLE", "AMEND", "ADJUST"}]
    /\ returnedThen \in [Shares -> Nat]
    /\ loaded \in BOOLEAN
    /\ opened \in Sellers \cup {NoSeller}

ReadsAreOld ==
    \A s \in Shares : returnedThen[s] <= returned[s] /\ returned[s] <= Quantity[s]

\* A batch at work has a week, and one in a transaction is at work.
BatchIsAtWork ==
    /\ Busy # {} => period \in Weeks
    /\ opened # NoSeller => Busy # {}

Untouched(s) == \A w \in Weeks : deducted[s][w] = 0

SheetOf(s) == sheet[SellerOf[s]][sale[s].week]

\* Nothing is deducted from a share before its SALE line is fixed, and a
\* task goes with what the share's lines are.
LinesAreInOrder ==
    \A s \in Shares :
       /\ sale[s].week = 0 => Untouched(s)
       /\ sale[s].week # 0 => SheetOf(s) # "NONE" /\ (SheetOf(s) = "PENDING" => Untouched(s))
       /\ task[s] = "SETTLE" => sale[s].week = 0
       /\ task[s] = "AMEND" => sale[s].week # 0 /\ Untouched(s)
       /\ task[s] = "ADJUST" => sale[s].week # 0 /\ SheetOf(s) # "PENDING"

Owed ==
    \A s \in Shares :
       sale[s].week # 0 => Settled(s) \in Quantity[s] - returnedThen[s] .. Quantity[s]

IInv ==
    /\ SettlementTypeOK /\ ReadsAreOld /\ BatchIsAtWork
    /\ LinesAreInOrder /\ Owed /\ TotalsMatchLines

-----------------------------------------------------------------------------
(* Sums.                                                                   *)

LEMMA SumOfNothing ==
    ASSUME NEW S, NEW f, \A h \in S : f[h] = 0
    PROVE  SumOver(S, f) = 0
<1>1. \A h \in S : Pieces(h, f) = {}
  BY DEF Pieces
<1>2. Units(S, f) = {}
  BY <1>1 DEF Units
<1> QED BY <1>2, FS_EmptySet DEF SumOver

LEMMA WeeksAreFinite == IsFiniteSet(Weeks)
BY SettlementAssumption, FS_Interval DEF Weeks

\* What one week's adjustment is worth among all.
LEMMA SumOfWeeks ==
    ASSUME NEW f \in [Weeks -> Nat], NEW w \in Weeks
    PROVE  /\ SumOver(Weeks \ {w}, f) \in Nat /\ SumOver(Weeks, f) \in Nat
           /\ SumOver(Weeks, f) = SumOver(Weeks \ {w}, f) + f[w]
<1>1. Amounts(Weeks, f)
  BY WeeksAreFinite DEF Amounts
<1>2. SumOver(Weeks \ {w}, f) \in Nat /\ SumOver(Weeks, f) \in Nat
  BY <1>1, SumType
<1>3. SumOver({w}, f) = f[w]
  BY <1>1, SumSingle
<1>4. (Weeks \ {w}) \cup {w} = Weeks /\ (Weeks \ {w}) \cap {w} = {}
  OBVIOUS
<1>5. SumOver((Weeks \ {w}) \cup {w}, f) = SumOver(Weeks \ {w}, f) + SumOver({w}, f)
  BY <1>1, <1>4, SumDisjoint
<1> QED BY <1>2, <1>3, <1>4, <1>5

LEMMA SumOfOneMore ==
    ASSUME NEW f \in [Weeks -> Nat], NEW w \in Weeks, NEW n \in Nat
    PROVE  SumOver(Weeks, [f EXCEPT ![w] = n]) = SumOver(Weeks \ {w}, f) + n
<1> DEFINE g == [f EXCEPT ![w] = n]
<1>1. g \in [Weeks -> Nat] /\ g[w] = n /\ \A v \in Weeks \ {w} : g[v] = f[v]
  OBVIOUS
<1> HIDE DEF g
<1>2. SumOver(Weeks \ {w}, g) = SumOver(Weeks \ {w}, f)
  BY <1>1, SumSame
<1>3. SumOver(Weeks, g) = SumOver(Weeks \ {w}, g) + g[w]
  BY <1>1, SumOfWeeks
<1>4. SumOver(Weeks, g) = SumOver(Weeks \ {w}, f) + n
  BY <1>1, <1>2, <1>3
<1> QED BY <1>4 DEF g

\* The sum over weeks is a natural number, also where there is no week.
LEMMA WeeklySumType ==
    ASSUME NEW f \in [Weeks -> Nat]
    PROVE  SumOver(Weeks, f) \in Nat
<1>1. Amounts(Weeks, f)
  BY WeeksAreFinite DEF Amounts
<1> QED BY <1>1, SumType

LEMMA SheetSumType ==
    ASSUME NEW f \in [Shares -> Nat], NEW S \in SUBSET Shares
    PROVE  SumOver(S, f) \in Nat
<1>1. Amounts(Shares, f)
  BY SettlementAssumption DEF Amounts
<1> QED BY <1>1, SumType

-----------------------------------------------------------------------------
(* The one step that writes lines.                                         *)

\* What it does to a share: nothing, a new SALE line with what is due, or an
\* adjustment that makes the lines add up to what is due.
LEMMA SettledShare ==
    ASSUME IInv, NEW q \in Sellers, SettleSeller(q), NEW s \in Shares
    PROVE  \/ /\ ~(SellerOf[s] = q /\ task[s] # "NONE")
              /\ sale'[s] = sale[s] /\ deducted'[s] = deducted[s]
           \/ /\ SellerOf[s] = q /\ task[s] \in {"SETTLE", "AMEND"}
              /\ sale'[s] = [week |-> SheetOfLine(s), units |-> ShouldBe(s)]
              /\ SheetOfLine(s) \in Weeks
              /\ deducted'[s] = deducted[s] /\ Untouched(s)
              /\ Settled(s)' = ShouldBe(s)
           \/ /\ SellerOf[s] = q /\ task[s] = "ADJUST"
              /\ sale'[s] = sale[s] /\ sale[s].week # 0
              /\ deducted'[s] = [deducted[s] EXCEPT ![period] = SettledSoFar(s) - ShouldBe(s)]
              /\ SettledSoFar(s) - ShouldBe(s) \in Nat
              /\ Settled(s)' = ShouldBe(s)
<1>1. period \in Weeks
  BY SettlementAssumption DEF IInv, BatchIsAtWork, SettleSeller
<1>2. /\ deducted[s] \in [Weeks -> Nat] /\ sale[s] \in [week : 0 .. MaxWeeks, units : Nat]
      /\ ShouldBe(s) \in Nat /\ Quantity[s] \in Nat /\ returnedThen[s] \in Nat
      /\ task[s] \in {"NONE", "SETTLE", "AMEND", "ADJUST"}
      /\ MaxWeeks \in Nat
  BY SettlementAssumption DEF IInv, SettlementTypeOK, ReadsAreOld, ShouldBe
<1>3. /\ sale'[s] = IF SellerOf[s] = q /\ task[s] \in {"SETTLE", "AMEND"}
                    THEN [week |-> SheetOfLine(s), units |-> ShouldBe(s)] ELSE sale[s]
      /\ deducted'[s] = IF SellerOf[s] = q /\ task[s] = "ADJUST"
                        THEN [deducted[s] EXCEPT ![period] = SettledSoFar(s) - ShouldBe(s)]
                        ELSE deducted[s]
  BY DEF SettleSeller, WriteLines, SharesOf
<1>4. CASE ~(SellerOf[s] = q /\ task[s] # "NONE")
  BY <1>3, <1>4
<1>5. CASE SellerOf[s] = q /\ task[s] \in {"SETTLE", "AMEND"}
  <2>1. Untouched(s)
    BY <1>5 DEF IInv, LinesAreInOrder
  <2>2. SheetOfLine(s) \in Weeks
    BY <1>1, <1>2, <1>5 DEF IInv, LinesAreInOrder, SheetOfLine, Weeks
  <2>3. SumOver(Weeks, deducted[s]) = 0
    BY <2>1, SumOfNothing DEF Untouched
  <2>4. Settled(s)' = ShouldBe(s)
    BY <1>2, <1>3, <1>5, <2>3 DEF Settled
  <2> QED BY <1>3, <1>5, <2>1, <2>2, <2>4
<1>6. CASE SellerOf[s] = q /\ task[s] = "ADJUST"
  <2> DEFINE n == SettledSoFar(s) - ShouldBe(s)
  <2>1. sale[s].week # 0
    BY <1>6 DEF IInv, LinesAreInOrder
  <2>2. Settled(s) \in ShouldBe(s) .. Quantity[s]
    BY <2>1 DEF IInv, Owed, ShouldBe
  <2>3. /\ SumOver(Weeks \ {period}, deducted[s]) \in Nat /\ SumOver(Weeks, deducted[s]) \in Nat
        /\ SumOver(Weeks, deducted[s]) = SumOver(Weeks \ {period}, deducted[s]) + deducted[s][period]
    BY <1>1, <1>2, SumOfWeeks
  <2>4. deducted[s][period] \in Nat
    BY <1>1, <1>2
  <2>5. SettledSoFar(s) = Settled(s) + deducted[s][period]
    BY <1>2, <2>3, <2>4 DEF SettledSoFar, Settled
  <2>6. Settled(s) \in Nat /\ Settled(s) >= ShouldBe(s)
    BY <1>2, <2>2
  <2>7. n \in Nat
    BY <1>2, <2>4, <2>5, <2>6
  <2>8. SumOver(Weeks, [deducted[s] EXCEPT ![period] = n])
           = SumOver(Weeks \ {period}, deducted[s]) + n
    <3> HIDE DEF n
    <3> QED BY <1>1, <1>2, <2>7, SumOfOneMore
  <2>9. deducted'[s] = [deducted[s] EXCEPT ![period] = n] /\ sale'[s] = sale[s]
    BY <1>3, <1>6
  <2>10. Settled(s)' = sale[s].units - (SumOver(Weeks \ {period}, deducted[s]) + n)
    <3> HIDE DEF n
    <3> QED BY <2>8, <2>9 DEF Settled
  <2>11. Settled(s)' = ShouldBe(s)
    BY <1>2, <2>3, <2>10 DEF SettledSoFar
  <2> QED BY <1>6, <2>1, <2>7, <2>9, <2>11
<1> QED BY <1>2, <1>4, <1>5, <1>6

-----------------------------------------------------------------------------
(* The steps that leave all lines alone.                                   *)

LEMMA SumsStay ==
    ASSUME TotalsMatchLines, UNCHANGED lineVars
    PROVE  TotalsMatchLines'
BY DEF lineVars, TotalsMatchLines, SoldOn, DeductedOn

\* Owed needs no more than that what was read has not shrunk.
LEMMA OwedStays ==
    ASSUME IInv, UNCHANGED lineVars, SettlementTypeOK',
           \A s \in Shares : returnedThen[s] <= returnedThen'[s]
    PROVE  Owed'
<1> SUFFICES ASSUME NEW s \in Shares, sale[s].week # 0
             PROVE  Settled(s) \in Quantity[s] - returnedThen'[s] .. Quantity[s]
  BY DEF Owed, Settled, lineVars
<1>1. Settled(s) \in Quantity[s] - returnedThen[s] .. Quantity[s]
  BY DEF IInv, Owed
<1>2. /\ returnedThen[s] \in Nat /\ returnedThen'[s] \in Nat /\ Quantity[s] \in Nat
      /\ returnedThen[s] <= returnedThen'[s]
  BY SettlementAssumption DEF IInv, SettlementTypeOK
<1> QED BY <1>1, <1>2

\* Tasks that are done or given up leave the others as they were.
LEMMA TasksAreOver ==
    ASSUME NEW q, TasksDone(q), task \in [Shares -> {"NONE", "SETTLE", "AMEND", "ADJUST"}]
    PROVE  /\ task' \in [Shares -> {"NONE", "SETTLE", "AMEND", "ADJUST"}]
           /\ \A s \in Shares : task'[s] = task[s] \/ task'[s] = "NONE"
           /\ Busy' \subseteq Busy
BY DEF TasksDone, Busy, Tasks

LEMMA ShopIsSound == ASSUME IInv, Shop PROVE IInv'
<1> USE DEF shopVars, batchVars, lineVars
<1>1. ASSUME NEW s \in Shares, Confirm(s) PROVE IInv'
  <2>1. SettlementTypeOK'
    BY <1>1 DEF IInv, SettlementTypeOK, Confirm
  <2>2. ReadsAreOld' /\ BatchIsAtWork' /\ LinesAreInOrder'
    BY <1>1 DEF IInv, ReadsAreOld, BatchIsAtWork, Busy, Tasks, LinesAreInOrder, Untouched,
                SheetOf, Confirm
  <2>3. Owed' /\ TotalsMatchLines'
    BY <1>1, <2>1, OwedStays, SumsStay DEF IInv, Confirm, SettlementTypeOK
  <2> QED BY <2>1, <2>2, <2>3 DEF IInv
<1>2. ASSUME NEW s \in Shares, NEW units \in 1 .. Quantity[s], Refund(s, units) PROVE IInv'
  <2>1. returned[s] \in Nat /\ units \in Nat /\ Quantity[s] \in Nat
    BY SettlementAssumption DEF IInv, SettlementTypeOK
  <2>2. SettlementTypeOK'
    BY <1>2, <2>1 DEF IInv, SettlementTypeOK, Refund
  <2>3. ReadsAreOld'
    BY <1>2, <2>1 DEF IInv, SettlementTypeOK, ReadsAreOld, Refund
  <2>4. BatchIsAtWork' /\ LinesAreInOrder'
    BY <1>2 DEF IInv, BatchIsAtWork, Busy, Tasks, LinesAreInOrder, Untouched, SheetOf, Refund
  <2>5. Owed' /\ TotalsMatchLines'
    BY <1>2, <2>2, OwedStays, SumsStay DEF IInv, Refund, SettlementTypeOK
  <2> QED BY <2>2, <2>3, <2>4, <2>5 DEF IInv
<1>3. ASSUME EndWeek PROVE IInv'
  <2>1. SettlementTypeOK'
    BY <1>3, SettlementAssumption DEF IInv, SettlementTypeOK, EndWeek
  <2>2. ReadsAreOld' /\ BatchIsAtWork' /\ LinesAreInOrder'
    BY <1>3 DEF IInv, ReadsAreOld, BatchIsAtWork, Busy, Tasks, LinesAreInOrder, Untouched,
                SheetOf, EndWeek
  <2>3. Owed' /\ TotalsMatchLines'
    BY <1>3, <2>1, OwedStays, SumsStay DEF IInv, EndWeek, SettlementTypeOK
  <2> QED BY <2>1, <2>2, <2>3 DEF IInv
<1> QED BY <1>1, <1>2, <1>3 DEF Shop

LEMMA MoveIsSound ==
    ASSUME IInv, NEW q \in Sellers, NEW w \in Weeks, NEW to, MoveSheet(q, w, to)
    PROVE  IInv'
<1> USE DEF shopVars, batchVars, lineVars
<1>1. sheet[q][w] \in {"PENDING", "HOLD", "APPROVED"} /\ to \in {"HOLD", "APPROVED", "PAID"}
  <2>1. sheet[q][w] \in SheetStatuses
    BY DEF IInv, SettlementTypeOK
  <2>2. CASE sheet[q][w] \in {"NONE", "PAID"}
    BY <2>2 DEF MoveSheet, SheetTransitions
  <2>3. CASE sheet[q][w] \in {"PENDING", "HOLD", "APPROVED"}
    BY <2>3 DEF MoveSheet, SheetTransitions
  <2> QED BY <2>1, <2>2, <2>3 DEF SheetStatuses
<1>2. sheet' \in [Sellers -> [Weeks -> SheetStatuses]]
  BY <1>1 DEF MoveSheet, IInv, SettlementTypeOK, SheetStatuses
<1>3. SettlementTypeOK'
  BY <1>2 DEF MoveSheet, IInv, SettlementTypeOK
<1>4. ReadsAreOld' /\ BatchIsAtWork'
  BY DEF MoveSheet, IInv, ReadsAreOld, BatchIsAtWork, Busy, Tasks
<1>5. ASSUME NEW p \in Sellers, NEW v \in Weeks
      PROVE  sheet'[p][v] = sheet[p][v] \/ (sheet[p][v] # "NONE" /\ sheet'[p][v] \notin {"NONE", "PENDING"})
  BY <1>1 DEF MoveSheet, IInv, SettlementTypeOK
<1>6. LinesAreInOrder'
  <2> SUFFICES ASSUME NEW s \in Shares, sale[s].week # 0
               PROVE  SheetOf(s)' = SheetOf(s) \/ SheetOf(s)' \notin {"NONE", "PENDING"}
    BY DEF MoveSheet, IInv, LinesAreInOrder, Untouched
  <2>1. sale[s] \in [week : 0 .. MaxWeeks, units : Nat]
    BY DEF IInv, SettlementTypeOK
  <2>2. sale[s].week \in 0 .. MaxWeeks
    BY <2>1
  <2>3. sale[s].week \in Weeks /\ SellerOf[s] \in Sellers
    BY <2>2, SettlementAssumption DEF Weeks
  <2> QED BY <1>5, <2>3 DEF SheetOf, MoveSheet
<1>7. Owed' /\ TotalsMatchLines'
  BY <1>3, OwedStays, SumsStay DEF IInv, MoveSheet, SettlementTypeOK
<1> QED BY <1>3, <1>4, <1>6, <1>7 DEF IInv

LEMMA ListingIsSound == ASSUME IInv, ListCandidates PROVE IInv'
<1> USE DEF shopVars, batchVars, lineVars
<1>1. SettlementTypeOK'
  BY DEF ListCandidates, IInv, SettlementTypeOK
<1>2. ReadsAreOld'
  BY DEF ListCandidates, IInv, ReadsAreOld
<1>3. BatchIsAtWork'
  BY DEF ListCandidates, IInv, SettlementTypeOK, BatchIsAtWork, Weeks
<1>4. LinesAreInOrder'
  <2> SUFFICES ASSUME NEW s \in Shares
               PROVE  /\ task'[s] = "SETTLE" => sale[s].week = 0
                      /\ task'[s] = "AMEND" => sale[s].week # 0 /\ Untouched(s)
                      /\ task'[s] = "ADJUST" => sale[s].week # 0 /\ SheetOf(s) # "PENDING"
    BY DEF ListCandidates, IInv, LinesAreInOrder, Untouched, SheetOf
  <2>1. task'[s] = IF s \in Unsettled THEN "SETTLE" ELSE IF s \notin Moved THEN "NONE"
                   ELSE IF Amendable(s) THEN "AMEND" ELSE "ADJUST"
    BY DEF ListCandidates
  <2>2. s \in Unsettled => sale[s].week = 0
    BY DEF Unsettled
  <2>3. s \in Moved => sale[s].week # 0
    BY DEF Moved
  <2>4. Amendable(s) <=> SheetOf(s) = "PENDING"
    BY DEF Amendable, SheetOf
  <2> QED BY <2>1, <2>2, <2>3, <2>4 DEF IInv, LinesAreInOrder
<1>5. Owed' /\ TotalsMatchLines'
  BY <1>1, OwedStays, SumsStay DEF IInv, ListCandidates, SettlementTypeOK
<1> QED BY <1>1, <1>2, <1>3, <1>4, <1>5 DEF IInv

LEMMA LoadingIsSound == ASSUME IInv, LoadSources PROVE IInv'
<1> USE DEF shopVars, batchVars, lineVars
<1>1. SettlementTypeOK'
  BY DEF LoadSources, IInv, SettlementTypeOK
<1>2. ReadsAreOld' /\ \A s \in Shares : returnedThen[s] <= returnedThen'[s]
  BY DEF LoadSources, IInv, ReadsAreOld, SettlementTypeOK
<1>3. BatchIsAtWork' /\ LinesAreInOrder'
  BY DEF LoadSources, IInv, BatchIsAtWork, Busy, Tasks, LinesAreInOrder, Untouched, SheetOf
<1>4. Owed' /\ TotalsMatchLines'
  BY <1>1, <1>2, OwedStays, SumsStay DEF IInv, LoadSources
<1> QED BY <1>1, <1>2, <1>3, <1>4 DEF IInv

\* Steps of the batch that only take up or drop work.
LEMMA DispositionIsSound ==
    ASSUME IInv, UNCHANGED <<week, shopVars, sheet, late, lineVars, period, returnedThen>>,
           task' \in [Shares -> {"NONE", "SETTLE", "AMEND", "ADJUST"}],
           \A s \in Shares : task'[s] = task[s] \/ task'[s] = "NONE",
           loaded' = loaded, opened' \in Sellers \cup {NoSeller},
           opened' # NoSeller => Busy' # {}
    PROVE  IInv'
<1> USE DEF shopVars, lineVars
<1>1. SettlementTypeOK'
  BY DEF IInv, SettlementTypeOK
<1>2. ReadsAreOld' /\ LinesAreInOrder'
  BY DEF IInv, ReadsAreOld, LinesAreInOrder, Untouched, SheetOf
<1>3. BatchIsAtWork'
  BY DEF IInv, BatchIsAtWork, Busy, Tasks
<1>4. Owed' /\ TotalsMatchLines'
  BY <1>1, OwedStays, SumsStay DEF IInv, SettlementTypeOK
<1> QED BY <1>1, <1>2, <1>3, <1>4 DEF IInv

LEMMA SettlingIsSound ==
    ASSUME IInv, NEW q \in Sellers, SettleSeller(q)
    PROVE  IInv'
<1> USE DEF shopVars
<1>1. period \in Weeks /\ MaxWeeks \in Nat
  BY SettlementAssumption DEF IInv, BatchIsAtWork, SettleSeller
<1>2. SettlementTypeOK'
  <2>1. sale' \in [Shares -> [week : 0 .. MaxWeeks, units : Nat]]
    <3> SUFFICES ASSUME NEW s \in Shares
                 PROVE  sale'[s] \in [week : 0 .. MaxWeeks, units : Nat]
      BY DEF SettleSeller, WriteLines
    <3>1. sale[s] \in [week : 0 .. MaxWeeks, units : Nat]
      BY DEF IInv, SettlementTypeOK
    <3>2. ShouldBe(s) \in Nat
      BY SettlementAssumption DEF IInv, SettlementTypeOK, ReadsAreOld, ShouldBe
    <3>3. SheetOfLine(s) \in Weeks => SheetOfLine(s) \in 0 .. MaxWeeks
      BY <1>1 DEF Weeks
    <3>4. CASE sale'[s] = sale[s]
      BY <3>1, <3>4
    <3>5. CASE sale'[s] = [week |-> SheetOfLine(s), units |-> ShouldBe(s)] /\ SheetOfLine(s) \in Weeks
      BY <3>2, <3>3, <3>5
    <3> QED BY <3>4, <3>5, SettledShare
  <2>2. deducted' \in [Shares -> [Weeks -> Nat]]
    <3> SUFFICES ASSUME NEW s \in Shares PROVE deducted'[s] \in [Weeks -> Nat]
      BY DEF SettleSeller, WriteLines
    <3>1. deducted[s] \in [Weeks -> Nat]
      BY DEF IInv, SettlementTypeOK
    <3>2. ASSUME NEW n \in Nat PROVE [deducted[s] EXCEPT ![period] = n] \in [Weeks -> Nat]
      BY <1>1, <3>1
    <3> QED BY <3>1, <3>2, SettledShare
  <2>3. total' \in [Sellers -> [Weeks -> [sold : Nat, deducted : Nat]]]
    <3>1. ASSUME NEW w \in Weeks PROVE SoldOn(q, w)' \in Nat /\ DeductedOn(q, w)' \in Nat
      <4>1. [s \in Shares |-> sale'[s].units] \in [Shares -> Nat]
        BY <2>1
      <4>2. [s \in Shares |-> deducted'[s][w]] \in [Shares -> Nat]
        BY <2>2
      <4> QED BY <4>1, <4>2, SheetSumType DEF SoldOn, DeductedOn, SharesOf
    <3> QED BY <3>1 DEF SettleSeller, Retotal, IInv, SettlementTypeOK
  <2>4. sheet' \in [Sellers -> [Weeks -> SheetStatuses]]
    BY <1>1 DEF SettleSeller, IInv, SettlementTypeOK, SheetStatuses
  <2>5. task' \in [Shares -> {"NONE", "SETTLE", "AMEND", "ADJUST"}]
    BY TasksAreOver DEF SettleSeller, IInv, SettlementTypeOK
  <2>6. late' \subseteq Shares
    BY DEF SettleSeller, WriteLines, IInv, SettlementTypeOK
  <2> QED BY <2>1, <2>2, <2>3, <2>4, <2>5, <2>6 DEF SettleSeller, IInv, SettlementTypeOK
<1>3. ReadsAreOld'
  BY DEF SettleSeller, IInv, ReadsAreOld
<1>4. BatchIsAtWork'
  <2>1. Busy' \subseteq Busy
    BY TasksAreOver DEF SettleSeller, IInv, SettlementTypeOK
  <2> QED BY <2>1 DEF SettleSeller, IInv, BatchIsAtWork
<1>5. LinesAreInOrder'
  <2> SUFFICES ASSUME NEW s \in Shares PROVE
         /\ sale'[s].week = 0 => Untouched(s)'
         /\ sale'[s].week # 0 => SheetOf(s)' # "NONE" /\ (SheetOf(s)' = "PENDING" => Untouched(s)')
         /\ task'[s] = "SETTLE" => sale'[s].week = 0
         /\ task'[s] = "AMEND" => sale'[s].week # 0 /\ Untouched(s)'
         /\ task'[s] = "ADJUST" => sale'[s].week # 0 /\ SheetOf(s)' # "PENDING"
    BY DEF LinesAreInOrder
  <2>1. SellerOf[s] \in Sellers /\ sale[s] \in [week : 0 .. MaxWeeks, units : Nat]
    BY SettlementAssumption DEF IInv, SettlementTypeOK
  <2>2. ASSUME NEW p \in Sellers, NEW v \in Weeks
        PROVE  sheet'[p][v] = IF p = q /\ v = period /\ sheet[p][v] = "NONE"
                              THEN "PENDING" ELSE sheet[p][v]
    BY <1>1 DEF SettleSeller, IInv, SettlementTypeOK
  <2>3. sheet'[q][period] # "NONE"
    BY <1>1, <2>2
  <2>4. task'[s] = IF SellerOf[s] = q THEN "NONE" ELSE task[s]
    BY DEF SettleSeller, TasksDone
  <2>5. sale[s].week # 0 => sale[s].week \in Weeks
    <3>1. sale[s].week \in 0 .. MaxWeeks
      BY <2>1
    <3> QED BY <3>1, <1>1 DEF Weeks
  <2>6. sale[s].week # 0 => sheet'[SellerOf[s]][sale[s].week] = SheetOf(s)
    BY <2>1, <2>2, <2>5 DEF IInv, LinesAreInOrder, SheetOf
  <2>7. CASE sale'[s] = sale[s] /\ deducted'[s] = deducted[s]
    BY <2>4, <2>6, <2>7 DEF IInv, LinesAreInOrder, SheetOf, Untouched
  <2>8. CASE /\ SellerOf[s] = q /\ task[s] \in {"SETTLE", "AMEND"}
             /\ sale'[s] = [week |-> SheetOfLine(s), units |-> ShouldBe(s)]
             /\ SheetOfLine(s) \in Weeks
             /\ deducted'[s] = deducted[s] /\ Untouched(s)
    <3>1. sale'[s].week = SheetOfLine(s) /\ SheetOfLine(s) # 0
      BY <2>8, <1>1 DEF Weeks
    <3>2. Untouched(s)' /\ task'[s] = "NONE"
      BY <2>4, <2>8 DEF Untouched
    <3>3. sheet'[q][SheetOfLine(s)] # "NONE"
      BY <2>3, <2>6, <2>8 DEF SheetOfLine, IInv, LinesAreInOrder, SheetOf
    <3> QED BY <2>8, <3>1, <3>2, <3>3 DEF SheetOf
  <2>9. CASE SellerOf[s] = q /\ task[s] = "ADJUST" /\ sale'[s] = sale[s] /\ sale[s].week # 0
    <3>1. SheetOf(s) \notin {"NONE", "PENDING"}
      BY <2>9 DEF IInv, LinesAreInOrder
    <3>2. SheetOf(s)' = SheetOf(s) /\ task'[s] = "NONE"
      BY <2>4, <2>6, <2>9 DEF SheetOf
    <3> QED BY <2>9, <3>1, <3>2
  <2> QED BY <2>7, <2>8, <2>9, SettledShare
<1>6. Owed'
  <2> SUFFICES ASSUME NEW s \in Shares, sale'[s].week # 0
               PROVE  Settled(s)' \in Quantity[s] - returnedThen[s] .. Quantity[s]
    BY DEF Owed, SettleSeller
  <2>1. /\ ShouldBe(s) = Quantity[s] - returnedThen[s]
        /\ Quantity[s] \in Nat /\ returnedThen[s] \in Nat
    BY SettlementAssumption DEF ShouldBe, IInv, SettlementTypeOK
  <2>2. CASE Settled(s)' = ShouldBe(s)
    BY <2>1, <2>2
  <2>3. CASE sale'[s] = sale[s] /\ deducted'[s] = deducted[s]
    <3>1. Settled(s)' = Settled(s)
      BY <2>3 DEF Settled
    <3> QED BY <2>3, <3>1 DEF IInv, Owed
  <2> QED BY <2>2, <2>3, SettledShare
<1>7. TotalsMatchLines'
  <2> SUFFICES ASSUME NEW p \in Sellers, NEW w \in Weeks
               PROVE  total'[p][w] = [sold |-> SoldOn(p, w)', deducted |-> DeductedOn(p, w)']
    BY DEF TotalsMatchLines
  <2>1. total'[p][w] = IF p = q /\ w \in Touched(q)
                       THEN [sold |-> SoldOn(q, w)', deducted |-> DeductedOn(q, w)']
                       ELSE total[p][w]
    BY DEF SettleSeller, Retotal, IInv, SettlementTypeOK
  <2>2. CASE p = q /\ w \in Touched(q)
    BY <2>1, <2>2
  <2>3. CASE ~(p = q /\ w \in Touched(q))
    <3>1. ASSUME NEW s \in SharesOf(p)
          PROVE  /\ sale'[s].week = w <=> sale[s].week = w
                 /\ sale[s].week = w => sale'[s] = sale[s]
                 /\ deducted'[s][w] = deducted[s][w]
      <4>1. s \in Shares /\ SellerOf[s] = p
        BY DEF SharesOf
      <4>2. CASE sale'[s] = sale[s] /\ deducted'[s] = deducted[s]
        BY <4>2
      <4>3. CASE /\ SellerOf[s] = q /\ task[s] \in {"SETTLE", "AMEND"}
                 /\ sale'[s] = [week |-> SheetOfLine(s), units |-> ShouldBe(s)]
                 /\ deducted'[s] = deducted[s]
        <5>1. SheetOfLine(s) # w
          BY <2>3, <4>1, <4>3 DEF SheetOfLine, Touched, SharesOf
        <5>2. sale[s].week # w
          <6>1. CASE task[s] = "SETTLE"
            BY <6>1, <1>1, <4>1 DEF IInv, LinesAreInOrder, Weeks
          <6>2. CASE task[s] = "AMEND"
            BY <6>2, <5>1 DEF SheetOfLine
          <6> QED BY <4>3, <6>1, <6>2
        <5> QED BY <4>3, <5>1, <5>2
      <4>4. CASE /\ SellerOf[s] = q /\ sale'[s] = sale[s]
                 /\ deducted'[s] = [deducted[s] EXCEPT ![period] = SettledSoFar(s) - ShouldBe(s)]
        <5>1. w # period
          BY <2>3, <4>1, <4>4 DEF Touched
        <5>2. deducted[s] \in [Weeks -> Nat]
          BY <4>1 DEF IInv, SettlementTypeOK
        <5> QED BY <4>4, <5>1, <5>2
      <4> QED BY <4>1, <4>2, <4>3, <4>4, SettledShare
    <3>2. SoldOn(p, w)' = SoldOn(p, w)
      <4> DEFINE S == {s \in SharesOf(p) : sale[s].week = w}
                 f == [s \in Shares |-> sale[s].units]
                 g == [s \in Shares |-> sale'[s].units]
      <4>1. {s \in SharesOf(p) : sale'[s].week = w} = S
        BY <3>1
      <4>2. \A s \in S : f[s] = g[s]
        BY <3>1 DEF SharesOf
      <4>3. SumOver(S, f) = SumOver(S, g)
        <5> HIDE DEF S, f, g
        <5> QED BY <4>2, SumSame
      <4> QED BY <4>1, <4>3 DEF SoldOn, SharesOf
    <3>3. DeductedOn(p, w)' = DeductedOn(p, w)
      <4> DEFINE f == [s \in Shares |-> deducted[s][w]]
                 g == [s \in Shares |-> deducted'[s][w]]
      <4>1. \A s \in SharesOf(p) : f[s] = g[s]
        BY <3>1 DEF SharesOf
      <4>2. SumOver(SharesOf(p), f) = SumOver(SharesOf(p), g)
        <5> HIDE DEF f, g
        <5> QED BY <4>1, SumSame
      <4> QED BY <4>2 DEF DeductedOn, SharesOf
    <3> QED BY <2>1, <2>3, <3>2, <3>3 DEF IInv, TotalsMatchLines
  <2> QED BY <2>2, <2>3
<1> QED BY <1>2, <1>3, <1>4, <1>5, <1>6, <1>7 DEF IInv

-----------------------------------------------------------------------------
LEMMA InitIsSound == Init => IInv
<1> SUFFICES ASSUME Init PROVE IInv
  OBVIOUS
<1>1. SettlementTypeOK
  <2>1. week \in 0 .. MaxWeeks /\ period \in 0 .. MaxWeeks
    BY SettlementAssumption DEF Init
  <2>2. sale \in [Shares -> [week : 0 .. MaxWeeks, units : Nat]]
    <3>1. 0 \in 0 .. MaxWeeks
      BY SettlementAssumption
    <3> QED BY <3>1 DEF Init
  <2>3. total \in [Sellers -> [Weeks -> [sold : Nat, deducted : Nat]]]
    BY DEF Init
  <2>4. sheet \in [Sellers -> [Weeks -> SheetStatuses]]
    BY DEF Init, SheetStatuses
  <2> QED BY <2>1, <2>2, <2>3, <2>4 DEF Init, SettlementTypeOK
<1>2. ReadsAreOld /\ BatchIsAtWork /\ LinesAreInOrder /\ Owed
  <2>1. \A s \in Shares : Quantity[s] \in Nat
    BY SettlementAssumption
  <2> QED BY <2>1 DEF Init, ReadsAreOld, BatchIsAtWork, Busy, Tasks, LinesAreInOrder, Untouched, Owed
<1>3. TotalsMatchLines
  <2> SUFFICES ASSUME NEW q \in Sellers, NEW w \in Weeks
               PROVE  total[q][w] = [sold |-> SoldOn(q, w), deducted |-> DeductedOn(q, w)]
    BY DEF TotalsMatchLines
  <2>1. SoldOn(q, w) = 0
    <3>1. \A s \in {t \in SharesOf(q) : sale[t].week = w} : [t \in Shares |-> sale[t].units][s] = 0
      BY DEF Init, SharesOf
    <3> QED BY <3>1, SumOfNothing DEF SoldOn
  <2>2. DeductedOn(q, w) = 0
    <3>1. \A s \in SharesOf(q) : [t \in Shares |-> deducted[t][w]][s] = 0
      BY DEF Init, SharesOf
    <3> QED BY <3>1, SumOfNothing DEF DeductedOn
  <2> QED BY <2>1, <2>2 DEF Init
<1> QED BY <1>1, <1>2, <1>3 DEF IInv

LEMMA StepIsSound == IInv /\ [Next]_vars => IInv'
<1> SUFFICES ASSUME IInv, [Next]_vars PROVE IInv'
  OBVIOUS
<1>1. CASE Shop
  BY <1>1, ShopIsSound
<1>2. CASE Console
  BY <1>2, MoveIsSound DEF Console
<1>3. CASE ListCandidates
  BY <1>3, ListingIsSound
<1>4. CASE LoadSources
  BY <1>4, LoadingIsSound
<1>5. CASE Stop
  BY <1>5, DispositionIsSound DEF Stop, IInv, SettlementTypeOK
<1>6. ASSUME NEW q \in Sellers, OpenSettlement(q) PROVE IInv'
  BY <1>6, DispositionIsSound DEF OpenSettlement, IInv, SettlementTypeOK, Busy, Tasks
<1>7. ASSUME NEW q \in Sellers, SkipClosed(q) PROVE IInv'
  <2>1. NoSeller \notin Sellers
    BY SettlementAssumption
  <2> QED BY <1>7, <2>1, TasksAreOver, DispositionIsSound DEF SkipClosed, IInv, SettlementTypeOK
<1>8. ASSUME NEW q \in Sellers, FailSeller(q) PROVE IInv'
  BY <1>8, TasksAreOver, DispositionIsSound DEF FailSeller, IInv, SettlementTypeOK
<1>9. ASSUME NEW q \in Sellers, SettleSeller(q) PROVE IInv'
  BY <1>9, SettlingIsSound
<1>10. CASE UNCHANGED vars
  <2>1. UNCHANGED vars => IInv'
    <3> SUFFICES ASSUME UNCHANGED vars PROVE IInv'
      OBVIOUS
    <3>1. SettlementTypeOK' /\ ReadsAreOld' /\ BatchIsAtWork' /\ LinesAreInOrder'
      BY DEF vars, IInv, SettlementTypeOK, ReadsAreOld, BatchIsAtWork, Busy, Tasks,
             LinesAreInOrder, Untouched, SheetOf
    <3>2. Owed' /\ TotalsMatchLines'
      BY <3>1, OwedStays, SumsStay DEF vars, lineVars, IInv, SettlementTypeOK
    <3> QED BY <3>1, <3>2 DEF IInv
  <2> QED BY <1>10, <2>1
<1> QED BY <1>1, <1>2, <1>3, <1>4, <1>5, <1>6, <1>7, <1>8, <1>9, <1>10 DEF Next, Batch

\* The inductive invariant: the three parts the theorems state, and what the
\* batch's stale reading leaves true of tasks, lines and sheets.
THEOREM SettlementIsSound == Spec => []IInv
BY InitIsSound, StepIsSound, PTL DEF Spec

\* No seller gets less than what buyers kept, nor more than was sold.
THEOREM NobodyIsShort == Spec => []NeverShort
<1>1. IInv => NeverShort
  <2> SUFFICES ASSUME IInv, NEW s \in Shares
               PROVE  /\ sale[s].week > 0 => Settled(s) \in Quantity[s] - returned[s] .. Quantity[s]
                      /\ deducted[s] \in [Weeks -> Nat]
    BY DEF NeverShort
  <2>1. deducted[s] \in [Weeks -> Nat]
    BY DEF IInv, SettlementTypeOK
  <2>2. /\ Quantity[s] \in Nat /\ returned[s] \in Nat /\ returnedThen[s] \in Nat
        /\ returnedThen[s] <= returned[s]
    BY SettlementAssumption DEF IInv, SettlementTypeOK, ReadsAreOld
  <2>3. ASSUME sale[s].week > 0
        PROVE  Settled(s) \in Quantity[s] - returned[s] .. Quantity[s]
    <3>1. Settled(s) \in Quantity[s] - returnedThen[s] .. Quantity[s]
      BY <2>3 DEF IInv, Owed
    <3> QED BY <2>2, <3>1
  <2> QED BY <2>1, <2>3
<1> QED BY <1>1, SettlementIsSound, PTL

\* Every sheet's sums are those of its lines.
THEOREM TotalsAreTheLines == Spec => []TotalsMatchLines
<1>1. IInv => TotalsMatchLines
  BY DEF IInv
<1> QED BY <1>1, SettlementIsSound, PTL

\* Whatever a batch writes makes the lines of a share add up to what it read.
THEOREM EveryWriteIsExact == Spec => WritesAreExact
<1> DEFINE Exact == \A s \in Shares :
                      <<sale[s], deducted[s]>>' # <<sale[s], deducted[s]>>
                         => Settled(s)' = ShouldBe(s)
<1>1. IInv /\ [Next]_vars => [Exact]_vars
  <2> SUFFICES ASSUME IInv, Next PROVE Exact
    BY DEF vars
  <2>1. CASE \E q \in Sellers : SettleSeller(q)
    BY <2>1, SettledShare
  <2>2. CASE ~\E q \in Sellers : SettleSeller(q)
    <3>1. UNCHANGED lineVars
      BY <2>2 DEF Next, Shop, Console, Batch, Confirm, Refund, EndWeek, MoveSheet, ListCandidates,
                  LoadSources, Stop, OpenSettlement, SkipClosed, FailSeller
    <3> QED BY <3>1 DEF lineVars
  <2> QED BY <2>1, <2>2
<1> QED BY <1>1, SettlementIsSound, PTL DEF WritesAreExact, Spec

=============================================================================
