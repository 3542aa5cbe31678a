----------------------------- MODULE Settlement -----------------------------
(***************************************************************************)
(* The weekly settlement (apps/api/src/settlement): the hourly batch that  *)
(* writes what each seller is due on the sheet of the week before, the     *)
(* administrator who approves, holds and pays sheets, and what reaches     *)
(* them from outside, confirmed shares and refunded claims.                *)
(*                                                                         *)
(* The batch lists candidates and reads their returned units outside any   *)
(* transaction, and then settles seller by seller, each in one.  A share   *)
(* settled before is written over on a sheet that was PENDING when it was  *)
(* listed, and is otherwise deducted on the sheet of the period.           *)
(*                                                                         *)
(* Amounts are units: every amount of the code is a function of the units  *)
(* a share keeps, and an adjustment the difference of two such amounts.    *)
(* Money comes in at one place, the CHECK on a sheet's adjustments, where  *)
(* a unit is worth its price less its commission and its seller's coupon;  *)
(* the rounding of the two is left out.                                    *)
(* Times are compared in one place (moved), which asks whether a refund    *)
(* came after the share's SALE line was written: `late` is that fact.  One *)
(* batch runs at a time, as its advisory lock has it.                      *)
(***************************************************************************)
EXTENDS Totals

CONSTANTS
    Sellers, NoSeller,
    Shares,          \* seller orders
    SellerOf,        \* SellerOrder.sellerId
    Quantity,        \* units of a share
    Price,           \* unitPrice
    Charges,         \* what is kept of a unit: its commission and seller coupon
    MaxWeeks         \* bound: weeks that end

ASSUME SettlementAssumption ==
    /\ IsFiniteSet(Shares)
    /\ SellerOf \in [Shares -> Sellers]
    /\ NoSeller \notin Sellers
    /\ Quantity \in [Shares -> Nat \ {0}]
    /\ Price \in [Shares -> Nat] /\ Charges \in [Shares -> Nat]
    /\ MaxWeeks \in Nat

Weeks == 1 .. MaxWeeks

VARIABLES
    week,        \* the last week that has ended; 0 for none
    confirmed,   \* the week of a share's confirmation in its history; 0 for none
    returned,    \* units of the share's REFUNDED claims
    sheet,       \* Settlement.status of a seller's sheet, "NONE" before it exists
    total,       \* its sums: units sold and units deducted
    sale,        \* the SALE line of a share: its sheet's week (0 for none), its units
    deducted,    \* the RETURN_ADJUSTMENT line of a share on a week's sheet, as units
    late,        \* shares with a refund that came after their SALE line
    period,      \* the week the running batch settles
    task,        \* what the running batch has to do with a share
    returnedThen, \* the returned units it has read
    loaded,      \* it has read them
    opened       \* the seller whose transaction is under way

shopVars  == <<confirmed, returned>>
lineVars  == <<sale, deducted, total>>
batchVars == <<period, task, returnedThen, loaded, opened>>
vars == <<week, confirmed, returned, sheet, total, sale, deducted, late,
          period, task, returnedThen, loaded, opened>>

SharesOf(q) == {s \in Shares : SellerOf[s] = q}
Tasks(k) == {s \in Shares : task[s] = k}
Busy == Shares \ Tasks("NONE")

\* settlementTransitions.
SheetTransitions ==
    [PENDING |-> {"APPROVED", "HOLD"}, HOLD |-> {"APPROVED"},
     APPROVED |-> {"PAID"}, PAID |-> {}, NONE |-> {}]

\* Faulty: only what was confirmed in the week itself.
UnsettledOfWeek ==
    {s \in Shares : confirmed[s] = week /\ week > 0 /\ sale[s].week = 0}

\* unsettled: by the history, up to the end of the week, however old.
Unsettled == {s \in Shares : confirmed[s] \in 1 .. week /\ sale[s].week = 0}

\* moved: settled shares with a refund after their line.
Moved == {s \in late : sale[s].week > 0}

Amendable(s) == sheet[SellerOf[s]][sale[s].week] = "PENDING"

-----------------------------------------------------------------------------
\* Outside: the share is confirmed in the week that has not ended yet.
Confirm(s) ==
    /\ week < MaxWeeks /\ confirmed[s] = 0 /\ returned[s] < Quantity[s]
    /\ confirmed' = [confirmed EXCEPT ![s] = week + 1]
    /\ UNCHANGED <<week, returned, sheet, late, lineVars, batchVars>>

\* Outside: a claim for some of its units becomes REFUNDED, and refundedAt
\* is written in the same transaction.
Refund(s, units) ==
    /\ returned[s] + units <= Quantity[s]
    /\ returned' = [returned EXCEPT ![s] = @ + units]
    /\ late' = IF sale[s].week > 0 THEN late \cup {s} ELSE late
    /\ UNCHANGED <<week, confirmed, sheet, lineVars, batchVars>>

EndWeek ==
    /\ week < MaxWeeks
    /\ week' = week + 1
    /\ UNCHANGED <<shopVars, sheet, late, lineVars, batchVars>>

\* approve, hold, pay: one conditional update each.
MoveSheet(q, w, to) ==
    /\ to \in SheetTransitions[sheet[q][w]]
    /\ sheet' = [sheet EXCEPT ![q][w] = to]
    /\ UNCHANGED <<week, shopVars, late, lineVars, batchVars>>

-----------------------------------------------------------------------------
\* run, settle: the week before, and what is to be done for it.  A share
\* whose SALE line is on a sheet not yet approved is to be amended there.
ListCandidates ==
    /\ Busy = {} /\ week > 0
    /\ Unsettled \cup Moved # {}
    /\ period' = week
    /\ task' = [s \in Shares |->
                  IF s \in Unsettled THEN "SETTLE"
                  ELSE IF s \notin Moved THEN "NONE"
                  ELSE IF Amendable(s) THEN "AMEND" ELSE "ADJUST"]
    /\ loaded' = FALSE
    /\ UNCHANGED <<week, shopVars, sheet, late, lineVars, returnedThen, opened>>

\* loadSettlementSources.
LoadSources ==
    /\ Busy # {} /\ ~loaded
    /\ loaded' = TRUE
    /\ returnedThen' = returned
    /\ UNCHANGED <<week, shopVars, sheet, late, lineVars, period, task, opened>>

TasksDone(q) == task' = [s \in Shares |-> IF SellerOf[s] = q THEN "NONE" ELSE task[s]]

\* openSettlement: the period's sheet must not be approved or held.
OpenSettlement(q) ==
    /\ loaded /\ opened = NoSeller
    /\ SharesOf(q) \cap Busy # {}
    /\ sheet[q][period] \in {"NONE", "PENDING"}
    /\ opened' = q
    /\ UNCHANGED <<week, shopVars, sheet, late, lineVars, period, task, returnedThen, loaded>>

\* settle: SettlementClosedError, and on with the next seller.
SkipClosed(q) ==
    /\ loaded /\ opened = NoSeller
    /\ SharesOf(q) \cap Busy # {}
    /\ sheet[q][period] \notin {"NONE", "PENDING"}
    /\ TasksDone(q)
    /\ UNCHANGED <<week, shopVars, sheet, late, lineVars, period, returnedThen, loaded, opened>>

\* settle: the seller's transaction fails, or a sheet is refused by its
\* CHECK, and on with the next.
FailSeller(q) ==
    /\ opened = q
    /\ opened' = NoSeller
    /\ TasksDone(q)
    /\ UNCHANGED <<week, shopVars, sheet, late, lineVars, period, returnedThen, loaded>>

-----------------------------------------------------------------------------
\* amountsOf the sources that were read.
ShouldBe(s) == Quantity[s] - returnedThen[s]

\* Faulty: the adjustments of other weeks forgotten.
SettledBySale(s) == sale[s].units

\* Faulty: the present adjustment counted as well.
SettledInAll(s) == sale[s].units - SumOver(Weeks, deducted[s])

\* settledSoFar: the lines of a share but for this sheet's own adjustment.
SettledSoFar(s) ==
    sale[s].units - SumOver(Weeks \ {period}, deducted[s])

\* writeLine: the sheet a share's SALE line is on afterwards.
SheetOfLine(s) == IF task[s] = "SETTLE" THEN period ELSE sale[s].week

WriteLines(q) ==
    /\ sale' = [s \in Shares |->
                  IF s \in SharesOf(q) /\ task[s] \in {"SETTLE", "AMEND"}
                  THEN [week |-> SheetOfLine(s), units |-> ShouldBe(s)]
                  ELSE sale[s]]
    /\ deducted' = [s \in Shares |->
                      IF s \in SharesOf(q) /\ task[s] = "ADJUST"
                      THEN [deducted[s] EXCEPT ![period] = SettledSoFar(s) - ShouldBe(s)]
                      ELSE deducted[s]]
    /\ late' = late \ {s \in SharesOf(q) : task[s] \in {"SETTLE", "AMEND"}}

\* Faulty: the sheets that are amended are not summed again.
TouchedPeriod(q) == {period}

\* settle: the sheets it writes to.
Touched(q) == {period} \cup {sale[s].week : s \in {t \in SharesOf(q) : task[t] = "AMEND"}}

\* The units of the SALE lines of a seller's sheet, and of its adjustments.
SoldOn(q, w) ==
    SumOver({s \in SharesOf(q) : sale[s].week = w}, [s \in Shares |-> sale[s].units])
DeductedOn(q, w) == SumOver(SharesOf(q), [s \in Shares |-> deducted[s][w]])

\* retotal, of every sheet that was touched.
Retotal(q) ==
    total' = [total EXCEPT ![q] = [w \in Weeks |->
                IF w \in Touched(q)
                THEN [sold |-> SoldOn(q, w)', deducted |-> DeductedOn(q, w)']
                ELSE total[q][w]]]

Worth(units, s) == units * Price[s]
Withheld(units, s) == units * Charges[s]

\* Settlement_total_check: the adjustments of a sheet (returnAdjustmentAmount)
\* together give a seller nothing.
TotalCheck(q, w) ==
    SumOver(SharesOf(q), [s \in Shares |-> Withheld(deducted[s][w], s)])
      <= SumOver(SharesOf(q), [s \in Shares |-> Worth(deducted[s][w], s)])

\* The rest of the seller's transaction and its commit.
SettleSeller(q) ==
    /\ opened = q
    /\ sheet' = [sheet EXCEPT ![q][period] = IF @ = "NONE" THEN "PENDING" ELSE @]
    /\ WriteLines(q)
    /\ Retotal(q)
    /\ \A w \in Touched(q) : TotalCheck(q, w)'
    /\ TasksDone(q)
    /\ opened' = NoSeller
    /\ UNCHANGED <<week, shopVars, period, returnedThen, loaded>>

\* A process stops, and its transaction with it.
Stop ==
    /\ Busy # {}
    /\ task' = [s \in Shares |-> "NONE"]
    /\ opened' = NoSeller
    /\ UNCHANGED <<week, shopVars, sheet, late, lineVars, period, returnedThen, loaded>>

-----------------------------------------------------------------------------
Init ==
    /\ week = 0
    /\ confirmed = [s \in Shares |-> 0] /\ returned = [s \in Shares |-> 0]
    /\ sheet = [q \in Sellers |-> [w \in Weeks |-> "NONE"]]
    /\ total = [q \in Sellers |-> [w \in Weeks |-> [sold |-> 0, deducted |-> 0]]]
    /\ sale = [s \in Shares |-> [week |-> 0, units |-> 0]]
    /\ deducted = [s \in Shares |-> [w \in Weeks |-> 0]]
    /\ late = {}
    /\ period = 0 /\ task = [s \in Shares |-> "NONE"]
    /\ returnedThen = [s \in Shares |-> 0] /\ loaded = FALSE /\ opened = NoSeller

Shop ==
    \/ \E s \in Shares : Confirm(s) \/ \E units \in 1 .. Quantity[s] : Refund(s, units)
    \/ EndWeek

Console == \E q \in Sellers, w \in Weeks, to \in {"APPROVED", "HOLD", "PAID"} : MoveSheet(q, w, to)

Batch ==
    \/ ListCandidates \/ LoadSources \/ Stop
    \/ \E q \in Sellers : OpenSettlement(q) \/ SkipClosed(q) \/ FailSeller(q) \/ SettleSeller(q)

Next == Shop \/ Console \/ Batch

Spec == Init /\ [][Next]_vars

(* Weeks pass and the timer fires.  A transaction may fail and a process   *)
(* stop, but not every time, unless the CHECK refuses it each time.        *)
Fairness ==
    /\ WF_vars(EndWeek) /\ WF_vars(ListCandidates) /\ SF_vars(LoadSources)
    /\ \A q \in Sellers :
          /\ SF_vars(OpenSettlement(q)) /\ WF_vars(SkipClosed(q))
          /\ SF_vars(SettleSeller(q)) /\ WF_vars(FailSeller(q))

FairSpec == Spec /\ Fairness

-----------------------------------------------------------------------------
Settled(s) == sale[s].units - SumOver(Weeks, deducted[s])

(* No seller is paid less than is due for what buyers kept, nor more than  *)
(* was sold: a return that comes in pieces, over several sheets, or again  *)
(* and again in one batch after the other, is taken off once.              *)
NeverShort ==
    \A s \in Shares :
       /\ sale[s].week > 0 => Settled(s) \in Quantity[s] - returned[s] .. Quantity[s]
       /\ deducted[s] \in [Weeks -> Nat]

(* A sheet's sums are those of its lines, also when a line is amended on   *)
(* the sheet of another week.                                              *)
TotalsMatchLines ==
    \A q \in Sellers, w \in Weeks :
       total[q][w] = [sold |-> SoldOn(q, w), deducted |-> DeductedOn(q, w)]

(* Whichever of the three ways a batch writes a share, all its lines then  *)
(* add up to what was read, neither less nor more.                         *)
WritesAreExact ==
    [][\A s \in Shares :
          <<sale[s], deducted[s]>>' # <<sale[s], deducted[s]>>
             => Settled(s)' = ShouldBe(s)]_vars

\* The model's last week may close its sheet on a late comer.
Closed(q) == week = MaxWeeks /\ sheet[q][week] \notin {"NONE", "PENDING"}

\* What a share on a fixed sheet has to be adjusted by on the last sheet.
DueBack(s) ==
    IF s \in Moved /\ ~Amendable(s)
    THEN sale[s].units - SumOver(Weeks \ {MaxWeeks}, deducted[s]) - (Quantity[s] - returned[s])
    ELSE 0

\* A seller's adjustments would give and not take: more was kept of the
\* units that came back than they were sold for.
GivesBack(q) ==
    SumOver(SharesOf(q), [s \in Shares |-> Worth(DueBack(s), s)])
      < SumOver(SharesOf(q), [s \in Shares |-> Withheld(DueBack(s), s)])

(* What was confirmed is settled in the end, though batches fail and stop  *)
(* and a sheet may be closed before all of a week's shares are on it.      *)
(* Only a seller whose adjustments give and not take waits for ever.       *)
EverySaleIsSettled ==
    <>[](\A s \in Shares :
            confirmed[s] > 0 => \/ sale[s].week > 0
                                \/ Closed(SellerOf[s]) \/ GivesBack(SellerOf[s]))

(* settlement-batch.service.ts:389-391, of the shares it lists: a refund   *)
(* from before a line was written is already reflected in that line.  So a *)
(* share that was paid too much is still listed.                           *)
OverpaidIsListed ==
    \A s \in Shares :
       sale[s].week > 0 /\ Settled(s) # Quantity[s] - returned[s] => s \in late

=============================================================================
