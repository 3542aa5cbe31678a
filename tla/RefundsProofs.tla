---------------------------- MODULE RefundsProofs ----------------------------
(***************************************************************************)
(* What Refunds keeps, for any lines, claims and amounts.                  *)
(*                                                                         *)
(* BooksInv: the stage a transaction is at tells which locks it holds and  *)
(* what it has computed (Stages); one transaction has a share, one the     *)
(* account, one the payment (Alone); who takes earned points holds the     *)
(* account, and takes no more than the balance covers (Covered); and the   *)
(* books follow (BooksMatch).                                              *)
(*                                                                         *)
(* DiscountInv, on top of it: what an open transaction has computed is     *)
(* still what follows on the committed claims of its share (Figures),      *)
(* since it has the share for itself, but for the points that its share    *)
(* may have earned since (Looked); so records add up along the way, to     *)
(* what one claim of all their units would come to (PointsAddUp,           *)
(* ClawedAddUp).  The coupon sees other shares: CouponFollows says who is  *)
(* then about to restore it.                                               *)
(*                                                                         *)
(* CancelInv adds that amounts are not cut off at nothing (NothingOwed),   *)
(* and then they add up too.                                               *)
(***************************************************************************)
EXTENDS Refunds, DataProofs

-----------------------------------------------------------------------------
(* Sums of functions, and the arithmetic of one line.                      *)

LEMMA TotalType ==
    ASSUME NEW S, IsFiniteSet(S), NEW f \in [S -> Nat]
    PROVE  Total(f) \in Nat
<1>1. Amounts(S, f) /\ DOMAIN f = S
  BY DEF Amounts
<1> QED BY <1>1, SumType DEF Total

LEMMA TotalZero ==
    ASSUME NEW S, NEW f \in [S -> Nat], \A x \in S : f[x] = 0
    PROVE  Total(f) = 0
<1>1. Units(S, f) = {} /\ DOMAIN f = S
  BY DEF Units, Pieces
<1> QED BY <1>1, FS_EmptySet DEF Total, SumOver

\* One more row adds what is given for it.
LEMMA TotalWith ==
    ASSUME NEW S, IsFiniteSet(S), NEW x, x \notin S,
           NEW f \in [S \cup {x} -> Nat], NEW g \in [S -> Nat], \A y \in S : g[y] = f[y]
    PROVE  Total(f) = Total(g) + f[x]
<1> DEFINE T == S \cup {x}
<1>1. IsFiniteSet(T)
  BY FS_AddElement
<1>2. Amounts(T, f) /\ DOMAIN f = T /\ DOMAIN g = S
  BY <1>1 DEF Amounts
<1>3. x \in T /\ {x} \in SUBSET T /\ S \in SUBSET T /\ S \cap {x} = {}
  OBVIOUS
<1>4. SumOver(S \cup {x}, f) = SumOver(S, f) + SumOver({x}, f)
  <2> HIDE DEF T
  <2> QED BY <1>2, <1>3, SumDisjoint
<1>5. SumOver({x}, f) = f[x]
  <2> HIDE DEF T
  <2> QED BY <1>2, <1>3, SumSingle
<1>6. SumOver(S, f) = SumOver(S, g)
  BY SumSame
<1> QED BY <1>2, <1>4, <1>5, <1>6 DEF Total

LEMMA TotalSum ==
    ASSUME NEW S, IsFiniteSet(S), NEW f \in [S -> Nat], NEW g \in [S -> Nat],
           NEW h \in [S -> Nat], \A x \in S : h[x] = f[x] + g[x]
    PROVE  Total(h) = Total(f) + Total(g)
<1>1. Amounts(S, f) /\ Amounts(S, g) /\ DOMAIN f = S /\ DOMAIN g = S /\ DOMAIN h = S
  BY DEF Amounts
<1>2. h = [x \in S |-> f[x] + g[x]]
  OBVIOUS
<1> QED BY <1>1, <1>2, SumAdd DEF Total

LEMMA ExtremesOfTwo ==
    ASSUME NEW a \in Int, NEW b \in Int
    PROVE  /\ Min({a, b}) = IF a <= b THEN a ELSE b
           /\ Max({a, b}) = IF a >= b THEN a ELSE b
BY DEF Min, Max

LEMMA AtLeastZero ==
    ASSUME NEW a \in Int
    PROVE  Max({0, a}) \in Nat /\ Max({0, a}) = IF a <= 0 THEN 0 ELSE a
<1>1. Max({0, a}) = IF 0 >= a THEN 0 ELSE a
  BY ExtremesOfTwo
<1> QED BY <1>1

LEMMA LineFacts ==
    ASSUME NEW l \in Lines
    PROVE  /\ Quantity[l] \in Nat \ {0} /\ LineShare[l] \in Shares
           /\ Product[l] \in Nat /\ CouponCut[l] \in Nat /\ PointCut[l] \in Nat
           /\ Net(l) \in Nat /\ Product[l] - CouponCut[l] \in Nat
<1>1. Product[l] \in Nat /\ CouponCut[l] \in Nat /\ PointCut[l] \in Nat
  BY RefundsAssumption
<1>2. CouponCut[l] + PointCut[l] <= Product[l]
  BY RefundsAssumption
<1> QED BY <1>1, <1>2, RefundsAssumption DEF Net

LEMMA ShareFacts ==
    ASSUME NEW s \in Shares
    PROVE  /\ Charged[s] \in Nat /\ Standard[s] \in Nat /\ EarnRate[s] \in Nat
           /\ LinesOf(s) \in SUBSET Lines /\ IsFiniteSet(LinesOf(s))
<1>1. LinesOf(s) \in SUBSET Lines
  BY DEF LinesOf
<1> QED BY <1>1, RefundsAssumption, FS_Subset

LEMMA ClaimFacts ==
    ASSUME NEW c \in Claims
    PROVE  /\ ClaimShare[c] \in Shares /\ ReturnShipping[c] \in Int
           /\ \A l \in Lines : ClaimUnits[c][l] \in Nat
BY RefundsAssumption

-----------------------------------------------------------------------------
(* What the first units of a line come to: nothing for none of them, all   *)
(* for all of them, and never less for more of them.                       *)

LEMMA FractionGrows ==
    ASSUME NEW a \in Nat, NEW q \in Nat \ {0}, NEW m \in Nat, NEW n \in Nat, m <= n
    PROVE  (a * m) \div q \in Nat /\ (a * m) \div q <= (a * n) \div q
<1>1. a * m \in Nat /\ a * n \in Nat
  OBVIOUS
<1>2. a * m <= a * n
  OBVIOUS
<1> DEFINE x == a * m
           y == a * n
<1> HIDE DEF x, y
<1>3. x \in Nat /\ y \in Nat /\ x <= y
  BY <1>1, <1>2 DEF x, y
<1>4. x \div q \in Nat /\ x \div q <= y \div q
  BY <1>3
<1> QED BY <1>4 DEF x, y

LEMMA ThroughGrows ==
    ASSUME NEW l \in Lines, NEW a \in Nat, NEW m \in Nat, NEW n \in Nat, m <= n
    PROVE  /\ Through(l, a, m) \in Nat /\ Through(l, a, n) \in Nat
           /\ Through(l, a, m) <= Through(l, a, n)
<1> DEFINE q == Quantity[l]
           i == Min({m, q})
           j == Min({n, q})
<1>1. q \in Nat \ {0}
  BY LineFacts
<1>2. i \in Nat /\ j \in Nat /\ i <= j
  <2>1. i = IF m <= q THEN m ELSE q
    BY <1>1, ExtremesOfTwo
  <2>2. j = IF n <= q THEN n ELSE q
    BY <1>1, ExtremesOfTwo
  <2> HIDE DEF i, j
  <2> QED BY <1>1, <2>1, <2>2
<1>3. Through(l, a, m) = (a * i) \div q /\ Through(l, a, n) = (a * j) \div q
  BY DEF Through
<1> HIDE DEF i, j, q
<1>4. (a * i) \div q \in Nat /\ (a * i) \div q <= (a * j) \div q
  BY <1>1, <1>2, FractionGrows
<1>5. (a * j) \div q \in Nat
  BY <1>1, <1>2, FractionGrows
<1> QED BY <1>3, <1>4, <1>5

LEMMA ThroughEnds ==
    ASSUME NEW l \in Lines, NEW a \in Nat
    PROVE  /\ Through(l, a, 0) = 0
           /\ \A n \in Nat : n >= Quantity[l] => Through(l, a, n) = a
           /\ \A n \in Nat : Through(l, a, n) <= a
<1>1. Quantity[l] \in Nat \ {0}
  BY LineFacts
<1>2. Through(l, a, 0) = 0
  <2>1. Min({0, Quantity[l]}) = 0
    BY <1>1, ExtremesOfTwo
  <2>2. (a * 0) \div Quantity[l] = 0
    BY <1>1
  <2> QED BY <2>1, <2>2 DEF Through
<1>3. ASSUME NEW n \in Nat, n >= Quantity[l] PROVE Through(l, a, n) = a
  <2>1. Min({n, Quantity[l]}) = Quantity[l]
    BY <1>1, <1>3, ExtremesOfTwo
  <2>2. \A q \in Nat \ {0} : (a * q) \div q = a
    OBVIOUS
  <2> QED BY <1>1, <2>1, <2>2 DEF Through
<1>4. ASSUME NEW n \in Nat PROVE Through(l, a, n) <= a
  <2>1. CASE n >= Quantity[l]
    BY <1>3, <2>1
  <2>2. CASE n < Quantity[l]
    <3>1. Through(l, a, Quantity[l]) = a
      BY <1>1, <1>3
    <3>2. Quantity[l] \in Nat /\ n <= Quantity[l]
      BY <1>1, <2>2
    <3>3. Through(l, a, n) <= Through(l, a, Quantity[l])
      BY <3>2, ThroughGrows
    <3> QED BY <3>1, <3>3
  <2> QED BY <1>1, <2>1, <2>2
<1> QED BY <1>2, <1>3, <1>4

LEMMA UnitsTypes ==
    ASSUME NEW C \in SUBSET Claims, NEW l \in Lines
    PROVE  IsFiniteSet(C) /\ UnitsOf(C, l) \in Nat /\ UnitsOf({}, l) = 0
<1>1. IsFiniteSet(C)
  BY RefundsAssumption, FS_Subset
<1>2. [c \in C |-> ClaimUnits[c][l]] \in [C -> Nat]
  BY ClaimFacts
<1>3. [c \in {} |-> ClaimUnits[c][l]] \in [{} -> Nat]
  OBVIOUS
<1> QED BY <1>1, <1>2, <1>3, TotalType, TotalZero DEF UnitsOf

LEMMA UnitsWith ==
    ASSUME NEW C \in SUBSET Claims, NEW c \in Claims, NEW l \in Lines
    PROVE  UnitsOf(C, l) <= UnitsOf(C \cup {c}, l)
<1>1. CASE c \in C
  <2>1. C \cup {c} = C
    BY <1>1
  <2> QED BY <2>1, UnitsTypes
<1>2. CASE c \notin C
  <2> DEFINE f == [d \in C \cup {c} |-> ClaimUnits[d][l]]
             g == [d \in C |-> ClaimUnits[d][l]]
  <2>1. f \in [C \cup {c} -> Nat] /\ g \in [C -> Nat] /\ \A d \in C : g[d] = f[d]
    BY ClaimFacts
  <2>2. f[c] \in Nat /\ IsFiniteSet(C)
    BY <2>1, UnitsTypes
  <2>3. Total(f) = Total(g) + f[c]
    <3> HIDE DEF f, g
    <3> QED BY <1>2, <2>1, <2>2, TotalWith
  <2>4. Total(g) \in Nat
    <3> HIDE DEF f, g
    <3> QED BY <2>1, <2>2, TotalType
  <2>5. Total(g) <= Total(f)
    BY <2>2, <2>3, <2>4
  <2> QED BY <2>5 DEF UnitsOf
<1> QED BY <1>1, <1>2

\* More claims refund more units.
LEMMA UnitsGrow ==
    ASSUME NEW C \in SUBSET Claims, NEW D \in SUBSET C, NEW l \in Lines
    PROVE  UnitsOf(D, l) <= UnitsOf(C, l)
<1> DEFINE f == [d \in C |-> ClaimUnits[d][l]]
           g == [d \in D |-> ClaimUnits[d][l]]
<1>1. IsFiniteSet(C) /\ f \in [C -> Nat] /\ DOMAIN f = C /\ DOMAIN g = D
  BY ClaimFacts, UnitsTypes
<1>2. \A d \in D : f[d] = g[d]
  OBVIOUS
<1> HIDE DEF f, g
<1>3. SumOver(D, f) <= SumOver(C, f)
  BY <1>1, SumMinus DEF Amounts
<1>4. SumOver(D, f) = SumOver(D, g)
  BY <1>2, SumSame
<1>5. Total(g) <= Total(f)
  BY <1>1, <1>3, <1>4 DEF Total
<1> QED BY <1>5 DEF f, g, UnitsOf

LEMMA MoreIsRefunded ==
    ASSUME NEW C \in SUBSET Claims, NEW D \in SUBSET C, NEW s, AllRefunded(D, s)
    PROVE  AllRefunded(C, s)
<1> SUFFICES ASSUME NEW l \in LinesOf(s) PROVE UnitsOf(C, l) >= Quantity[l]
  BY DEF AllRefunded
<1>1. l \in Lines
  BY DEF LinesOf
<1>2. UnitsOf(D, l) >= Quantity[l]
  BY DEF AllRefunded
<1>3. UnitsOf(D, l) \in Nat /\ UnitsOf(C, l) \in Nat /\ Quantity[l] \in Nat
  BY <1>1, UnitsTypes, LineFacts
<1> QED BY <1>1, <1>2, <1>3, UnitsGrow

-----------------------------------------------------------------------------
(* The amounts of a refund are amounts.                                    *)

LEMMA ShareWithType ==
    ASSUME NEW C \in SUBSET Claims, NEW c \in Claims, NEW l \in Lines, NEW a \in Nat
    PROVE  ShareWith(l, a, C, c) \in Nat
<1>1. UnitsOf(C, l) \in Nat /\ UnitsOf(C \cup {c}, l) \in Nat
  BY UnitsTypes
<1>2. UnitsOf(C, l) <= UnitsOf(C \cup {c}, l)
  BY UnitsWith
<1>3. /\ Through(l, a, UnitsOf(C, l)) \in Nat /\ Through(l, a, UnitsOf(C \cup {c}, l)) \in Nat
      /\ Through(l, a, UnitsOf(C, l)) <= Through(l, a, UnitsOf(C \cup {c}, l))
  BY <1>1, <1>2, ThroughGrows
<1> QED BY <1>3 DEF ShareWith

LEMMA AmountTypes ==
    ASSUME NEW C \in SUBSET Claims, NEW c \in Claims
    PROVE  /\ ItemsAmount(C, c) \in Nat /\ PointsBack(C, c) \in Nat
           /\ ShippingAmount(C, c) \in Int /\ RefundOf(C, c) \in Nat
<1> DEFINE s == ClaimShare[c]
<1>1. s \in Shares /\ IsFiniteSet(LinesOf(s)) /\ LinesOf(s) \subseteq Lines
  BY ClaimFacts, ShareFacts
<1>2. ItemsAmount(C, c) \in Nat
  <2>1. [l \in LinesOf(s) |-> ShareWith(l, Net(l), C, c)] \in [LinesOf(s) -> Nat]
    BY <1>1, LineFacts, ShareWithType
  <2> QED BY <1>1, <2>1, TotalType DEF ItemsAmount
<1>3. PointsBack(C, c) \in Nat
  <2>1. [l \in LinesOf(s) |-> ShareWith(l, PointCut[l], C, c)] \in [LinesOf(s) -> Nat]
    BY <1>1, LineFacts, ShareWithType
  <2> QED BY <1>1, <2>1, TotalType DEF PointsBack
<1>4. \A D : Adjustment(D, s) \in Int
  <2>1. Charged[s] \in Nat /\ Standard[s] \in Nat
    BY <1>1, ShareFacts
  <2>2. Standard[s] - Charged[s] \in Int
    BY <2>1
  <2>3. Max({0, Standard[s] - Charged[s]}) \in Nat
    BY <2>2, AtLeastZero
  <2>4. -Max({0, Standard[s] - Charged[s]}) \in Int
    BY <2>3
  <2> QED BY <2>1, <2>4 DEF Adjustment
<1>5. ShippingAmount(C, c) \in Int
  BY <1>4, ClaimFacts DEF ShippingAmount
<1>6. RefundOf(C, c) \in Nat
  <2>1. ItemsAmount(C, c) + ShippingAmount(C, c) \in Int
    BY <1>2, <1>5
  <2> QED BY <2>1, AtLeastZero DEF RefundOf
<1> QED BY <1>2, <1>3, <1>5, <1>6

LEMMA PaidTypes == Captured \in Nat /\ \A s \in Shares : PaidFor(s) \in Nat
<1>1. ASSUME NEW s \in Shares PROVE PaidFor(s) \in Nat
  <2>1. [l \in LinesOf(s) |-> Net(l)] \in [LinesOf(s) -> Nat]
    BY ShareFacts, LineFacts
  <2>2. Total([l \in LinesOf(s) |-> Net(l)]) \in Nat
    BY <2>1, ShareFacts, TotalType
  <2> QED BY <2>2, ShareFacts DEF PaidFor
<1>2. [s \in Shares |-> PaidFor(s)] \in [Shares -> Nat]
  BY <1>1
<1> QED BY <1>1, <1>2, RefundsAssumption, TotalType DEF Captured

\* Nothing is earned on less than nothing, and more on more.
LEMMA EarnedGrows ==
    ASSUME NEW s \in Shares, NEW a \in Int, NEW b \in Int, a <= b
    PROVE  /\ EarnedOn(s, a) \in Nat /\ EarnedOn(s, b) \in Nat
           /\ EarnedOn(s, a) <= EarnedOn(s, b)
<1> DEFINE r == EarnRate[s]
           m == Max({0, a})
           n == Max({0, b})
<1>1. r \in Nat
  BY ShareFacts
<1>2. m \in Nat /\ n \in Nat /\ m <= n
  <2>1. m \in Nat /\ m = IF a <= 0 THEN 0 ELSE a
    BY AtLeastZero
  <2>2. n \in Nat /\ n = IF b <= 0 THEN 0 ELSE b
    BY AtLeastZero
  <2> HIDE DEF m, n
  <2> QED BY <2>1, <2>2
<1>3. EarnedOn(s, a) = (m * r) \div 100 /\ EarnedOn(s, b) = (n * r) \div 100
  BY DEF EarnedOn
<1> HIDE DEF r, m, n
<1>4. m * r = r * m /\ n * r = r * n
  BY <1>1, <1>2
<1>5. 100 \in Nat \ {0}
  OBVIOUS
<1>6. (r * m) \div 100 \in Nat /\ (r * m) \div 100 <= (r * n) \div 100
  BY <1>1, <1>2, <1>5, FractionGrows
<1>7. (r * n) \div 100 \in Nat
  BY <1>1, <1>2, <1>5, FractionGrows
<1> QED BY <1>3, <1>4, <1>6, <1>7

-----------------------------------------------------------------------------
(* The inductive invariant.                                                *)

\* Where a transaction is, and what it holds and has written by then.
Stages ==
    \A c \in Claims :
       /\ tx[c].at = "closed" => tx[c] = Closed
       /\ tx[c].at # "closed" => status[c] = "APPROVED"
       /\ tx[c].at = "begun" => tx[c].points = 0 /\ ~tx[c].account
       /\ tx[c].at \in {"begun", "points"} => ~tx[c].restores
       /\ tx[c].at \in {"begun", "points", "coupon"} => tx[c].taken = 0 /\ tx[c].short = 0
       /\ tx[c].payment => tx[c].at = "paid"
       /\ tx[c].points > 0 => tx[c].account
       /\ tx[c].taken > 0 => tx[c].account

\* Who holds the row of a share, of the account or of the payment is alone.
Alone ==
    \A c, d \in Claims :
       c # d => /\ c \in Open /\ d \in Open => ClaimShare[c] # ClaimShare[d]
                /\ ~(tx[c].account /\ tx[d].account)
                /\ ~(tx[c].payment /\ tx[d].payment)

\* What was found enough, under the lock, still is when it is written.
Covered ==
    \A c \in Claims :
       /\ tx[c].taken > 0 => tx[c].taken <= balance + tx[c].points
       /\ tx[c].at = "paid" /\ tx[c].amount > 0 =>
             tx[c].payment /\ tx[c].amount <= Captured - canceled

BooksInv == RefundsTypeOK /\ Stages /\ Alone /\ Covered /\ BooksMatch

-----------------------------------------------------------------------------
(* The types, step by step.                                                *)

Transactions ==
    [at : {"closed", "begun", "points", "coupon", "clawed", "paid"},
     amount : Nat, points : Nat, taken : Nat, short : Nat,
     restores : BOOLEAN, account : BOOLEAN, payment : BOOLEAN]

LEMMA TransactionFields ==
    ASSUME NEW t \in Transactions
    PROVE  /\ t.at \in {"closed", "begun", "points", "coupon", "clawed", "paid"}
           /\ t.amount \in Nat /\ t.points \in Nat /\ t.taken \in Nat /\ t.short \in Nat
           /\ t.restores \in BOOLEAN /\ t.account \in BOOLEAN /\ t.payment \in BOOLEAN
BY DEF Transactions

LEMMA TypeParts ==
    ASSUME RefundsTypeOK
    PROVE  /\ tx \in [Claims -> Transactions]
           /\ record \in [Claims -> [amount : Nat, points : Nat, taken : Nat, short : Nat]]
           /\ status \in [Claims -> {"APPROVED", "REFUNDED"}]
           /\ canceled \in Nat /\ given \in Nat /\ balance \in Nat /\ Room \in Nat
           /\ earned \subseteq Shares /\ unearned \subseteq Claims
BY RefundsAssumption DEF RefundsTypeOK, Transactions

LEMMA RecordFields ==
    ASSUME RefundsTypeOK, NEW c \in Claims
    PROVE  /\ record[c].amount \in Nat /\ record[c].points \in Nat
           /\ record[c].taken \in Nat /\ record[c].short \in Nat
BY TypeParts

LEMMA RefundedTypes ==
    /\ Refunded \in SUBSET Claims /\ Open \in SUBSET Claims
    /\ \A s : RefundedOf(s) \in SUBSET Claims /\ RefundedOf(s) \subseteq Refunded
    /\ \A c : Before(c) \in SUBSET Claims
BY DEF Refunded, RefundedOf, Before, Open

LEMMA RecordedType ==
    ASSUME RefundsTypeOK, NEW D \in SUBSET Claims
    PROVE  IsFiniteSet(D) /\ Recorded(D) \in Nat
<1>1. IsFiniteSet(D)
  BY RefundsAssumption, FS_Subset
<1>2. [d \in D |-> record[d].amount] \in [D -> Nat]
  BY RecordFields
<1> QED BY <1>1, <1>2, TotalType DEF Recorded

LEMMA ClawBackType ==
    ASSUME RefundsTypeOK, NEW c \in Claims, NEW n \in Nat
    PROVE  ToClawBack(c, n) \in Nat
<1>0. CASE ClaimShare[c] \notin earned
  BY <1>0 DEF ToClawBack
<1> SUFFICES ASSUME ClaimShare[c] \in earned PROVE ToClawBack(c, n) \in Nat
  BY <1>0
<1> DEFINE s == ClaimShare[c]
           a == PaidFor(s) - Recorded(Before(c))
<1>1. s \in Shares
  BY ClaimFacts
<1>2. a \in Int /\ a - n \in Int /\ a - n <= a
  BY <1>1, PaidTypes, RefundedTypes, RecordedType
<1>3. ToClawBack(c, n) = EarnedOn(s, a) - EarnedOn(s, a - n)
  BY DEF ToClawBack, ClawedBack
<1> HIDE DEF a, s
<1>4. EarnedOn(s, a - n) <= EarnedOn(s, a) /\ EarnedOn(s, a) \in Nat /\ EarnedOn(s, a - n) \in Nat
  BY <1>1, <1>2, EarnedGrows
<1> QED BY <1>3, <1>4

LEMMA EarningsType == \A s \in Shares : Earnings[s] \in Nat
BY PaidTypes, EarnedGrows DEF Earnings

\* What moves points outside of refunds: the buyer spends, or has earned.
Meanwhile == Spend \/ \E s \in Shares : Earn(s)

LEMMA MeanwhileIs ==
    ASSUME Meanwhile
    PROVE  /\ AccountFree
           /\ UNCHANGED <<status, record, canceled, coupon, unearned, given, tx, lost>>
BY DEF Meanwhile, Spend, Earn

\* A claim is marked when its own transaction looks, and a share once.
LEMMA MarksAre ==
    ASSUME RefundsTypeOK, [Next]_vars
    PROVE  /\ earned \subseteq earned' /\ earned' \subseteq Shares
           /\ unearned' \subseteq Claims
           /\ \A d \in Claims : ~ClawBack(d) => (d \in unearned' <=> d \in unearned)
<1>0. earned \subseteq Shares /\ unearned \subseteq Claims
  BY TypeParts
<1>1. ASSUME NEW c \in Claims, ClawBack(c)
      PROVE  /\ earned' = earned /\ unearned' \subseteq Claims
             /\ \A d \in Claims : d # c => (d \in unearned' <=> d \in unearned)
  <2>1. earned' = earned /\ Looks(c)
    BY <1>1 DEF ClawBack
  <2> QED BY <1>0, <2>1 DEF Looks
<1>2. ASSUME NEW c \in Claims, Step(c) \/ Lose(c), ~ClawBack(c)
      PROVE  UNCHANGED <<earned, unearned>>
  BY <1>2 DEF Step, Begin, RestorePoints, RestoreCoupon, PayNothing, PayBack, Refused,
              Commit, Lose
<1>3. CASE Spend \/ UNCHANGED vars
  BY <1>0, <1>3 DEF Spend, vars
<1>4. ASSUME NEW s \in Shares, Earn(s)
      PROVE  earned \subseteq earned' /\ earned' \subseteq Shares /\ unearned' = unearned
  BY <1>0, <1>4 DEF Earn
<1> QED BY <1>0, <1>1, <1>2, <1>3, <1>4 DEF Next

LEMMA OthersStay ==
    ASSUME RefundsTypeOK, NEW c \in Claims, Step(c) \/ Lose(c)
    PROVE  \A d \in Claims : d # c => tx'[d] = tx[d]
<1>1. tx \in [Claims -> Transactions]
  BY TypeParts
<1>2. CASE Begin(c) \/ Refused(c) \/ Commit(c) \/ Lose(c)
  BY <1>1, <1>2 DEF Begin, Refused, Commit, Lose
<1>3. CASE RestorePoints(c) \/ RestoreCoupon(c) \/ PayNothing(c) \/ PayBack(c)
  BY <1>1, <1>3 DEF RestorePoints, RestoreCoupon, PayNothing, PayBack
<1>4. CASE ClawBack(c)
  BY <1>1, <1>4 DEF ClawBack
<1> QED BY <1>2, <1>3, <1>4 DEF Step

\* Taking points back: at most what is due, and what there is.
TakesBack(c, taken, short, account) ==
    /\ tx' = [tx EXCEPT ![c].at = "clawed", ![c].account = account,
                        ![c].taken = taken, ![c].short = short]
    /\ taken + short = ToClawBack(c, tx[c].amount)
    /\ taken <= balance + tx[c].points
    /\ taken > 0 /\ short > 0 => taken = balance + tx[c].points
    /\ tx[c].account => account
    /\ taken > 0 => account
    /\ account => tx[c].account \/ AccountFree

LEMMA ClawBackIs ==
    ASSUME RefundsTypeOK, NEW c \in Claims, tx[c].taken = 0, tx[c].short = 0, ClawBack(c)
    PROVE  \E taken \in Nat, short \in Nat, account \in BOOLEAN :
              TakesBack(c, taken, short, account)
<1> USE DEF TakesBack
<1> DEFINE due  == ToClawBack(c, tx[c].amount)
           most == Min({due, balance + tx[c].points})
<1>1. tx \in [Claims -> Transactions] /\ balance \in Nat /\ tx[c] \in Transactions
  BY TypeParts
<1>2. tx[c].amount \in Nat /\ tx[c].points \in Nat /\ tx[c].account \in BOOLEAN
  BY <1>1, TransactionFields
<1>3. due \in Nat
  BY <1>2, ClawBackType
<1>4. /\ most \in Nat /\ most <= due /\ most <= balance + tx[c].points
      /\ most = due \/ most = balance + tx[c].points
  <2>1. balance + tx[c].points \in Nat
    BY <1>1, <1>2
  <2>2. most = IF due <= balance + tx[c].points THEN due ELSE balance + tx[c].points
    BY <1>3, <2>1, ExtremesOfTwo
  <2> HIDE DEF most, due
  <2> QED BY <1>3, <2>1, <2>2
<1>5. CASE due <= 0
  <2>1. tx' = [tx EXCEPT ![c].at = "clawed"]
    BY <1>5 DEF ClawBack
  <2>2. tx' = [tx EXCEPT ![c].at = "clawed", ![c].account = tx[c].account,
                         ![c].taken = 0, ![c].short = 0]
    BY <1>1, <2>1 DEF Transactions
  <2>3. 0 + 0 = due /\ 0 <= balance + tx[c].points /\ ~(0 > 0)
    BY <1>1, <1>2, <1>3, <1>5
  <2> HIDE DEF due, most
  <2>4. 0 + 0 = ToClawBack(c, tx[c].amount)
    BY <2>3 DEF due
  <2> QED BY <1>2, <2>2, <2>3, <2>4
<1>6. CASE ~(due <= 0)
  <2>1. PICK taken \in {0, most} :
           /\ tx[c].account \/ AccountFree
           /\ tx' = [tx EXCEPT ![c].at = "clawed", ![c].account = TRUE,
                               ![c].taken = taken, ![c].short = due - taken]
    BY <1>6 DEF ClawBack
  <2> HIDE DEF due, most
  <2>2. /\ taken \in Nat /\ due - taken \in Nat /\ taken <= balance + tx[c].points
        /\ taken > 0 /\ due - taken > 0 => taken = balance + tx[c].points
    BY <1>1, <1>2, <1>3, <1>4
  <2>3. taken + (due - taken) = ToClawBack(c, tx[c].amount)
    BY <1>3, <2>2 DEF due
  <2> QED BY <2>1, <2>2, <2>3
<1> QED BY <1>5, <1>6

\* Fields are written with values of their types.
LEMMA WrittenIsTyped ==
    ASSUME NEW f \in [Claims -> Transactions], NEW c \in Claims,
           NEW a \in {"begun", "points", "coupon", "clawed", "paid"}
    PROVE  /\ [f EXCEPT ![c].at = a] \in [Claims -> Transactions]
           /\ \A m \in Nat, b \in BOOLEAN :
                 [f EXCEPT ![c].at = a, ![c].points = m, ![c].account = b]
                    \in [Claims -> Transactions]
           /\ \A b \in BOOLEAN :
                 [f EXCEPT ![c].at = a, ![c].restores = b] \in [Claims -> Transactions]
           /\ \A b \in BOOLEAN :
                 [f EXCEPT ![c].at = a, ![c].payment = b] \in [Claims -> Transactions]
           /\ \A m, n \in Nat, b \in BOOLEAN :
                 [f EXCEPT ![c].at = a, ![c].account = b, ![c].taken = m, ![c].short = n]
                    \in [Claims -> Transactions]
<1> DEFINE T == Transactions
<1>1. \A t \in T : [t EXCEPT !.at = a] \in T
  BY DEF Transactions
<1>2. \A t \in T, m \in Nat : /\ [t EXCEPT !.points = m] \in T
                              /\ [t EXCEPT !.taken = m] \in T
                              /\ [t EXCEPT !.short = m] \in T
  BY DEF Transactions
<1>3. \A t \in T, b \in BOOLEAN : /\ [t EXCEPT !.account = b] \in T
                                  /\ [t EXCEPT !.restores = b] \in T
                                  /\ [t EXCEPT !.payment = b] \in T
  BY Zenon DEF Transactions
<1> HIDE DEF T
<1> QED BY <1>1, <1>2, <1>3 DEF T

LEMMA InitTypes == Init => RefundsTypeOK
BY RefundsAssumption DEF Init, RefundsTypeOK, NoRecord, Closed

LEMMA StepKeepsTypes ==
    ASSUME RefundsTypeOK, Stages, Covered, [Next]_vars
    PROVE  RefundsTypeOK'
<1> USE DEF RefundsTypeOK
<1>0. /\ tx \in [Claims -> Transactions] /\ balance \in Nat /\ MaxLost \in Nat
      /\ \A c \in Claims : tx[c] \in Transactions
      /\ earned' \subseteq Shares /\ unearned' \subseteq Claims
  BY TypeParts, MarksAre, RefundsAssumption
<1>1. ASSUME tx' \in [Claims -> Transactions],
             UNCHANGED <<status, record, canceled, coupon, balance, given, lost>>
      PROVE  RefundsTypeOK'
  BY <1>0, <1>1 DEF Transactions
<1>2. Closed \in Transactions
  BY DEF Closed, Transactions
<1>3. ASSUME NEW c \in Claims, Begin(c) PROVE RefundsTypeOK'
  <2>1. RefundOf(Before(c), c) \in Nat
    BY RefundedTypes, AmountTypes
  <2>2. [Closed EXCEPT !.at = "begun", !.amount = RefundOf(Before(c), c)] \in Transactions
    BY <2>1 DEF Closed, Transactions
  <2> QED BY <1>0, <1>1, <1>3, <2>2 DEF Begin
<1>4. ASSUME NEW c \in Claims, RestorePoints(c) PROVE RefundsTypeOK'
  <2> HIDE DEF RefundsTypeOK
  <2> DEFINE points == PointsBack(Before(c), c)
  <2>1. points \in Nat
    BY RefundedTypes, AmountTypes
  <2>2. /\ tx' = [tx EXCEPT ![c].at = "points", ![c].points = points, ![c].account = points > 0]
        /\ UNCHANGED <<status, record, canceled, coupon, balance, given, lost>>
    BY <1>4 DEF RestorePoints
  <2> DEFINE account == points > 0
  <2>3. /\ account \in BOOLEAN
        /\ tx' = [tx EXCEPT ![c].at = "points", ![c].points = points, ![c].account = account]
    BY <2>2
  <2> HIDE DEF points, account
  <2>4. \A m \in Nat, b \in BOOLEAN :
           [tx EXCEPT ![c].at = "points", ![c].points = m, ![c].account = b]
              \in [Claims -> Transactions]
    BY <1>0, WrittenIsTyped, ZenonT(40)
  <2>5. tx' \in [Claims -> Transactions]
    BY <2>1, <2>3, <2>4, Zenon
  <2>6. UNCHANGED <<status, record, canceled, coupon, balance, given, lost>>
    BY <2>2
  <2> QED BY <1>1, <2>5, <2>6, Zenon
<1>5. ASSUME NEW c \in Claims, RestoreCoupon(c) PROVE RefundsTypeOK'
  <2> HIDE DEF RefundsTypeOK
  <2> DEFINE restores == coupon = "USED" /\ WholeOrder(c)
  <2>1. /\ tx' = [tx EXCEPT ![c].at = "coupon", ![c].restores = restores]
        /\ UNCHANGED <<status, record, canceled, coupon, balance, given, lost>>
    BY <1>5 DEF RestoreCoupon
  <2>2. restores \in BOOLEAN
    OBVIOUS
  <2> HIDE DEF restores
  <2>3. \A b \in BOOLEAN :
           [tx EXCEPT ![c].at = "coupon", ![c].restores = b] \in [Claims -> Transactions]
    BY <1>0, WrittenIsTyped, ZenonT(40)
  <2>4. tx' \in [Claims -> Transactions]
    BY <2>1, <2>2, <2>3, Zenon
  <2> QED BY <1>1, <2>1, <2>4, Zenon
<1>6. ASSUME NEW c \in Claims, ClawBack(c) PROVE RefundsTypeOK'
  <2> HIDE DEF RefundsTypeOK
  <2>1. tx[c].taken = 0 /\ tx[c].short = 0
    BY <1>6 DEF ClawBack, Stages
  <2>2. PICK taken \in Nat, short \in Nat, account \in BOOLEAN :
           tx' = [tx EXCEPT ![c].at = "clawed", ![c].account = account,
                            ![c].taken = taken, ![c].short = short]
    <3>1. \E taken \in Nat, short \in Nat, account \in BOOLEAN :
             TakesBack(c, taken, short, account)
      BY <1>6, <2>1, ClawBackIs
    <3> QED BY <3>1, Zenon DEF TakesBack
  <2>3. \A m, n \in Nat, b \in BOOLEAN :
           [tx EXCEPT ![c].at = "clawed", ![c].account = b, ![c].taken = m, ![c].short = n]
              \in [Claims -> Transactions]
    BY <1>0, WrittenIsTyped, ZenonT(40)
  <2>4. tx' \in [Claims -> Transactions]
    BY <2>2, <2>3, Zenon
  <2>5. UNCHANGED <<status, record, canceled, coupon, balance, given, lost>>
    BY <1>6 DEF ClawBack
  <2> QED BY <1>1, <2>4, <2>5, Zenon
<1>7. ASSUME NEW c \in Claims, PayNothing(c) \/ Refused(c) PROVE RefundsTypeOK'
  <2> HIDE DEF RefundsTypeOK
  <2>1. tx' = [tx EXCEPT ![c].at = "paid"] \/ tx' = [tx EXCEPT ![c] = Closed]
    BY <1>7 DEF PayNothing, Refused
  <2>2. tx' \in [Claims -> Transactions]
    BY <1>0, <1>2, <2>1, SMTT(20) DEF Transactions
  <2>3. UNCHANGED <<status, record, canceled, coupon, balance, given, lost>>
    BY <1>7 DEF PayNothing, Refused
  <2> QED BY <1>1, <2>2, <2>3, Zenon
<1>8. ASSUME NEW c \in Claims, PayBack(c) PROVE RefundsTypeOK'
  <2>1. tx' = [tx EXCEPT ![c].at = "paid", ![c].payment = TRUE]
    BY <1>8 DEF PayBack
  <2>2. tx' \in [Claims -> Transactions]
    BY <1>0, <2>1, ZenonT(40) DEF Transactions
  <2>3. tx[c].amount \in Nat /\ given \in Nat /\ Room \in Nat
    BY <1>0, TransactionFields, TypeParts
  <2>4. given' \in 0 .. Room
    BY <1>8, <2>3 DEF PayBack
  <2> QED BY <1>0, <1>8, <2>2, <2>4 DEF PayBack, Transactions
<1>9. ASSUME NEW c \in Claims, Commit(c) PROVE RefundsTypeOK'
  <2>1. /\ tx[c].amount \in Nat /\ tx[c].points \in Nat
        /\ tx[c].taken \in Nat /\ tx[c].short \in Nat
    BY <1>0, TransactionFields
  <2>2. tx' \in [Claims -> Transactions]
    BY <1>0, <1>2, <1>9 DEF Commit
  <2>3. balance' \in Nat
    <3>1. tx[c].taken <= balance + tx[c].points
      BY <1>0, <2>1 DEF Covered
    <3> QED BY <1>0, <1>9, <2>1, <3>1 DEF Commit
  <2>4. canceled' \in Nat
    BY <1>9, <2>1 DEF Commit
  <2>5. record' \in [Claims -> [amount : Nat, points : Nat, taken : Nat, short : Nat]]
    BY <1>9, <2>1 DEF Commit
  <2>6. status' \in [Claims -> {"APPROVED", "REFUNDED"}] /\ coupon' \in {"USED", "ISSUED"}
    BY <1>9 DEF Commit
  <2> QED BY <1>0, <1>9, <2>2, <2>3, <2>4, <2>5, <2>6 DEF Commit, Transactions
<1>10. ASSUME NEW c \in Claims, Lose(c) PROVE RefundsTypeOK'
  <2>1. tx' \in [Claims -> Transactions]
    BY <1>0, <1>2, <1>10 DEF Lose
  <2>2. lost' \in 0 .. MaxLost
    BY <1>0, <1>10 DEF Lose
  <2> QED BY <1>0, <1>10, <2>1, <2>2 DEF Lose, Transactions
<1>11. ASSUME Spend PROVE RefundsTypeOK'
  BY <1>0, <1>11 DEF Spend
<1>12. ASSUME NEW s \in Shares, Earn(s) PROVE RefundsTypeOK'
  <2>1. balance' \in Nat
    BY <1>0, <1>12, EarningsType DEF Earn
  <2> QED BY <1>0, <1>12, <2>1 DEF Earn
<1>13. ASSUME UNCHANGED vars PROVE RefundsTypeOK'
  BY <1>13 DEF vars
<1> QED
  BY <1>3, <1>4, <1>5, <1>6, <1>7, <1>8, <1>9, <1>10, <1>11, <1>12, <1>13 DEF Next, Step

-----------------------------------------------------------------------------
(* Stages and locks.                                                       *)

LEMMA StepKeepsStages ==
    ASSUME RefundsTypeOK, Stages, [Next]_vars
    PROVE  Stages'
<1>0. /\ tx \in [Claims -> Transactions]
      /\ status \in [Claims -> {"APPROVED", "REFUNDED"}]
  BY TypeParts
<1>1. ASSUME NEW c \in Claims, Step(c) \/ Lose(c),
             NEW d \in Claims, d # c
      PROVE  tx'[d] = tx[d] /\ status'[d] = status[d]
  <2>1. tx'[d] = tx[d]
    BY <1>1, OthersStay
  <2>2. UNCHANGED status \/ Commit(c)
    BY <1>1 DEF Step, Lose, Begin, RestorePoints, RestoreCoupon, ClawBack, PayNothing,
                PayBack, Refused
  <2> QED BY <1>0, <1>1, <2>1, <2>2 DEF Commit
<1> DEFINE Stage(c) ==
              /\ tx[c].at = "closed" => tx[c] = Closed
              /\ tx[c].at # "closed" => status[c] = "APPROVED"
              /\ tx[c].at = "begun" => tx[c].points = 0 /\ ~tx[c].account
              /\ tx[c].at \in {"begun", "points"} => ~tx[c].restores
              /\ tx[c].at \in {"begun", "points", "coupon"} => tx[c].taken = 0 /\ tx[c].short = 0
              /\ tx[c].payment => tx[c].at = "paid"
              /\ tx[c].points > 0 => tx[c].account
              /\ tx[c].taken > 0 => tx[c].account
<1>2. (Stages <=> \A c \in Claims : Stage(c)) /\ (Stages' <=> \A c \in Claims : Stage(c)')
  BY DEF Stages
<1>3. ASSUME NEW c \in Claims, Step(c) \/ Lose(c), Stage(c)' PROVE Stages'
  <2>1. ASSUME NEW d \in Claims, d # c PROVE Stage(d)'
    <3>1. Stage(d)
      BY <1>2
    <3> QED BY <1>1, <1>3, <2>1, <3>1
  <2> QED BY <1>2, <1>3, <2>1
<1>4. ASSUME NEW c \in Claims, Begin(c) PROVE Stages'
  <2>1. /\ tx'[c] = [Closed EXCEPT !.at = "begun", !.amount = RefundOf(Before(c), c)]
        /\ status'[c] = "APPROVED"
    BY <1>0, <1>4 DEF Begin
  <2>2. Stage(c)'
    BY <2>1 DEF Closed
  <2> QED BY <1>3, <1>4, <2>2 DEF Step
<1>5. ASSUME NEW c \in Claims, RestorePoints(c) PROVE Stages'
  <2> DEFINE points == PointsBack(Before(c), c)
  <2>1. /\ tx'[c] = [tx[c] EXCEPT !.at = "points", !.points = points, !.account = points > 0]
        /\ status'[c] = status[c]
    BY <1>0, <1>5 DEF RestorePoints
  <2>2. tx[c].at = "begun" /\ Stage(c) /\ tx[c] \in Transactions
    BY <1>0, <1>2, <1>5 DEF RestorePoints
  <2>3. points \in Nat
    BY RefundedTypes, AmountTypes
  <2> HIDE DEF points
  <2>4. Stage(c)'
    BY <2>1, <2>2, <2>3 DEF Transactions
  <2> QED BY <1>3, <1>5, <2>4 DEF Step
<1>6. ASSUME NEW c \in Claims, RestoreCoupon(c) PROVE Stages'
  <2> DEFINE restores == coupon = "USED" /\ WholeOrder(c)
  <2>1. tx'[c] = [tx[c] EXCEPT !.at = "coupon", !.restores = restores] /\ status'[c] = status[c]
    BY <1>0, <1>6 DEF RestoreCoupon
  <2>2. tx[c].at = "points" /\ Stage(c) /\ tx[c] \in Transactions
    BY <1>0, <1>2, <1>6 DEF RestoreCoupon
  <2> HIDE DEF restores
  <2>3. Stage(c)'
    BY <2>1, <2>2 DEF Transactions
  <2> QED BY <1>3, <1>6, <2>3 DEF Step
<1>7. ASSUME NEW c \in Claims, ClawBack(c) PROVE Stages'
  <2>1. /\ tx[c].at = "coupon" /\ Stage(c) /\ tx[c] \in Transactions
        /\ status' = status
    BY <1>0, <1>2, <1>7 DEF ClawBack
  <2>2. \E taken \in Nat, short \in Nat, account \in BOOLEAN :
           TakesBack(c, taken, short, account)
    BY <1>7, <2>1, ClawBackIs
  <2>3. PICK taken \in Nat, short \in Nat, account \in BOOLEAN :
           TakesBack(c, taken, short, account)
    BY <2>2, Zenon
  <2>4. tx'[c] = [tx[c] EXCEPT !.at = "clawed", !.account = account,
                               !.taken = taken, !.short = short]
    BY <1>0, <2>3 DEF TakesBack
  <2>5. (tx[c].account => account) /\ (taken > 0 => account)
    BY <2>3, Zenon DEF TakesBack
  <2>6. Stage(c)'
    BY <2>1, <2>4, <2>5 DEF Transactions
  <2> QED BY <1>3, <1>7, <2>6 DEF Step
<1>8. ASSUME NEW c \in Claims, PayNothing(c) \/ PayBack(c) PROVE Stages'
  <2>1. \/ tx'[c] = [tx[c] EXCEPT !.at = "paid"]
        \/ tx'[c] = [tx[c] EXCEPT !.at = "paid", !.payment = TRUE]
    BY <1>0, <1>8 DEF PayNothing, PayBack
  <2>2. tx[c].at = "clawed" /\ Stage(c) /\ tx[c] \in Transactions /\ status' = status
    BY <1>0, <1>2, <1>8 DEF PayNothing, PayBack
  <2>3. Stage(c)'
    BY <2>1, <2>2 DEF Transactions
  <2> QED BY <1>3, <1>8, <2>3 DEF Step
<1>9. ASSUME NEW c \in Claims, Refused(c) \/ Commit(c) \/ Lose(c) PROVE Stages'
  <2>1. tx'[c] = Closed
    BY <1>0, <1>9 DEF Refused, Commit, Lose
  <2>2. Stage(c)'
    BY <2>1 DEF Closed
  <2> QED BY <1>3, <1>9, <2>2 DEF Step
<1>10. ASSUME Meanwhile \/ UNCHANGED vars PROVE Stages'
  <2>1. UNCHANGED <<tx, status>>
    BY <1>10, MeanwhileIs DEF vars
  <2> QED BY <2>1 DEF Stages
<1> QED BY <1>4, <1>5, <1>6, <1>7, <1>8, <1>9, <1>10 DEF Next, Step, Meanwhile

LEMMA ClosedHoldsNothing ==
    ASSUME Stages, NEW c \in Claims, c \notin Open
    PROVE  tx[c] = Closed /\ ~tx[c].account /\ ~tx[c].payment
BY DEF Stages, Open, Closed

LEMMA AloneParts ==
    ASSUME Alone, NEW c \in Claims, NEW d \in Claims, c # d
    PROVE  /\ c \in Open /\ d \in Open => ClaimShare[c] # ClaimShare[d]
           /\ ~(tx[c].account /\ tx[d].account)
           /\ ~(tx[c].payment /\ tx[d].payment)
BY DEF Alone

LEMMA StepKeepsAlone ==
    ASSUME RefundsTypeOK, Stages, Alone, [Next]_vars
    PROVE  Alone'
<1>0. tx \in [Claims -> Transactions]
  BY TypeParts
\* It is enough that c finds no other where it goes.
<1>1. ASSUME NEW c \in Claims, Step(c) \/ Lose(c),
             c \notin Open => ~(c \in Open)' \/ \A d \in Open : ClaimShare[d] # ClaimShare[c],
             tx'[c].account => tx[c].account \/ AccountFree,
             tx'[c].payment => tx[c].payment \/ PaymentFree
      PROVE  Alone'
  <2>1. \A d \in Claims : d # c => tx'[d] = tx[d]
    BY <1>1, OthersStay
  <2>2. ASSUME NEW d \in Claims, d # c
        PROVE  /\ (c \in Open)' /\ (d \in Open)' => ClaimShare[c] # ClaimShare[d]
               /\ ~(tx'[c].account /\ tx'[d].account)
               /\ ~(tx'[c].payment /\ tx'[d].payment)
    <3>1. tx'[d] = tx[d] /\ ((d \in Open)' <=> d \in Open)
      BY <2>1, <2>2 DEF Open
    <3>2. /\ c \in Open /\ d \in Open => ClaimShare[c] # ClaimShare[d]
          /\ ~(tx[c].account /\ tx[d].account)
          /\ ~(tx[c].payment /\ tx[d].payment)
      BY <2>2, AloneParts
    <3>3. d \notin Open => ~tx[d].account /\ ~tx[d].payment
      BY ClosedHoldsNothing
    <3> QED BY <1>1, <3>1, <3>2, <3>3 DEF AccountFree, PaymentFree
  <2>3. ASSUME NEW d \in Claims, NEW e \in Claims, d # c, e # c, d # e
        PROVE  /\ (d \in Open)' /\ (e \in Open)' => ClaimShare[d] # ClaimShare[e]
               /\ ~(tx'[d].account /\ tx'[e].account)
               /\ ~(tx'[d].payment /\ tx'[e].payment)
    <3>1. /\ tx'[d] = tx[d] /\ tx'[e] = tx[e]
          /\ ((d \in Open)' <=> d \in Open) /\ ((e \in Open)' <=> e \in Open)
      BY <2>1, <2>3 DEF Open
    <3> QED BY <2>3, <3>1, AloneParts
  <2> QED BY <2>2, <2>3 DEF Alone
<1>2. ASSUME NEW c \in Claims, Begin(c) PROVE Alone'
  <2>1. ~tx'[c].account /\ ~tx'[c].payment
    BY <1>0, <1>2 DEF Begin, Closed
  <2> QED BY <1>1, <1>2, <2>1 DEF Step, Begin
<1>3. ASSUME NEW c \in Claims, RestorePoints(c) PROVE Alone'
  <2> DEFINE points == PointsBack(Before(c), c)
  <2>1. tx'[c] = [tx[c] EXCEPT !.at = "points", !.points = points, !.account = points > 0]
    BY <1>0, <1>3 DEF RestorePoints
  <2>2. c \in Open /\ (points > 0 => AccountFree) /\ tx[c] \in Transactions
    BY <1>0, <1>3 DEF RestorePoints, Open
  <2> HIDE DEF points
  <2>3. (tx'[c].account => AccountFree) /\ (tx'[c].payment => tx[c].payment)
    BY <2>1, <2>2 DEF Transactions
  <2> QED BY <1>1, <1>3, <2>2, <2>3 DEF Step
<1>4. ASSUME NEW c \in Claims, RestoreCoupon(c) \/ PayNothing(c) PROVE Alone'
  <2>1. tx'[c].account = tx[c].account /\ tx'[c].payment = tx[c].payment /\ c \in Open
    BY <1>0, <1>4 DEF RestoreCoupon, PayNothing, Transactions, Open
  <2> QED BY <1>1, <1>4, <2>1 DEF Step
<1>5. ASSUME NEW c \in Claims, ClawBack(c) PROVE Alone'
  <2>1. tx[c].at = "coupon" /\ tx[c].taken = 0 /\ tx[c].short = 0 /\ c \in Open
    BY <1>5 DEF ClawBack, Stages, Open
  <2>2. \E taken \in Nat, short \in Nat, account \in BOOLEAN :
           TakesBack(c, taken, short, account)
    BY <1>5, <2>1, ClawBackIs
  <2>3. PICK taken \in Nat, short \in Nat, account \in BOOLEAN :
           TakesBack(c, taken, short, account)
    BY <2>2, Zenon
  <2>4. tx'[c] = [tx[c] EXCEPT !.at = "clawed", !.account = account,
                               !.taken = taken, !.short = short]
    BY <1>0, <2>3 DEF TakesBack
  <2>5. account => tx[c].account \/ AccountFree
    BY <2>3, Zenon DEF TakesBack
  <2>6. (tx'[c].account <=> account) /\ tx'[c].payment = tx[c].payment
    BY <1>0, <2>4 DEF Transactions
  <2> QED BY <1>1, <1>5, <2>1, <2>5, <2>6 DEF Step
<1>6. ASSUME NEW c \in Claims, PayBack(c) PROVE Alone'
  <2>1. tx'[c].account = tx[c].account /\ PaymentFree /\ c \in Open
    BY <1>0, <1>6 DEF PayBack, Transactions, Open
  <2> QED BY <1>1, <1>6, <2>1 DEF Step
<1>7. ASSUME NEW c \in Claims, Refused(c) \/ Commit(c) \/ Lose(c) PROVE Alone'
  <2>1. tx'[c] = Closed
    BY <1>0, <1>7 DEF Refused, Commit, Lose
  <2>2. ~tx'[c].account /\ ~tx'[c].payment /\ ~(c \in Open)'
    BY <2>1 DEF Closed, Open
  <2> QED BY <1>1, <1>7, <2>2 DEF Step
<1>8. ASSUME Meanwhile \/ UNCHANGED vars PROVE Alone'
  <2>1. UNCHANGED tx
    BY <1>8, MeanwhileIs DEF vars
  <2> QED BY <2>1 DEF Alone, Open
<1> QED BY <1>2, <1>3, <1>4, <1>5, <1>6, <1>7, <1>8 DEF Next, Step, Meanwhile

-----------------------------------------------------------------------------
(* What was found enough stays enough.                                     *)

LEMMA OpenedOrClosed ==
    ASSUME NEW n, NEW t, t = Closed \/ t = [Closed EXCEPT !.at = "begun", !.amount = n]
    PROVE  t.at # "paid" /\ t.taken = 0
<1>1. CASE t = Closed
  BY <1>1 DEF Closed
<1>2. CASE t = [Closed EXCEPT !.at = "begun", !.amount = n]
  BY <1>2 DEF Closed
<1> QED BY <1>1, <1>2

LEMMA AccountIsKept ==
    ASSUME RefundsTypeOK, Stages, Alone, NEW c \in Claims, Commit(c),
           NEW d \in Claims, d # c, tx[d].account
    PROVE  balance' = balance /\ tx[c].points = 0 /\ tx[c].taken = 0
<1>1. ~tx[c].account
  BY AloneParts
<1>2. tx[c].points \in Nat /\ tx[c].taken \in Nat /\ balance \in Nat
  BY TypeParts, TransactionFields
<1>3. tx[c].points = 0 /\ tx[c].taken = 0
  BY <1>1, <1>2 DEF Stages
<1> QED BY <1>2, <1>3 DEF Commit

LEMMA StepKeepsCovered ==
    ASSUME RefundsTypeOK, Stages, Alone, Covered, [Next]_vars
    PROVE  Covered'
<1> DEFINE Enough(c) ==
              /\ tx[c].taken > 0 => tx[c].taken <= balance + tx[c].points
              /\ tx[c].at = "paid" /\ tx[c].amount > 0 =>
                    tx[c].payment /\ tx[c].amount <= Captured - canceled
<1>0. /\ tx \in [Claims -> Transactions] /\ balance \in Nat /\ canceled \in Nat
      /\ \A c \in Claims : tx[c] \in Transactions
  BY TypeParts
<1>1. (Covered <=> \A c \in Claims : Enough(c)) /\ (Covered' <=> \A c \in Claims : Enough(c)')
  BY DEF Covered
<1>2. ASSUME NEW c \in Claims, Step(c) \/ Lose(c), UNCHANGED <<balance, canceled>>, Enough(c)'
      PROVE  Covered'
  <2>1. ASSUME NEW d \in Claims, d # c PROVE Enough(d)'
    <3>1. tx'[d] = tx[d]
      BY <1>2, <2>1, OthersStay
    <3>2. Captured' = Captured
      BY DEF Captured, PaidFor
    <3> QED BY <1>1, <1>2, <3>1, <3>2
  <2> QED BY <1>1, <1>2, <2>1
<1>3. ASSUME NEW c \in Claims,
             Begin(c) \/ RestorePoints(c) \/ RestoreCoupon(c) \/ PayNothing(c) \/ Refused(c)
               \/ Lose(c)
      PROVE  Covered'
  <2>1. UNCHANGED <<balance, canceled>>
    BY <1>3 DEF Begin, RestorePoints, RestoreCoupon, PayNothing, Refused, Lose
  <2>2. CASE Begin(c) \/ Refused(c) \/ Lose(c)
    <3>1. \/ tx'[c] = [Closed EXCEPT !.at = "begun", !.amount = RefundOf(Before(c), c)]
          \/ tx'[c] = Closed
      BY <1>0, <2>2 DEF Begin, Refused, Lose
    <3>2. tx'[c].taken = 0 /\ tx'[c].at # "paid"
      BY <3>1, OpenedOrClosed
    <3> QED BY <1>2, <1>3, <2>1, <3>2 DEF Step
  <2>3. CASE RestorePoints(c) \/ RestoreCoupon(c)
    <3>1. tx[c].taken = 0
      BY <2>3 DEF RestorePoints, RestoreCoupon, Stages
    <3>2. tx'[c].taken = tx[c].taken /\ tx'[c].at # "paid"
      BY <1>0, <2>3 DEF RestorePoints, RestoreCoupon, Transactions
    <3> QED BY <1>2, <1>3, <2>1, <3>1, <3>2 DEF Step
  <2>4. CASE PayNothing(c)
    <3>1. tx[c].amount = 0 /\ Enough(c)
      BY <1>1, <2>4 DEF PayNothing
    <3>2. /\ tx'[c].taken = tx[c].taken /\ tx'[c].points = tx[c].points
          /\ tx'[c].amount = tx[c].amount
      BY <1>0, <2>4 DEF PayNothing, Transactions
    <3> QED BY <1>2, <1>3, <2>1, <3>1, <3>2 DEF Step
  <2> QED BY <1>3, <2>2, <2>3, <2>4
<1>4. ASSUME NEW c \in Claims, ClawBack(c) PROVE Covered'
  <2>1. tx[c].taken = 0 /\ tx[c].short = 0 /\ UNCHANGED <<balance, canceled>>
    BY <1>4 DEF ClawBack, Stages
  <2>2. \E taken \in Nat, short \in Nat, account \in BOOLEAN :
           TakesBack(c, taken, short, account)
    BY <1>4, <2>1, ClawBackIs
  <2>3. PICK taken \in Nat, short \in Nat, account \in BOOLEAN :
           TakesBack(c, taken, short, account)
    BY <2>2, Zenon
  <2>4. tx'[c] = [tx[c] EXCEPT !.at = "clawed", !.account = account,
                               !.taken = taken, !.short = short]
    BY <1>0, <2>3 DEF TakesBack
  <2>5. taken <= balance + tx[c].points
    BY <2>3, Zenon DEF TakesBack
  <2>6. tx'[c].taken = taken /\ tx'[c].points = tx[c].points /\ tx'[c].at = "clawed"
    BY <1>0, <2>4 DEF Transactions
  <2> QED BY <1>2, <1>4, <2>1, <2>5, <2>6 DEF Step
<1>5. ASSUME NEW c \in Claims, PayBack(c) PROVE Covered'
  <2>1. /\ tx'[c].taken = tx[c].taken /\ tx'[c].points = tx[c].points
        /\ tx'[c].amount = tx[c].amount /\ tx'[c].payment
    BY <1>0, <1>5 DEF PayBack, Transactions
  <2>2. tx[c].amount <= Captured - canceled /\ UNCHANGED <<balance, canceled>> /\ Enough(c)
    BY <1>1, <1>5 DEF PayBack, Refundable
  <2>3. Captured' = Captured
    BY DEF Captured, PaidFor
  <2> QED BY <1>2, <1>5, <2>1, <2>2, <2>3 DEF Step
<1>6. ASSUME NEW c \in Claims, Commit(c) PROVE Covered'
  <2>1. tx'[c].taken = 0 /\ tx'[c].at # "paid"
    BY <1>0, <1>6 DEF Commit, Closed
  <2>2. ASSUME NEW d \in Claims, d # c PROVE Enough(d)'
    <3>1. tx'[d] = tx[d] /\ Enough(d)
      BY <1>1, <1>6, <2>2, OthersStay DEF Step
    <3>2. tx[d].taken > 0 => balance' = balance
      BY <1>6, <2>2, AccountIsKept DEF Stages
    <3>3. ASSUME tx[d].at = "paid", tx[d].amount > 0 PROVE canceled' = canceled
      <4>1. tx[d].payment
        BY <1>1, <3>3
      <4>2. ~tx[c].payment
        BY <2>2, <4>1, AloneParts
      <4>3. tx[c].at = "paid" /\ tx[c].amount \in Nat
        BY <1>0, <1>6, TransactionFields DEF Commit
      <4>4. tx[c].amount = 0
        BY <1>1, <4>2, <4>3
      <4> QED BY <1>0, <1>6, <4>4 DEF Commit
    <3>4. Captured' = Captured
      BY DEF Captured, PaidFor
    <3> QED BY <3>1, <3>2, <3>3, <3>4
  <2> QED BY <1>1, <2>1, <2>2
<1>7. ASSUME Meanwhile PROVE Covered'
  <2>1. UNCHANGED <<tx, canceled>> /\ AccountFree
    BY <1>7, MeanwhileIs
  <2>2. \A c \in Claims : ~tx[c].account
    BY <2>1, ClosedHoldsNothing DEF AccountFree
  <2>3. \A c \in Claims : ~(tx[c].taken > 0)
    BY <2>2 DEF Stages
  <2>4. Captured' = Captured
    BY DEF Captured, PaidFor
  <2> QED BY <2>1, <2>3, <2>4 DEF Covered
<1>8. ASSUME UNCHANGED vars PROVE Covered'
  <2>1. Captured' = Captured
    BY DEF Captured, PaidFor
  <2> QED BY <1>8, <2>1 DEF Covered, vars
<1> QED BY <1>3, <1>4, <1>5, <1>6, <1>7, <1>8 DEF Next, Step, Meanwhile

-----------------------------------------------------------------------------
(* The books: records, the payment and the provider.                       *)

Asked == Total([c \in Paying |-> tx[c].amount])

LEMMA PayingTypes ==
    ASSUME RefundsTypeOK
    PROVE  /\ Paying \in SUBSET Claims /\ IsFiniteSet(Paying)
           /\ [c \in Paying |-> tx[c].amount] \in [Paying -> Nat]
           /\ Asked \in Nat
<1>1. Paying \in SUBSET Claims
  BY DEF Paying, Open
<1>2. IsFiniteSet(Paying)
  BY <1>1, RefundsAssumption, FS_Subset
<1>3. [c \in Paying |-> tx[c].amount] \in [Paying -> Nat]
  BY <1>1, TypeParts, TransactionFields
<1> QED BY <1>1, <1>2, <1>3, TotalType DEF Asked

LEMMA AskedWith ==
    ASSUME NEW P \in SUBSET Claims, NEW c \in Claims, c \notin P,
           NEW f \in [Claims -> Nat], NEW g \in [Claims -> Nat], \A d \in P : f[d] = g[d]
    PROVE  /\ Total([d \in P \cup {c} |-> f[d]]) = Total([d \in P |-> g[d]]) + f[c]
           /\ Total([d \in P |-> g[d]]) \in Nat
<1> DEFINE F == [d \in P \cup {c} |-> f[d]]
           G == [d \in P |-> g[d]]
<1>1. IsFiniteSet(P)
  BY RefundsAssumption, FS_Subset
<1>2. F \in [P \cup {c} -> Nat] /\ G \in [P -> Nat] /\ F[c] = f[c] /\ \A d \in P : G[d] = F[d]
  OBVIOUS
<1> HIDE DEF F, G
<1>3. Total(F) = Total(G) + F[c]
  <2>1. F \in [P \cup {c} -> Nat]
    BY <1>2
  <2>2. G \in [P -> Nat]
    BY <1>2
  <2>3. \A d \in P : G[d] = F[d]
    BY <1>2
  <2> QED BY <1>1, <2>1, <2>2, <2>3, TotalWith
<1>4. Total(G) \in Nat
  BY <1>1, <1>2, TotalType
<1> QED BY <1>2, <1>3, <1>4 DEF F, G

LEMMA StepKeepsBooks ==
    ASSUME RefundsTypeOK, RefundsTypeOK', Stages, Alone, Covered, BooksMatch, [Next]_vars
    PROVE  BooksMatch'
<1> DEFINE f == [d \in Claims |-> tx[d].amount]
           r == [d \in Claims |-> record[d].amount]
<1>0. /\ tx \in [Claims -> Transactions] /\ status \in [Claims -> {"APPROVED", "REFUNDED"}]
      /\ canceled \in Nat /\ given \in Nat /\ lost \in Nat /\ Asked \in Nat
      /\ \A c \in Claims : tx[c].amount \in Nat
      /\ canceled' \in Nat /\ given' \in Nat /\ lost' \in Nat
  <2>1. lost \in Nat /\ given \in Nat /\ lost' \in Nat /\ given' \in Nat
    BY RefundsAssumption DEF RefundsTypeOK
  <2>2. canceled \in Nat /\ canceled' \in Nat
    BY DEF RefundsTypeOK
  <2> QED BY <2>1, <2>2, TypeParts, TransactionFields, PayingTypes
<1>1. /\ f \in [Claims -> Nat] /\ f' \in [Claims -> Nat] /\ r \in [Claims -> Nat]
      /\ r' \in [Claims -> Nat]
  <2>1. f \in [Claims -> Nat]
    BY <1>0
  <2>2. \A c \in Claims : tx'[c].amount \in Nat
    BY DEF RefundsTypeOK
  <2>3. r \in [Claims -> Nat]
    BY RecordFields
  <2>4. \A c \in Claims : record'[c].amount \in Nat
    BY DEF RefundsTypeOK
  <2> QED BY <2>1, <2>2, <2>3, <2>4
<1>2. /\ Asked = Total([d \in Paying |-> f[d]]) /\ Asked' = Total([d \in Paying' |-> f'[d]])
      /\ \A D \in SUBSET Claims : /\ Recorded(D) = Total([d \in D |-> r[d]])
                                  /\ Recorded(D)' = Total([d \in D |-> r'[d]])
  <2>1. Paying \in SUBSET Claims /\ Paying' \in SUBSET Claims
    BY DEF Paying, Open
  <2>2. [c \in Paying |-> tx[c].amount] = [d \in Paying |-> f[d]]
    BY <2>1
  <2>3. [c \in Paying' |-> tx'[c].amount] = [d \in Paying' |-> f'[d]]
    BY <2>1
  <2>4. \A D \in SUBSET Claims : /\ [d \in D |-> record[d].amount] = [d \in D |-> r[d]]
                                 /\ [d \in D |-> record'[d].amount] = [d \in D |-> r'[d]]
    OBVIOUS
  <2> HIDE DEF f, r
  <2> QED BY <2>2, <2>3, <2>4 DEF Asked, Recorded
<1>3. /\ BooksMatch <=>
            /\ \A c \in Claims : status[c] = "APPROVED" => record[c] = NoRecord
            /\ canceled = Recorded(Refunded)
            /\ canceled <= Captured
            /\ given >= canceled + Asked
            /\ lost = 0 => given = canceled + Asked
      /\ BooksMatch' <=>
            /\ \A c \in Claims : status'[c] = "APPROVED" => record'[c] = NoRecord'
            /\ canceled' = Recorded(Refunded)'
            /\ canceled' <= Captured'
            /\ given' >= canceled' + Asked'
            /\ lost' = 0 => given' = canceled' + Asked'
  BY DEF BooksMatch, Asked
<1>4. Captured' = Captured /\ NoRecord' = NoRecord
  BY DEF Captured, PaidFor, NoRecord
<1> HIDE DEF f, r
<1>5. ASSUME UNCHANGED <<status, record, canceled>>,
             given' >= canceled' + Asked', lost' = 0 => given' = canceled' + Asked'
      PROVE  BooksMatch'
  <2>1. Recorded(Refunded)' = Recorded(Refunded)
    BY <1>5 DEF Recorded, Refunded
  <2> QED BY <1>3, <1>4, <1>5, <2>1
\* Who has not heard of the provider does not count.
<1>6. ASSUME NEW c \in Claims, Step(c) \/ Lose(c), UNCHANGED <<status, record, canceled, given>>,
             c \notin Paying, c \notin Paying', lost' = lost \/ lost' > 0
      PROVE  BooksMatch'
  <2>1. \A d \in Claims : d # c => tx'[d] = tx[d]
    BY <1>6, OthersStay
  <2>2. Paying' = Paying /\ \A d \in Paying : d # c /\ d \in Claims
    BY <1>6, <2>1 DEF Paying, Open
  <2>3. [d \in Paying' |-> f'[d]] = [d \in Paying |-> f[d]]
    BY <2>1, <2>2 DEF f
  <2>4. Asked' = Asked
    BY <1>2, <2>3
  <2> QED BY <1>0, <1>3, <1>5, <1>6, <2>4
<1>7. ASSUME NEW c \in Claims, Begin(c) \/ RestorePoints(c) \/ RestoreCoupon(c) \/ Refused(c)
      PROVE  BooksMatch'
  <2>1. tx[c].at # "paid" \/ c \notin Open
    BY <1>7 DEF Begin, RestorePoints, RestoreCoupon, Refused, Stages, Open
  <2>2. tx'[c].at # "paid"
    <3>1. CASE Begin(c) \/ Refused(c)
      <4>1. \/ tx'[c] = [Closed EXCEPT !.at = "begun", !.amount = RefundOf(Before(c), c)]
            \/ tx'[c] = Closed
        BY <1>0, <3>1 DEF Begin, Refused
      <4> QED BY <4>1, OpenedOrClosed
    <3>2. CASE RestorePoints(c) \/ RestoreCoupon(c)
      BY <1>0, <3>2 DEF RestorePoints, RestoreCoupon, Transactions
    <3> QED BY <1>7, <3>1, <3>2
  <2>3. UNCHANGED <<status, record, canceled, given, lost>>
    BY <1>7 DEF Begin, RestorePoints, RestoreCoupon, Refused
  <2>4. c \notin Paying /\ c \notin Paying'
    BY <2>1, <2>2 DEF Paying
  <2> QED BY <1>6, <1>7, <2>3, <2>4 DEF Step
<1>8. ASSUME NEW c \in Claims, ClawBack(c) PROVE BooksMatch'
  <2>1. /\ tx[c].at = "coupon" /\ tx[c].taken = 0 /\ tx[c].short = 0
        /\ UNCHANGED <<status, record, canceled, given, lost>>
    BY <1>8 DEF ClawBack, Stages
  <2>2. \E taken \in Nat, short \in Nat, account \in BOOLEAN :
           TakesBack(c, taken, short, account)
    BY <1>8, <2>1, ClawBackIs
  <2>3. PICK taken \in Nat, short \in Nat, account \in BOOLEAN :
           TakesBack(c, taken, short, account)
    BY <2>2, Zenon
  <2>4. tx'[c] = [tx[c] EXCEPT !.at = "clawed", !.account = account,
                               !.taken = taken, !.short = short]
    BY <1>0, <2>3 DEF TakesBack
  <2>5. tx'[c].at = "clawed"
    BY <1>0, <2>4 DEF Transactions
  <2>6. c \notin Paying /\ c \notin Paying'
    BY <2>1, <2>5 DEF Paying
  <2> QED BY <1>6, <1>8, <2>1, <2>6 DEF Step
<1>9. ASSUME NEW c \in Claims, PayNothing(c) \/ PayBack(c) PROVE BooksMatch'
  <2>1. \A d \in Claims : d # c => tx'[d] = tx[d]
    BY <1>9, OthersStay DEF Step
  <2>2. tx[c].at = "clawed" /\ tx'[c].at = "paid" /\ tx'[c].amount = tx[c].amount
    BY <1>0, <1>9 DEF PayNothing, PayBack, Transactions
  <2>3. c \notin Paying /\ Paying' = Paying \cup {c} /\ Paying \in SUBSET Claims
    BY <2>1, <2>2 DEF Paying, Open
  <2>4. \A d \in Paying : f'[d] = f[d]
    BY <2>1, <2>3 DEF f
  <2>5. Total([d \in Paying \cup {c} |-> f'[d]]) = Total([d \in Paying |-> f[d]]) + f'[c]
    BY <1>1, <2>3, <2>4, AskedWith
  <2>6. f'[c] = tx[c].amount
    BY <2>2 DEF f
  <2>7. Asked' = Asked + tx[c].amount
    BY <1>2, <2>3, <2>5, <2>6
  <2>8. given' = given + tx[c].amount /\ UNCHANGED <<status, record, canceled, lost>>
    BY <1>0, <1>9 DEF PayNothing, PayBack
  <2> QED BY <1>0, <1>3, <1>5, <2>7, <2>8
<1>10. ASSUME NEW c \in Claims, c \in Paying, Step(c) \/ Lose(c), tx'[c] = Closed
       PROVE  Asked = Asked' + tx[c].amount /\ Asked' \in Nat
  <2>1. \A d \in Claims : d # c => tx'[d] = tx[d]
    BY <1>10, OthersStay
  <2>2. /\ Paying' \in SUBSET Claims /\ c \notin Paying' /\ Paying = Paying' \cup {c}
    BY <1>10, <2>1 DEF Paying, Open, Closed
  <2>3. \A d \in Paying' : f[d] = f'[d]
    BY <2>1, <2>2 DEF f
  <2>4. /\ Total([d \in Paying' \cup {c} |-> f[d]]) = Total([d \in Paying' |-> f'[d]]) + f[c]
        /\ Total([d \in Paying' |-> f'[d]]) \in Nat
    BY <1>1, <2>2, <2>3, AskedWith, ZenonT(40)
  <2>5. f[c] = tx[c].amount
    BY DEF f
  <2> QED BY <1>2, <2>2, <2>4, <2>5
<1>11. ASSUME NEW c \in Claims, Lose(c) PROVE BooksMatch'
  <2>1. /\ tx'[c] = Closed /\ UNCHANGED <<status, record, canceled, given>>
        /\ lost' > 0 /\ c \in Open
    BY <1>0, <1>11 DEF Lose
  <2>2. CASE c \in Paying
    <3>1. Asked = Asked' + tx[c].amount /\ Asked' \in Nat
      BY <1>10, <1>11, <2>1, <2>2
    <3> QED BY <1>0, <1>3, <1>5, <2>1, <3>1
  <2>3. CASE c \notin Paying
    <3>1. c \notin Paying'
      BY <2>1 DEF Paying, Open, Closed
    <3> QED BY <1>6, <1>11, <2>1, <2>3, <3>1
  <2> QED BY <2>2, <2>3
<1>12. ASSUME NEW c \in Claims, Commit(c) PROVE BooksMatch'
  <2>1. /\ tx'[c] = Closed /\ c \in Paying /\ tx[c].at = "paid"
        /\ canceled' = canceled + tx[c].amount /\ UNCHANGED <<given, lost>>
        /\ status[c] = "APPROVED"
        /\ status' = [status EXCEPT ![c] = "REFUNDED"]
        /\ record' = [record EXCEPT ![c] = [amount |-> tx[c].amount,
              points |-> tx[c].points, taken |-> tx[c].taken, short |-> tx[c].short]]
    BY <1>0, <1>12 DEF Commit, Paying, Open, Stages
  <2>2. Asked = Asked' + tx[c].amount /\ Asked' \in Nat
    BY <1>10, <1>12, <2>1 DEF Step
  <2>3. Refunded' = Refunded \cup {c} /\ c \notin Refunded /\ Refunded \in SUBSET Claims
    BY <1>0, <2>1 DEF Refunded
  <2>4. r'[c] = tx[c].amount /\ \A d \in Refunded : r'[d] = r[d]
    <3>1. record \in [Claims -> [amount : Nat, points : Nat, taken : Nat, short : Nat]]
      BY TypeParts
    <3> QED BY <2>1, <2>3, <3>1 DEF r
  <2>5. Total([d \in Refunded \cup {c} |-> r'[d]]) = Total([d \in Refunded |-> r[d]]) + r'[c]
    BY <1>1, <2>3, <2>4, AskedWith
  <2>6. Recorded(Refunded)' = Recorded(Refunded) + tx[c].amount
    <3>1. Recorded(Refunded)' = Total([d \in Refunded' |-> r'[d]])
      <4>1. Recorded(Refunded)' = Total([d \in Refunded' |-> record'[d].amount])
        BY DEF Recorded
      <4>2. Refunded' \in SUBSET Claims
        BY <2>3
      <4>3. [d \in Refunded' |-> record'[d].amount] = [d \in Refunded' |-> r'[d]]
        BY <4>2 DEF r
      <4> QED BY <4>1, <4>3
    <3>2. Recorded(Refunded) = Total([d \in Refunded |-> r[d]])
      BY <1>2, <2>3
    <3> QED BY <2>3, <2>4, <2>5, <3>1, <3>2
  <2>7. canceled' <= Captured
    <3>1. tx[c].amount > 0 => tx[c].amount <= Captured - canceled
      BY <2>1 DEF Covered
    <3>2. Captured \in Nat /\ canceled <= Captured
      BY <1>3, PaidTypes
    <3> QED BY <1>0, <2>1, <3>1, <3>2
  <2>8. ASSUME NEW d \in Claims, status'[d] = "APPROVED" PROVE record'[d] = NoRecord
    <3>1. d # c
      BY <1>0, <2>1, <2>8
    <3> QED BY <1>0, <1>3, <2>1, <2>8, <3>1
  <2> QED BY <1>0, <1>3, <1>4, <2>1, <2>2, <2>6, <2>7, <2>8
<1>13. ASSUME Meanwhile \/ UNCHANGED vars PROVE BooksMatch'
  <2>1. UNCHANGED <<status, record, canceled, given, tx, lost>>
    BY <1>13, MeanwhileIs DEF vars
  <2>2. Asked' = Asked
    BY <2>1 DEF Asked, Paying, Open
  <2> QED BY <1>3, <1>5, <2>1, <2>2
<1> QED BY <1>7, <1>8, <1>9, <1>11, <1>12, <1>13 DEF Next, Step, Meanwhile

-----------------------------------------------------------------------------
LEMMA InitBooks == Init => BooksInv
<1> SUFFICES ASSUME Init PROVE BooksInv
  OBVIOUS
<1>1. RefundsTypeOK
  BY InitTypes
<1>2. \A c \in Claims : tx[c] = Closed /\ status[c] = "APPROVED" /\ record[c] = NoRecord
  BY DEF Init
<1>3. Stages /\ Alone /\ Covered
  BY <1>2 DEF Stages, Alone, Covered, Closed, Open
<1>4. Refunded = {} /\ Paying = {}
  BY <1>2 DEF Refunded, Paying, Open, Closed
<1>5. Recorded(Refunded) = 0 /\ Total([c \in Paying |-> tx[c].amount]) = 0
  <2>1. [d \in {} |-> record[d].amount] \in [{} -> Nat]
    OBVIOUS
  <2>2. [d \in {} |-> tx[d].amount] \in [{} -> Nat]
    OBVIOUS
  <2> QED BY <1>4, <2>1, <2>2, TotalZero DEF Recorded
<1>6. canceled = 0 /\ given = 0 /\ Captured >= 0
  BY PaidTypes DEF Init
<1>7. BooksMatch
  BY <1>2, <1>5, <1>6 DEF BooksMatch
<1> QED BY <1>1, <1>3, <1>7 DEF BooksInv

LEMMA StepKeepsBooksInv ==
    ASSUME BooksInv, [Next]_vars
    PROVE  BooksInv'
<1>1. RefundsTypeOK /\ Stages /\ Alone /\ Covered /\ BooksMatch
  BY DEF BooksInv
<1>2. RefundsTypeOK'
  BY <1>1, StepKeepsTypes
<1>3. Stages' /\ Alone'
  BY <1>1, StepKeepsStages, StepKeepsAlone
<1>4. Covered'
  BY <1>1, StepKeepsCovered
<1>5. BooksMatch'
  BY <1>1, <1>2, StepKeepsBooks
<1> QED BY <1>2, <1>3, <1>4, <1>5 DEF BooksInv

(* The invariant of the refund transactions: types, stages, locks, what    *)
(* was found enough, and the books.                                        *)
THEOREM RefundInvariant == Spec => []BooksInv
<1>1. Spec => Init /\ [][Next]_vars
  BY DEF Spec
<1>2. BooksInv /\ [Next]_vars => BooksInv'
  BY StepKeepsBooksInv
<1> QED BY <1>1, <1>2, InitBooks, PTL

(* The records, balances and transactions keep their types: above all the  *)
(* buyer's points never fall below zero, whatever is taken back meanwhile. *)
THEOREM RefundsAreTyped == Spec => []RefundsTypeOK
<1>1. BooksInv => RefundsTypeOK
  BY DEF BooksInv
<1> QED BY <1>1, RefundInvariant, PTL

(* The payment is canceled by the sum of the records, never by more than   *)
(* was captured, and the provider has given back no less than the books    *)
(* say, and exactly that where no transaction was lost.                    *)
THEOREM RefundBooksMatch == Spec => []BooksMatch
<1>1. BooksInv => BooksMatch
  BY DEF BooksInv
<1> QED BY <1>1, RefundInvariant, PTL

-----------------------------------------------------------------------------
(* What discounts come to.                                                 *)

\* What is due back of the points earned, by what the last look found.
DueFor(c, now) == IF c \in unearned THEN 0 ELSE ClawedBack(c, Recorded(Before(c)), now)

(* Nothing refunded of a share that has not earned was found to be earned; *)
(* and what a transaction has found may have come true since, but was not  *)
(* found before by a refund of the share that is committed.                *)
Looked ==
    /\ \A s \in Shares \ earned : RefundedOf(s) \subseteq unearned
    /\ \A c \in Claims :
          tx[c].at \in {"clawed", "paid"} =>
             IF c \in unearned THEN Before(c) \subseteq unearned ELSE ClaimShare[c] \in earned

\* Points and points taken back are computed from what is still committed.
Figures ==
    \A c \in Claims :
       /\ tx[c].at \in {"points", "coupon", "clawed", "paid"} =>
             tx[c].points = PointsBack(Before(c), c)
       /\ tx[c].at \in {"clawed", "paid"} =>
             tx[c].taken + tx[c].short = DueFor(c, tx[c].amount)

PointsOf(D) == Total([d \in D |-> record[d].points])

\* The records of a share come to what one claim for all of it would.
PointsAddUp ==
    \A s \in Shares :
       PointsOf(RefundedOf(s)) =
          Total([l \in LinesOf(s) |-> Through(l, PointCut[l], UnitsOf(RefundedOf(s), l))])

ClawedAddUp ==
    \A s \in Shares :
       ClawedOf(RefundedOf(s)) =
          EarnedOn(s, PaidFor(s) - Recorded(RefundedOf(s) \cap unearned))
            - EarnedOn(s, PaidFor(s) - Recorded(RefundedOf(s)))

\* The coupon goes with the last refund; holding the account, nobody is later.
CouponFollows ==
    /\ coupon = "ISSUED" => Whole(Refunded)
    /\ Whole(Claims) /\ (\A c \in Claims : record[c].points > 0) => coupon = "ISSUED"
    /\ \A c \in Claims :
          /\ tx[c].restores => Whole(Refunded \cup {c})
          /\ (/\ tx[c].at \in {"coupon", "clawed", "paid"} /\ tx[c].points > 0
              /\ Whole(Claims) /\ \A d \in Claims \ {c} : record[d].points > 0)
                => tx[c].restores \/ coupon = "ISSUED"

DiscountInv == Looked /\ Figures /\ PointsAddUp /\ ClawedAddUp /\ CouponFollows

-----------------------------------------------------------------------------
(* What a step does to the refunds of a share.                             *)

LEMMA SomebodySteps ==
    ASSUME [Next]_vars, ~(\E c \in Claims : Commit(c))
    PROVE  UNCHANGED <<status, record, coupon, canceled>>
<1>1. CASE Meanwhile \/ UNCHANGED vars
  BY <1>1, MeanwhileIs DEF vars
<1>2. ASSUME NEW c \in Claims, Step(c) \/ Lose(c) PROVE UNCHANGED <<status, record, coupon, canceled>>
  BY <1>2 DEF Step, Lose, Begin, RestorePoints, RestoreCoupon, ClawBack, PayNothing,
              PayBack, Refused
<1> QED BY <1>1, <1>2 DEF Next, Meanwhile

LEMMA CommitRecords ==
    ASSUME BooksInv, NEW c \in Claims, Commit(c)
    PROVE  /\ c \in Open /\ tx[c].at = "paid" /\ tx'[c] = Closed
           /\ c \notin Refunded /\ Refunded' = Refunded \cup {c}
           /\ record'[c].amount = tx[c].amount /\ record'[c].points = tx[c].points
           /\ record'[c].taken = tx[c].taken /\ record'[c].short = tx[c].short
           /\ \A d \in Claims : d # c => record'[d] = record[d]
           /\ \A s : RefundedOf(s)' = IF s = ClaimShare[c] THEN RefundedOf(s) \cup {c}
                                                            ELSE RefundedOf(s)
<1>1. RefundsTypeOK /\ Stages
  BY DEF BooksInv
<1>2. tx[c].at = "paid" /\ status[c] = "APPROVED"
  BY <1>1 DEF Commit, Stages
<1>3. /\ status \in [Claims -> {"APPROVED", "REFUNDED"}]
      /\ record \in [Claims -> [amount : Nat, points : Nat, taken : Nat, short : Nat]]
      /\ tx \in [Claims -> Transactions]
  BY <1>1, TypeParts
<1>4. Refunded' = Refunded \cup {c} /\ c \notin Refunded
  BY <1>2, <1>3 DEF Commit, Refunded
<1>5. /\ record'[c] = [amount |-> tx[c].amount, points |-> tx[c].points,
                       taken |-> tx[c].taken, short |-> tx[c].short]
      /\ \A d \in Claims : d # c => record'[d] = record[d]
  BY <1>3 DEF Commit
<1>6. c \in Open /\ tx'[c] = Closed
  BY <1>2, <1>3 DEF Commit, Open
<1>7. \A s : RefundedOf(s)' = {d \in Refunded' : ClaimShare[d] = s}
  BY DEF RefundedOf
<1> QED BY <1>2, <1>4, <1>5, <1>6, <1>7 DEF RefundedOf

\* What is refunded of a share stays as it is while another share is refunded.
LEMMA ShareIsKept ==
    ASSUME BooksInv, [Next]_vars, NEW s,
           \A c \in Claims : Commit(c) => ClaimShare[c] # s
    PROVE  /\ RefundedOf(s)' = RefundedOf(s)
           /\ \A d \in RefundedOf(s) : record'[d] = record[d]
<1>1. ASSUME NEW c \in Claims, Commit(c)
      PROVE  /\ RefundedOf(s)' = RefundedOf(s)
             /\ \A d \in RefundedOf(s) : record'[d] = record[d]
  <2>1. ClaimShare[c] # s /\ RefundedOf(s)' = RefundedOf(s)
    BY <1>1, CommitRecords
  <2>2. \A d \in RefundedOf(s) : d \in Claims /\ d # c
    BY <2>1, RefundedTypes DEF RefundedOf
  <2> QED BY <1>1, <2>1, <2>2, CommitRecords
<1>2. CASE ~(\E c \in Claims : Commit(c))
  BY <1>2, SomebodySteps DEF RefundedOf, Refunded
<1> QED BY <1>1, <1>2

\* So the transaction of a share finds at each step what it found before.
LEMMA BeforeIsKept ==
    ASSUME BooksInv, [Next]_vars, NEW c \in Claims, c \in Open, ~Commit(c)
    PROVE  /\ Before(c)' = Before(c)
           /\ \A d \in Before(c) : record'[d] = record[d]
<1>1. ASSUME NEW d \in Claims, Commit(d) PROVE ClaimShare[d] # ClaimShare[c]
  <2>1. d \in Open /\ d # c
    BY <1>1, CommitRecords
  <2> QED BY <2>1, AloneParts DEF BooksInv
<1> QED BY <1>1, ShareIsKept DEF Before

LEMMA ClawedBackIsKept ==
    ASSUME NEW c, NEW n, Before(c)' = Before(c), \A d \in Before(c) : record'[d] = record[d]
    PROVE  ClawedBack(c, Recorded(Before(c)), n)' = ClawedBack(c, Recorded(Before(c)), n)
<1>1. Recorded(Before(c))' = Recorded(Before(c))
  <2>1. [d \in Before(c) |-> record[d].amount]' = [d \in Before(c) |-> record[d].amount]
    OBVIOUS
  <2> QED BY <2>1 DEF Recorded
<1> QED BY <1>1 DEF ClawedBack, EarnedOn, PaidFor

LEMMA DueIsKept ==
    ASSUME NEW c, NEW n, Before(c)' = Before(c), \A d \in Before(c) : record'[d] = record[d],
           c \in unearned' <=> c \in unearned
    PROVE  DueFor(c, n)' = DueFor(c, n)
<1>1. ClawedBack(c, Recorded(Before(c)), n)' = ClawedBack(c, Recorded(Before(c)), n)
  BY ClawedBackIsKept
<1> QED BY <1>1 DEF DueFor

\* What the look finds is what is due from then on.
LEMMA DueIsFound ==
    ASSUME BooksInv, [Next]_vars, NEW c \in Claims, NEW n, ClawBack(c)
    PROVE  DueFor(c, n)' = ToClawBack(c, n)
<1>1. c \in Open /\ ~Commit(c)
  BY DEF ClawBack, Commit, Open
<1>2. Before(c)' = Before(c) /\ \A d \in Before(c) : record'[d] = record[d]
  BY <1>1, BeforeIsKept
<1>3. ClawedBack(c, Recorded(Before(c)), n)' = ClawedBack(c, Recorded(Before(c)), n)
  BY <1>2, ClawedBackIsKept
<1>4. c \in unearned' <=> ClaimShare[c] \notin earned
  BY DEF ClawBack, Looks
<1> QED BY <1>3, <1>4 DEF DueFor, ToClawBack

\* Who is open was open before, or has just begun.
LEMMA OpenBefore ==
    ASSUME BooksInv, [Next]_vars, NEW c \in Claims, tx'[c].at \notin {"closed", "begun"}
    PROVE  c \in Open /\ ~Commit(c) /\ ~Begin(c)
<1>0. tx \in [Claims -> Transactions] /\ RefundsTypeOK
  BY TypeParts DEF BooksInv
<1>1. ~Begin(c)
  BY <1>0 DEF Begin, Closed
<1>2. ~Commit(c)
  BY <1>0 DEF Commit, Closed
<1>3. CASE tx'[c] = tx[c]
  BY <1>1, <1>2, <1>3 DEF Open
<1>4. CASE tx'[c] # tx[c]
  <2>1. ~Meanwhile /\ ~UNCHANGED vars
    BY <1>4, MeanwhileIs DEF vars
  <2>2. PICK d \in Claims : Step(d) \/ Lose(d)
    BY <2>1 DEF Next, Meanwhile
  <2>3. d = c
    BY <1>0, <1>4, <2>2, OthersStay
  <2> QED
    BY <1>1, <1>2, <2>2, <2>3 DEF Step, Lose, RestorePoints, RestoreCoupon, ClawBack,
                                  PayNothing, PayBack, Refused, Open
<1> QED BY <1>3, <1>4

-----------------------------------------------------------------------------
(* Points and points taken back are computed from what is still committed. *)

LEMMA StepKeepsFigures ==
    ASSUME BooksInv, Figures, [Next]_vars
    PROVE  Figures'
<1>0. tx \in [Claims -> Transactions] /\ RefundsTypeOK /\ Stages
  BY TypeParts DEF BooksInv
<1> SUFFICES ASSUME NEW c \in Claims
             PROVE  /\ tx'[c].at \in {"points", "coupon", "clawed", "paid"} =>
                          tx'[c].points = PointsBack(Before(c), c)'
                    /\ tx'[c].at \in {"clawed", "paid"} =>
                          tx'[c].taken + tx'[c].short = DueFor(c, tx[c].amount)'
  BY DEF Figures
<1>1. CASE tx'[c].at \in {"closed", "begun"}
  BY <1>1
<1>2. CASE tx'[c].at \notin {"closed", "begun"}
  <2>1. c \in Open /\ ~Commit(c) /\ ~Begin(c)
    BY <1>2, OpenBefore
  <2>2. Before(c)' = Before(c) /\ \A d \in Before(c) : record'[d] = record[d]
    BY <2>1, BeforeIsKept
  <2>3. PointsBack(Before(c), c)' = PointsBack(Before(c), c)
    BY <2>2 DEF PointsBack, ShareWith, UnitsOf
  <2>a. ASSUME ~ClawBack(c), tx'[c].amount = tx[c].amount
        PROVE  DueFor(c, tx[c].amount)' = DueFor(c, tx[c].amount)
    <3>1. c \in unearned' <=> c \in unearned
      BY <1>0, <2>a, MarksAre
    <3> QED BY <2>2, <2>a, <3>1, DueIsKept
  <2>4. CASE tx'[c] = tx[c]
    <3>1. ~ClawBack(c)
      <4> SUFFICES ASSUME ClawBack(c) PROVE FALSE
        OBVIOUS
      <4>1. tx[c].at = "coupon" /\ tx[c].taken = 0 /\ tx[c].short = 0
        BY <1>0 DEF ClawBack, Stages
      <4>2. \E taken \in Nat, short \in Nat, account \in BOOLEAN :
               TakesBack(c, taken, short, account)
        BY <1>0, <4>1, ClawBackIs
      <4>3. tx'[c].at = "clawed"
        BY <1>0, <4>2 DEF TakesBack, Transactions
      <4> QED BY <2>4, <4>1, <4>3
    <3>2. DueFor(c, tx[c].amount)' = DueFor(c, tx[c].amount)
      BY <2>4, <2>a, <3>1
    <3> QED BY <2>3, <2>4, <3>2 DEF Figures
  <2>5. CASE tx'[c] # tx[c]
    <3>1. ~Meanwhile /\ ~UNCHANGED vars
      BY <2>5, MeanwhileIs DEF vars
    <3>2. PICK d \in Claims : Step(d) \/ Lose(d)
      BY <3>1 DEF Next, Meanwhile
    <3>3. d = c
      BY <1>0, <2>5, <3>2, OthersStay
    <3>4. ~Refused(c) /\ ~Lose(c)
      BY <1>0, <1>2 DEF Refused, Lose, Closed
    <3>5. CASE RestorePoints(c)
      <4>1. tx'[c].points = PointsBack(Before(c), c) /\ tx'[c].at = "points"
        BY <1>0, <3>5 DEF RestorePoints, Transactions
      <4> QED BY <2>3, <4>1
    <3>6. CASE RestoreCoupon(c)
      <4>1. tx'[c].points = tx[c].points /\ tx'[c].at = "coupon" /\ tx[c].at = "points"
        BY <1>0, <3>6 DEF RestoreCoupon, Transactions
      <4> QED BY <2>3, <4>1 DEF Figures
    <3>7. CASE ClawBack(c)
      <4>1. tx[c].at = "coupon" /\ tx[c].taken = 0 /\ tx[c].short = 0
        BY <1>0, <3>7 DEF ClawBack, Stages
      <4>2. \E taken \in Nat, short \in Nat, account \in BOOLEAN :
               TakesBack(c, taken, short, account)
        BY <1>0, <3>7, <4>1, ClawBackIs
      <4>3. PICK taken \in Nat, short \in Nat, account \in BOOLEAN :
               TakesBack(c, taken, short, account)
        BY <4>2, Zenon
      <4>4. tx'[c] = [tx[c] EXCEPT !.at = "clawed", !.account = account,
                                   !.taken = taken, !.short = short]
        BY <1>0, <4>3 DEF TakesBack
      <4>5. taken + short = ToClawBack(c, tx[c].amount)
        BY <4>3, Zenon DEF TakesBack
      <4>6. /\ tx'[c].points = tx[c].points /\ tx'[c].amount = tx[c].amount
            /\ tx'[c].taken = taken /\ tx'[c].short = short
        BY <1>0, <4>4 DEF Transactions
      <4>7. DueFor(c, tx[c].amount)' = ToClawBack(c, tx[c].amount)
        BY <3>7, <4>6, DueIsFound
      <4> QED BY <2>3, <4>1, <4>5, <4>6, <4>7 DEF Figures
    <3>8. CASE PayNothing(c) \/ PayBack(c)
      <4>1. /\ tx'[c].points = tx[c].points /\ tx'[c].amount = tx[c].amount
            /\ tx'[c].taken = tx[c].taken /\ tx'[c].short = tx[c].short
            /\ tx[c].at = "clawed"
        BY <1>0, <3>8 DEF PayNothing, PayBack, Transactions
      <4>2. DueFor(c, tx[c].amount)' = DueFor(c, tx[c].amount)
        BY <2>a, <4>1 DEF ClawBack
      <4> QED BY <2>3, <4>1, <4>2 DEF Figures
    <3> QED BY <2>1, <3>2, <3>3, <3>4, <3>5, <3>6, <3>7, <3>8 DEF Step
  <2> QED BY <2>4, <2>5
<1> QED BY <1>1, <1>2

-----------------------------------------------------------------------------
(* What was found of earned points.                                        *)

\* Who is past the look was there before, or has just looked.
LEMMA LookedBefore ==
    ASSUME BooksInv, [Next]_vars, NEW c \in Claims, tx'[c].at \in {"clawed", "paid"}, ~ClawBack(c)
    PROVE  tx[c].at \in {"clawed", "paid"}
<1>0. tx \in [Claims -> Transactions] /\ RefundsTypeOK
  BY TypeParts DEF BooksInv
<1>1. CASE tx'[c] = tx[c]
  BY <1>1
<1>2. CASE tx'[c] # tx[c]
  <2>1. ~Meanwhile /\ ~UNCHANGED vars
    BY <1>2, MeanwhileIs DEF vars
  <2>2. PICK d \in Claims : Step(d) \/ Lose(d)
    BY <2>1 DEF Next, Meanwhile
  <2>3. d = c
    BY <1>0, <1>2, <2>2, OthersStay
  <2>4. ~Begin(c) /\ ~Refused(c) /\ ~Lose(c) /\ ~Commit(c)
    <3>1. ~Begin(c) /\ ~Commit(c)
      BY OpenBefore
    <3> QED BY <1>0, <3>1 DEF Refused, Lose, Closed
  <2>5. ~RestorePoints(c) /\ ~RestoreCoupon(c)
    BY <1>0 DEF RestorePoints, RestoreCoupon, Transactions
  <2> QED BY <2>2, <2>3, <2>4, <2>5 DEF Step, PayNothing, PayBack
<1> QED BY <1>1, <1>2

\* A claim that is refunded does not look again.
LEMMA MarksAreKept ==
    ASSUME BooksInv, [Next]_vars
    PROVE  \A d \in Refunded : d \in unearned' <=> d \in unearned
<1> SUFFICES ASSUME NEW d \in Refunded PROVE d \in unearned' <=> d \in unearned
  OBVIOUS
<1>1. d \in Claims /\ status[d] # "APPROVED"
  BY DEF Refunded
<1>2. ~ClawBack(d)
  BY <1>1 DEF ClawBack, BooksInv, Stages
<1> QED BY <1>1, <1>2, MarksAre DEF BooksInv

LEMMA StepKeepsLooked ==
    ASSUME BooksInv, BooksInv', Looked, [Next]_vars
    PROVE  Looked'
<1>0. /\ tx \in [Claims -> Transactions] /\ RefundsTypeOK /\ Stages
      /\ earned \subseteq earned' /\ earned' \subseteq Shares
      /\ \A d \in Refunded : d \in unearned' <=> d \in unearned
  BY TypeParts, MarksAre, MarksAreKept DEF BooksInv
<1>1. ASSUME NEW s \in Shares, s \notin earned' PROVE RefundedOf(s)' \subseteq unearned'
  <2>1. RefundedOf(s) \subseteq unearned /\ RefundedOf(s) \subseteq Refunded
    BY <1>0, <1>1, RefundedTypes DEF Looked
  <2>2. RefundedOf(s) \subseteq unearned'
    BY <1>0, <2>1
  <2>3. ASSUME NEW c \in Claims, Commit(c), ClaimShare[c] = s PROVE c \in unearned'
    <3>1. tx[c].at = "paid" /\ ~ClawBack(c)
      BY <2>3 DEF Commit, ClawBack
    <3>2. c \in unearned
      BY <1>0, <1>1, <2>3, <3>1 DEF Looked
    <3> QED BY <1>0, <3>1, <3>2, MarksAre
  <2>4. CASE \A c \in Claims : Commit(c) => ClaimShare[c] # s
    <3>1. RefundedOf(s)' = RefundedOf(s)
      BY <2>4, ShareIsKept
    <3> QED BY <2>2, <3>1
  <2>5. ASSUME NEW c \in Claims, Commit(c), ClaimShare[c] = s
        PROVE  RefundedOf(s)' \subseteq unearned'
    <3>1. RefundedOf(s)' = RefundedOf(s) \cup {c}
      BY <2>5, CommitRecords
    <3> QED BY <2>2, <2>3, <2>5, <3>1
  <2> QED BY <2>4, <2>5
<1>2. ASSUME NEW c \in Claims, tx'[c].at \in {"clawed", "paid"}
      PROVE  IF c \in unearned' THEN Before(c)' \subseteq unearned'
                                 ELSE ClaimShare[c] \in earned'
  <2>1. c \in Open /\ ~Commit(c)
    BY <1>2, OpenBefore
  <2>2. Before(c)' = Before(c) /\ Before(c) \subseteq Refunded
    BY <2>1, BeforeIsKept, RefundedTypes DEF Before
  <2>3. CASE ~ClawBack(c)
    <3>1. tx[c].at \in {"clawed", "paid"} /\ (c \in unearned' <=> c \in unearned)
      BY <1>0, <1>2, <2>3, LookedBefore, MarksAre
    <3>2. IF c \in unearned THEN Before(c) \subseteq unearned ELSE ClaimShare[c] \in earned
      BY <3>1 DEF Looked
    <3> QED BY <1>0, <2>2, <3>1, <3>2
  <2>4. CASE ClawBack(c)
    <3>1. (c \in unearned' <=> ClaimShare[c] \notin earned) /\ ClaimShare[c] \in Shares
      BY <2>4, ClaimFacts DEF ClawBack, Looks
    <3>2. ClaimShare[c] \notin earned => Before(c) \subseteq unearned
      BY <3>1 DEF Looked, Before
    <3> QED BY <1>0, <2>2, <3>1, <3>2
  <2> QED BY <2>3, <2>4
<1> QED BY <1>1, <1>2 DEF Looked

-----------------------------------------------------------------------------
(* Line by line, what two refunds give is what one for both would.         *)

LEMMA ThroughAddsUp ==
    ASSUME NEW a \in [Lines -> Nat], NEW s \in Shares, NEW C \in SUBSET Claims, NEW c \in Claims
    PROVE  Total([l \in LinesOf(s) |-> Through(l, a[l], UnitsOf(C \cup {c}, l))]) =
              Total([l \in LinesOf(s) |-> Through(l, a[l], UnitsOf(C, l))])
                + Total([l \in LinesOf(s) |-> ShareWith(l, a[l], C, c)])
<1> DEFINE L == LinesOf(s)
           h == [l \in L |-> Through(l, a[l], UnitsOf(C \cup {c}, l))]
           f == [l \in L |-> Through(l, a[l], UnitsOf(C, l))]
           g == [l \in L |-> ShareWith(l, a[l], C, c)]
<1>1. IsFiniteSet(L) /\ L \in SUBSET Lines
  BY ShareFacts
<1>2. ASSUME NEW l \in L
      PROVE  h[l] \in Nat /\ f[l] \in Nat /\ g[l] \in Nat /\ h[l] = f[l] + g[l]
  <2>1. l \in Lines /\ a[l] \in Nat
    BY <1>1
  <2>2. UnitsOf(C, l) \in Nat /\ UnitsOf(C \cup {c}, l) \in Nat
    BY <2>1, UnitsTypes
  <2>3. Through(l, a[l], UnitsOf(C, l)) \in Nat /\ Through(l, a[l], UnitsOf(C \cup {c}, l)) \in Nat
    BY <2>1, <2>2, ThroughGrows
  <2>4. ShareWith(l, a[l], C, c) \in Nat
    BY <2>1, ShareWithType
  <2> QED BY <2>3, <2>4 DEF ShareWith
<1>3. f \in [L -> Nat] /\ g \in [L -> Nat] /\ h \in [L -> Nat]
  BY <1>2
<1> HIDE DEF L, f, g, h
<1>4. Total(h) = Total(f) + Total(g)
  BY <1>1, <1>2, <1>3, TotalSum
<1> QED BY <1>4 DEF L, f, g, h

\* Nothing is refunded by no claim.
LEMMA ThroughNothing ==
    ASSUME NEW a \in [Lines -> Nat], NEW s \in Shares
    PROVE  Total([l \in LinesOf(s) |-> Through(l, a[l], UnitsOf({}, l))]) = 0
<1>1. \A l \in LinesOf(s) : Through(l, a[l], UnitsOf({}, l)) = 0
  <2> SUFFICES ASSUME NEW l \in LinesOf(s) PROVE Through(l, a[l], UnitsOf({}, l)) = 0
    OBVIOUS
  <2>1. l \in Lines /\ a[l] \in Nat
    BY ShareFacts
  <2>2. UnitsOf({}, l) = 0
    BY <2>1, UnitsTypes
  <2> QED BY <2>1, <2>2, ThroughEnds
<1> DEFINE f == [l \in LinesOf(s) |-> Through(l, a[l], UnitsOf({}, l))]
<1>2. f \in [LinesOf(s) -> Nat] /\ \A l \in LinesOf(s) : f[l] = 0
  BY <1>1
<1> HIDE DEF f
<1>3. Total(f) = 0
  BY <1>2, TotalZero
<1> QED BY <1>3 DEF f

\* All of it is, by claims that refund every unit.
LEMMA ThroughAll ==
    ASSUME NEW a \in [Lines -> Nat], NEW s \in Shares, NEW C \in SUBSET Claims, AllRefunded(C, s)
    PROVE  Total([l \in LinesOf(s) |-> Through(l, a[l], UnitsOf(C, l))]) =
              Total([l \in LinesOf(s) |-> a[l]])
<1>1. ASSUME NEW l \in LinesOf(s) PROVE Through(l, a[l], UnitsOf(C, l)) = a[l]
  <2>1. l \in Lines /\ a[l] \in Nat
    BY ShareFacts
  <2>2. UnitsOf(C, l) \in Nat /\ UnitsOf(C, l) >= Quantity[l]
    BY <2>1, UnitsTypes DEF AllRefunded
  <2> QED BY <2>1, <2>2, ThroughEnds
<1>2. [l \in LinesOf(s) |-> Through(l, a[l], UnitsOf(C, l))] = [l \in LinesOf(s) |-> a[l]]
  BY <1>1
<1> QED BY <1>2

\* The records of a share with one more are the records plus that one.
LEMMA RecordsWith ==
    ASSUME BooksInv, BooksInv', [Next]_vars, NEW c \in Claims, Commit(c)
    PROVE  LET C == RefundedOf(ClaimShare[c]) IN
           /\ C \in SUBSET Claims /\ C' = C \cup {c}
           /\ Recorded(C) \in Nat /\ PointsOf(C) \in Nat /\ ClawedOf(C) \in Nat
           /\ Recorded(C)' = Recorded(C) + tx[c].amount
           /\ PointsOf(C)' = PointsOf(C) + tx[c].points
           /\ ClawedOf(C)' = ClawedOf(C) + (tx[c].taken + tx[c].short)
<1> DEFINE C == RefundedOf(ClaimShare[c])
<1>1. /\ C' = C \cup {c} /\ c \notin C /\ C \in SUBSET Claims
      /\ \A d \in C : d \in Claims /\ record'[d] = record[d]
      /\ record'[c].amount = tx[c].amount /\ record'[c].points = tx[c].points
      /\ record'[c].taken = tx[c].taken /\ record'[c].short = tx[c].short
  BY CommitRecords, RefundedTypes DEF RefundedOf
<1>2. RefundsTypeOK /\ RefundsTypeOK'
  BY DEF BooksInv
<1>3. \A d \in Claims : /\ record[d].amount \in Nat /\ record[d].points \in Nat
                        /\ record[d].taken \in Nat /\ record[d].short \in Nat
                        /\ record'[d].amount \in Nat /\ record'[d].points \in Nat
                        /\ record'[d].taken \in Nat /\ record'[d].short \in Nat
  <2>1. \A d \in Claims : /\ record'[d].amount \in Nat /\ record'[d].points \in Nat
                          /\ record'[d].taken \in Nat /\ record'[d].short \in Nat
    BY <1>2 DEF RefundsTypeOK
  <2> QED BY <1>2, <2>1, RecordFields
<1> HIDE DEF C
<1>4. Recorded(C) \in Nat /\ Recorded(C)' = Recorded(C) + tx[c].amount
  <2> DEFINE f == [d \in Claims |-> record'[d].amount]
             g == [d \in Claims |-> record[d].amount]
  <2>1. f \in [Claims -> Nat] /\ g \in [Claims -> Nat] /\ \A d \in C : f[d] = g[d]
    BY <1>1, <1>3
  <2>2. [d \in C |-> g[d]] = [d \in C |-> record[d].amount]
    BY <1>1
  <2>3. [d \in C \cup {c} |-> f[d]] = [d \in C \cup {c} |-> record'[d].amount]
    BY <1>1
  <2>4. f[c] = tx[c].amount
    BY <1>1
  <2> HIDE DEF f, g
  <2>5. /\ Total([d \in C \cup {c} |-> f[d]]) = Total([d \in C |-> g[d]]) + f[c]
        /\ Total([d \in C |-> g[d]]) \in Nat
    BY <1>1, <2>1, AskedWith
  <2> QED BY <1>1, <2>2, <2>3, <2>4, <2>5 DEF Recorded
<1>5. PointsOf(C) \in Nat /\ PointsOf(C)' = PointsOf(C) + tx[c].points
  <2> DEFINE f == [d \in Claims |-> record'[d].points]
             g == [d \in Claims |-> record[d].points]
  <2>1. f \in [Claims -> Nat] /\ g \in [Claims -> Nat] /\ \A d \in C : f[d] = g[d]
    BY <1>1, <1>3
  <2>2. [d \in C |-> g[d]] = [d \in C |-> record[d].points]
    BY <1>1
  <2>3. [d \in C \cup {c} |-> f[d]] = [d \in C \cup {c} |-> record'[d].points]
    BY <1>1
  <2>4. f[c] = tx[c].points
    BY <1>1
  <2> HIDE DEF f, g
  <2>5. /\ Total([d \in C \cup {c} |-> f[d]]) = Total([d \in C |-> g[d]]) + f[c]
        /\ Total([d \in C |-> g[d]]) \in Nat
    BY <1>1, <2>1, AskedWith
  <2> QED BY <1>1, <2>2, <2>3, <2>4, <2>5 DEF PointsOf
<1>6. ClawedOf(C) \in Nat /\ ClawedOf(C)' = ClawedOf(C) + (tx[c].taken + tx[c].short)
  <2> DEFINE f == [d \in Claims |-> record'[d].taken + record'[d].short]
             g == [d \in Claims |-> record[d].taken + record[d].short]
  <2>1. f \in [Claims -> Nat] /\ g \in [Claims -> Nat] /\ \A d \in C : f[d] = g[d]
    BY <1>1, <1>3
  <2>2. [d \in C |-> g[d]] = [d \in C |-> record[d].taken + record[d].short]
    BY <1>1
  <2>3. [d \in C \cup {c} |-> f[d]] = [d \in C \cup {c} |-> record'[d].taken + record'[d].short]
    BY <1>1
  <2>4. f[c] = tx[c].taken + tx[c].short
    BY <1>1
  <2> HIDE DEF f, g
  <2>5. /\ Total([d \in C \cup {c} |-> f[d]]) = Total([d \in C |-> g[d]]) + f[c]
        /\ Total([d \in C |-> g[d]]) \in Nat
    BY <1>1, <2>1, AskedWith
  <2> QED BY <1>1, <2>2, <2>3, <2>4, <2>5 DEF ClawedOf
<1> QED BY <1>1, <1>4, <1>5, <1>6 DEF C

LEMMA RecordsKept ==
    ASSUME BooksInv, [Next]_vars, NEW s,
           \A c \in Claims : Commit(c) => ClaimShare[c] # s
    PROVE  LET C == RefundedOf(s) IN
           /\ C' = C /\ Recorded(C)' = Recorded(C)
           /\ PointsOf(C)' = PointsOf(C) /\ ClawedOf(C)' = ClawedOf(C)
<1> DEFINE C == RefundedOf(s)
<1>1. C' = C /\ \A d \in C : record'[d] = record[d]
  BY ShareIsKept
<1> HIDE DEF C
<1>2. /\ [d \in C |-> record[d].amount]' = [d \in C |-> record[d].amount]
      /\ [d \in C |-> record[d].points]' = [d \in C |-> record[d].points]
      /\ [d \in C |-> record[d].taken + record[d].short]' =
            [d \in C |-> record[d].taken + record[d].short]
  BY <1>1
<1> QED BY <1>1, <1>2 DEF C, Recorded, PointsOf, ClawedOf

\* The share of one claim is refunded further, or the share is as it was.
LEMMA CommitOrKept ==
    ASSUME BooksInv, NEW s
    PROVE  \/ \E c \in Claims : Commit(c) /\ ClaimShare[c] = s
           \/ \A c \in Claims : Commit(c) => ClaimShare[c] # s
OBVIOUS

LEMMA StepKeepsPointsAddUp ==
    ASSUME BooksInv, BooksInv', Figures, PointsAddUp, [Next]_vars
    PROVE  PointsAddUp'
<1> DEFINE Sum(C, s) == Total([l \in LinesOf(s) |-> Through(l, PointCut[l], UnitsOf(C, l))])
<1> SUFFICES ASSUME NEW s \in Shares
             PROVE  PointsOf(RefundedOf(s))' = Sum(RefundedOf(s)', s)
  BY DEF PointsAddUp, LinesOf, Through, UnitsOf, Total
<1>1. PointsOf(RefundedOf(s)) = Sum(RefundedOf(s), s)
  BY DEF PointsAddUp
<1>2. ASSUME NEW c \in Claims, Commit(c), ClaimShare[c] = s
      PROVE  PointsOf(RefundedOf(s))' = Sum(RefundedOf(s)', s)
  <2> DEFINE C == RefundedOf(s)
  <2>1. /\ C = Before(c) /\ C' = C \cup {c} /\ C \in SUBSET Claims
        /\ PointsOf(C)' = PointsOf(C) + tx[c].points
    BY <1>2, RecordsWith DEF Before
  <2>2. tx[c].points = PointsBack(C, c)
    BY <1>2, <2>1 DEF Figures, Commit
  <2>3. PointsBack(C, c) = Total([l \in LinesOf(s) |-> ShareWith(l, PointCut[l], C, c)])
    BY <1>2 DEF PointsBack
  <2>4. PointCut \in [Lines -> Nat]
    BY RefundsAssumption
  <2>5. Sum(C \cup {c}, s) = Sum(C, s) + PointsBack(C, c)
    <3> HIDE DEF C
    <3> QED BY <2>1, <2>3, <2>4, ThroughAddsUp
  <2>6. PointsOf(C) = Sum(C, s)
    BY <1>1
  <2>7. PointsOf(C)' = Sum(C', s)
    <3> HIDE DEF C, Sum
    <3> QED BY <2>1, <2>2, <2>5, <2>6
  <2> QED BY <2>7
<1>3. CASE \A c \in Claims : Commit(c) => ClaimShare[c] # s
  <2>1. /\ RefundedOf(s)' = RefundedOf(s)
        /\ PointsOf(RefundedOf(s))' = PointsOf(RefundedOf(s))
    BY <1>3, RecordsKept
  <2> HIDE DEF Sum
  <2> QED BY <1>1, <2>1
<1> QED BY <1>2, <1>3, CommitOrKept

LEMMA StepKeepsClawedAddUp ==
    ASSUME BooksInv, BooksInv', Looked, Figures, ClawedAddUp, [Next]_vars
    PROVE  ClawedAddUp'
<1> DEFINE Due(s, m, n) == EarnedOn(s, PaidFor(s) - m) - EarnedOn(s, PaidFor(s) - n)
           Spared(s) == RefundedOf(s) \cap unearned
<1> SUFFICES ASSUME NEW s \in Shares
             PROVE  ClawedOf(RefundedOf(s))' =
                       Due(s, Recorded(Spared(s))', Recorded(RefundedOf(s))')
  BY DEF ClawedAddUp, EarnedOn, PaidFor, LinesOf, Net, Total
<1>1. ClawedOf(RefundedOf(s)) = Due(s, Recorded(Spared(s)), Recorded(RefundedOf(s)))
  BY DEF ClawedAddUp
<1>2. /\ \A d \in RefundedOf(s) : d \in unearned' <=> d \in unearned
      /\ RefundsTypeOK /\ Spared(s) \in SUBSET Claims
  BY MarksAreKept, RefundedTypes DEF BooksInv
<1>3. ASSUME NEW c \in Claims, Commit(c), ClaimShare[c] = s
      PROVE  ClawedOf(RefundedOf(s))' = Due(s, Recorded(Spared(s))', Recorded(RefundedOf(s))')
  <2> DEFINE C == RefundedOf(s)
             U == Spared(s)
             n == tx[c].amount
             p == PaidFor(s)
  <2>1. /\ C = Before(c) /\ C' = C \cup {c} /\ Recorded(C) \in Nat
        /\ Recorded(C)' = Recorded(C) + n
        /\ ClawedOf(C)' = ClawedOf(C) + (tx[c].taken + tx[c].short)
    BY <1>3, RecordsWith DEF Before
  <2>2. tx[c].at = "paid" /\ ~ClawBack(c)
    BY <1>3 DEF Commit, ClawBack
  <2>3. tx[c].taken + tx[c].short = DueFor(c, n)
    BY <2>2 DEF Figures
  <2>4. c \in unearned' <=> c \in unearned
    BY <1>2, <2>2, MarksAre
  <2>5. n \in Nat /\ p \in Nat /\ Recorded(U) \in Nat
    BY <1>2, PaidTypes, TypeParts, TransactionFields, RecordedType
  <2>6. CASE c \in unearned
    <3>1. C \subseteq unearned
      BY <2>1, <2>2, <2>6 DEF Looked
    <3>2. U = C /\ U' = C'
      BY <1>2, <2>1, <2>4, <2>6, <3>1
    <3>3. ClawedOf(C) = EarnedOn(s, p - Recorded(C)) - EarnedOn(s, p - Recorded(C))
      BY <1>1, <3>2
    <3>4. p - Recorded(C) \in Int /\ p - Recorded(C)' \in Int
      BY <2>1, <2>5
    <3>5. EarnedOn(s, p - Recorded(C)) \in Nat /\ EarnedOn(s, p - Recorded(C)') \in Nat
      <4> DEFINE a == p - Recorded(C)
                 b == p - Recorded(C)'
      <4>1. a \in Int /\ b \in Int /\ a <= a /\ b <= b
        BY <3>4
      <4> HIDE DEF a, b
      <4>2. EarnedOn(s, a) \in Nat /\ EarnedOn(s, b) \in Nat
        BY <4>1, EarnedGrows
      <4> QED BY <4>2 DEF a, b
    <3>6. tx[c].taken + tx[c].short = 0
      BY <2>3, <2>6 DEF DueFor
    <3>7. ClawedOf(C)' = 0
      <4> HIDE DEF C, p
      <4> QED BY <2>1, <3>3, <3>5, <3>6
    <3>8. EarnedOn(s, p - Recorded(C)') - EarnedOn(s, p - Recorded(C)') = 0
      BY <3>5
    <3>9. Recorded(U)' = Recorded(C)'
      BY <3>2
    <3> QED BY <3>7, <3>8, <3>9
  <2>7. CASE c \notin unearned
    <3>1. U' = U
      BY <1>2, <2>1, <2>4, <2>7
    <3>2. \A d \in U : record'[d] = record[d]
      BY <1>3, CommitRecords, RefundedTypes DEF RefundedOf
    <3>3. Recorded(U)' = Recorded(U)
      <4>1. [d \in U |-> record[d].amount]' = [d \in U |-> record[d].amount]
        <5> HIDE DEF U
        <5> QED BY <3>1, <3>2
      <4> HIDE DEF U
      <4> QED BY <4>1 DEF Recorded
    <3>4. tx[c].taken + tx[c].short =
             EarnedOn(s, p - Recorded(C)) - EarnedOn(s, p - Recorded(C) - n)
      BY <1>3, <2>1, <2>3, <2>7 DEF DueFor, ClawedBack
    <3>5. ClawedOf(C) = EarnedOn(s, p - Recorded(U)) - EarnedOn(s, p - Recorded(C))
      BY <1>1
    <3> HIDE DEF C, U, n, p
    <3>6. /\ p - (Recorded(C) + n) = p - Recorded(C) - n /\ p - Recorded(C) - n \in Int
          /\ p - Recorded(C) \in Int /\ p - Recorded(U) \in Int
      BY <2>1, <2>5
    <3>7. /\ EarnedOn(s, p - Recorded(U)) \in Nat /\ EarnedOn(s, p - Recorded(C)) \in Nat
          /\ EarnedOn(s, p - Recorded(C) - n) \in Nat
      <4> DEFINE a == p - Recorded(U)
                 b == p - Recorded(C)
                 e == p - Recorded(C) - n
      <4>1. a \in Int /\ b \in Int /\ e \in Int /\ a <= a /\ b <= b /\ e <= e
        BY <3>6
      <4> HIDE DEF a, b, e
      <4>2. EarnedOn(s, a) \in Nat /\ EarnedOn(s, b) \in Nat /\ EarnedOn(s, e) \in Nat
        BY <4>1, EarnedGrows
      <4> QED BY <4>2 DEF a, b, e
    <3>8. ClawedOf(C)' = EarnedOn(s, p - Recorded(U)) - EarnedOn(s, p - Recorded(C) - n)
      BY <2>1, <3>4, <3>5, <3>7
    <3>9. Recorded(C)' = Recorded(C) + n
      BY <2>1
    <3>10. ClawedOf(C)' = EarnedOn(s, p - Recorded(U)') - EarnedOn(s, p - Recorded(C)')
      BY <3>3, <3>6, <3>8, <3>9
    <3> QED BY <3>10 DEF C, U, p
  <2> QED BY <2>6, <2>7
<1>4. CASE \A c \in Claims : Commit(c) => ClaimShare[c] # s
  <2>1. /\ RefundedOf(s)' = RefundedOf(s)
        /\ Recorded(RefundedOf(s))' = Recorded(RefundedOf(s))
        /\ ClawedOf(RefundedOf(s))' = ClawedOf(RefundedOf(s))
    BY <1>4, RecordsKept
  <2>2. Spared(s)' = Spared(s) /\ \A d \in Spared(s) : record'[d] = record[d]
    BY <1>2, <1>4, <2>1, ShareIsKept
  <2> DEFINE U == Spared(s)
  <2>3. Recorded(U)' = Recorded(U)
    <3>1. [d \in U |-> record[d].amount]' = [d \in U |-> record[d].amount]
      <4> HIDE DEF U
      <4> QED BY <2>2 DEF U
    <3> HIDE DEF U
    <3> QED BY <3>1 DEF Recorded
  <2>4. Recorded(Spared(s))' = Recorded(Spared(s))
    BY <2>3
  <2> HIDE DEF Due, Spared
  <2> QED BY <1>1, <2>1, <2>4
<1> QED BY <1>3, <1>4, CommitOrKept

-----------------------------------------------------------------------------
(* The coupon goes with the last refund.                                   *)

LEMMA MoreIsWhole ==
    ASSUME NEW C \in SUBSET Claims, NEW D \in SUBSET C, Whole(D)
    PROVE  Whole(C)
BY MoreIsRefunded DEF Whole

LEMMA AllRecorded ==
    ASSUME BooksInv, NEW D \in SUBSET Claims, \A d \in D : record[d].points > 0
    PROVE  D \subseteq Refunded
<1>1. \A d \in Claims : status[d] \in {"APPROVED", "REFUNDED"}
  BY TypeParts DEF BooksInv
<1>2. \A d \in Claims : status[d] = "APPROVED" => record[d].points = 0
  BY DEF BooksInv, BooksMatch, NoRecord
<1> QED BY <1>1, <1>2 DEF Refunded

LEMMA CouponParts ==
    ASSUME CouponFollows
    PROVE  /\ coupon = "ISSUED" => Whole(Refunded)
           /\ Whole(Claims) /\ (\A c \in Claims : record[c].points > 0) => coupon = "ISSUED"
           /\ \A c \in Claims : tx[c].restores => Whole(Refunded \cup {c})
           /\ \A c \in Claims :
                 (/\ tx[c].at \in {"coupon", "clawed", "paid"} /\ tx[c].points > 0
                  /\ Whole(Claims) /\ \A d \in Claims \ {c} : record[d].points > 0)
                    => tx[c].restores \/ coupon = "ISSUED"
BY DEF CouponFollows

\* A step of c that writes no record, and what it leaves to be shown of c.
LEMMA QuietKeepsCoupon ==
    ASSUME BooksInv, CouponFollows, NEW c \in Claims, Step(c) \/ Lose(c),
           UNCHANGED <<status, record, coupon>>,
           tx'[c].restores => Whole(Refunded \cup {c}),
           (/\ tx'[c].at \in {"coupon", "clawed", "paid"} /\ tx'[c].points > 0
            /\ Whole(Claims) /\ \A d \in Claims \ {c} : record[d].points > 0)
               => tx'[c].restores \/ coupon = "ISSUED"
    PROVE  CouponFollows'
<1>1. \A d \in Claims : d # c => tx'[d] = tx[d]
  BY OthersStay DEF BooksInv
<1>2. Refunded' = Refunded
  BY DEF Refunded
<1>3. ASSUME NEW d \in Claims
      PROVE  /\ tx'[d].restores => Whole(Refunded \cup {d})
             /\ (/\ tx'[d].at \in {"coupon", "clawed", "paid"} /\ tx'[d].points > 0
                 /\ Whole(Claims) /\ \A e \in Claims \ {d} : record[e].points > 0)
                   => tx'[d].restores \/ coupon = "ISSUED"
  <2>1. CASE d = c
    BY <2>1
  <2>2. CASE d # c
    BY <1>1, <2>2, CouponParts
  <2> QED BY <2>1, <2>2
<1> QED BY <1>2, <1>3, CouponParts DEF CouponFollows, Whole

LEMMA StepKeepsCoupon ==
    ASSUME BooksInv, BooksInv', CouponFollows, [Next]_vars
    PROVE  CouponFollows'
<1>0. tx \in [Claims -> Transactions] /\ RefundsTypeOK /\ Stages /\ coupon \in {"USED", "ISSUED"}
  BY TypeParts DEF BooksInv, RefundsTypeOK
<1>1. ASSUME NEW c \in Claims, Begin(c) \/ Refused(c) \/ Lose(c) PROVE CouponFollows'
  <2>1. \/ tx'[c] = [Closed EXCEPT !.at = "begun", !.amount = RefundOf(Before(c), c)]
        \/ tx'[c] = Closed
    BY <1>0, <1>1 DEF Begin, Refused, Lose
  <2>2. ~tx'[c].restores /\ tx'[c].at \notin {"coupon", "clawed", "paid"}
    <3>1. CASE tx'[c] = Closed
      BY <3>1 DEF Closed
    <3>2. CASE tx'[c] = [Closed EXCEPT !.at = "begun", !.amount = RefundOf(Before(c), c)]
      BY <3>2 DEF Closed
    <3> QED BY <2>1, <3>1, <3>2
  <2>3. UNCHANGED <<status, record, coupon>>
    BY <1>1 DEF Begin, Refused, Lose
  <2> QED BY <1>1, <2>2, <2>3, QuietKeepsCoupon DEF Step
<1>2. ASSUME NEW c \in Claims, RestorePoints(c) PROVE CouponFollows'
  <2>1. tx'[c].restores = tx[c].restores /\ tx'[c].at = "points"
    BY <1>0, <1>2 DEF RestorePoints, Transactions
  <2>2. ~tx[c].restores
    BY <1>0, <1>2 DEF RestorePoints, Stages
  <2>3. UNCHANGED <<status, record, coupon>>
    BY <1>2 DEF RestorePoints
  <2> QED BY <1>2, <2>1, <2>2, <2>3, QuietKeepsCoupon DEF Step
<1>3. ASSUME NEW c \in Claims, RestoreCoupon(c) PROVE CouponFollows'
  <2> DEFINE restores == coupon = "USED" /\ WholeOrder(c)
  <2>1. tx'[c] = [tx[c] EXCEPT !.at = "coupon", !.restores = restores]
    BY <1>0, <1>3 DEF RestoreCoupon
  <2>2. (tx'[c].restores <=> restores) /\ UNCHANGED <<status, record, coupon>>
    <3> HIDE DEF restores
    <3> QED BY <1>0, <1>3, <2>1 DEF RestoreCoupon, Transactions
  <2>3. WholeOrder(c) <=> Whole(Refunded \cup {c})
    BY DEF WholeOrder, Whole
  <2>4. ASSUME Whole(Claims), \A d \in Claims \ {c} : record[d].points > 0
        PROVE  restores \/ coupon = "ISSUED"
    <3>1. Claims \ {c} \subseteq Refunded
      BY <2>4, AllRecorded
    <3>2. Refunded \cup {c} = Claims
      BY <3>1 DEF Refunded
    <3> QED BY <1>0, <2>3, <2>4, <3>2
  <2> HIDE DEF restores
  <2>5. restores => Whole(Refunded \cup {c})
    BY <2>3 DEF restores
  <2> QED BY <1>3, <2>2, <2>4, <2>5, QuietKeepsCoupon DEF Step
<1>4. ASSUME NEW c \in Claims, ClawBack(c) \/ PayNothing(c) \/ PayBack(c) PROVE CouponFollows'
  <2>1. tx[c].at \in {"coupon", "clawed"} /\ UNCHANGED <<status, record, coupon>>
    BY <1>4 DEF ClawBack, PayNothing, PayBack
  <2>2. (tx'[c].restores <=> tx[c].restores) /\ tx'[c].points = tx[c].points
    <3>1. CASE ClawBack(c)
      <4>1. tx[c].taken = 0 /\ tx[c].short = 0
        BY <1>0, <3>1 DEF ClawBack, Stages
      <4>2. \E taken \in Nat, short \in Nat, account \in BOOLEAN :
               TakesBack(c, taken, short, account)
        BY <1>0, <3>1, <4>1, ClawBackIs
      <4>3. PICK taken \in Nat, short \in Nat, account \in BOOLEAN :
               TakesBack(c, taken, short, account)
        BY <4>2, Zenon
      <4>4. tx'[c] = [tx[c] EXCEPT !.at = "clawed", !.account = account,
                                   !.taken = taken, !.short = short]
        BY <1>0, <4>3 DEF TakesBack
      <4> QED BY <1>0, <4>4 DEF Transactions
    <3>2. CASE PayNothing(c) \/ PayBack(c)
      BY <1>0, <3>2 DEF PayNothing, PayBack, Transactions
    <3> QED BY <1>4, <3>1, <3>2
  <2> QED BY <1>4, <2>1, <2>2, CouponParts, QuietKeepsCoupon DEF Step
<1>5. ASSUME NEW c \in Claims, Commit(c) PROVE CouponFollows'
  <2>1. /\ Refunded' = Refunded \cup {c} /\ tx[c].at = "paid" /\ tx'[c] = Closed
        /\ record'[c].points = tx[c].points
        /\ \A d \in Claims : d # c => record'[d] = record[d]
    BY <1>5, CommitRecords
  <2>2. coupon' = IF tx[c].restores THEN "ISSUED" ELSE coupon
    BY <1>5 DEF Commit
  <2>3. Refunded' \in SUBSET Claims /\ Refunded \in SUBSET Refunded'
    BY <2>1 DEF Refunded
  <2>4. coupon' = "ISSUED" => Whole(Refunded')
    <3>1. Whole(Refunded) => Whole(Refunded')
      BY <2>3, MoreIsWhole
    <3> QED BY <2>1, <2>2, <3>1, CouponParts
  <2>5. ASSUME Whole(Claims), \A d \in Claims : record'[d].points > 0
        PROVE  coupon' = "ISSUED"
    <3>1. tx[c].points > 0 /\ \A d \in Claims \ {c} : record[d].points > 0
      BY <2>1, <2>5
    <3>2. tx[c].restores \/ coupon = "ISSUED"
      BY <2>1, <2>5, <3>1, CouponParts
    <3> QED BY <2>2, <3>2
  <2>6. ASSUME NEW d \in Claims, d # c, tx'[d].restores PROVE Whole(Refunded' \cup {d})
    <3>1. tx'[d] = tx[d]
      BY <1>0, <1>5, <2>6, OthersStay DEF Step
    <3>2. Whole(Refunded \cup {d})
      BY <2>6, <3>1, CouponParts
    <3>3. Refunded' \cup {d} \in SUBSET Claims /\ Refunded \cup {d} \in SUBSET (Refunded' \cup {d})
      BY <2>3
    <3> QED BY <3>2, <3>3, MoreIsWhole
  <2>7. ASSUME NEW d \in Claims, d # c,
               tx'[d].at \in {"coupon", "clawed", "paid"}, tx'[d].points > 0,
               Whole(Claims), \A e \in Claims \ {d} : record'[e].points > 0
        PROVE  FALSE
    <3>1. tx'[d] = tx[d]
      BY <1>0, <1>5, <2>7, OthersStay DEF Step
    <3>2. tx[d].account /\ tx[c].points > 0
      BY <1>0, <2>1, <2>7, <3>1 DEF Stages
    <3>3. tx[c].account
      BY <1>0, <3>2 DEF Stages
    <3> QED BY <2>7, <3>2, <3>3, AloneParts DEF BooksInv
  <2>8. ~tx'[c].restores /\ tx'[c].at = "closed"
    BY <2>1 DEF Closed
  <2> QED BY <2>4, <2>5, <2>6, <2>7, <2>8 DEF CouponFollows, Whole
<1>6. ASSUME Meanwhile \/ UNCHANGED vars PROVE CouponFollows'
  <2>1. UNCHANGED <<status, record, coupon, tx>>
    BY <1>6, MeanwhileIs DEF vars
  <2> QED BY <2>1 DEF CouponFollows, Whole, Refunded
<1> QED BY <1>1, <1>2, <1>3, <1>4, <1>5, <1>6 DEF Next, Step, Meanwhile

-----------------------------------------------------------------------------
LEMMA InitDiscounts == Init => DiscountInv
<1> SUFFICES ASSUME Init PROVE DiscountInv
  OBVIOUS
<1>1. \A c \in Claims : tx[c] = Closed /\ status[c] = "APPROVED" /\ record[c] = NoRecord
  BY DEF Init
<1>2. Refunded = {} /\ \A s : RefundedOf(s) = {}
  BY <1>1 DEF Refunded, RefundedOf
<1>3. Looked /\ Figures
  BY <1>1, <1>2 DEF Looked, Figures, Closed
<1>4. /\ Recorded({}) = 0 /\ PointsOf({}) = 0 /\ ClawedOf({}) = 0
  <2>1. /\ [d \in {} |-> record[d].amount] \in [{} -> Nat]
        /\ [d \in {} |-> record[d].points] \in [{} -> Nat]
        /\ [d \in {} |-> record[d].taken + record[d].short] \in [{} -> Nat]
    OBVIOUS
  <2> QED BY <2>1, TotalZero DEF Recorded, PointsOf, ClawedOf
<1>5. PointsAddUp
  <2>1. PointCut \in [Lines -> Nat]
    BY RefundsAssumption
  <2> QED BY <1>2, <1>4, <2>1, ThroughNothing DEF PointsAddUp
<1>6. ClawedAddUp
  <2> SUFFICES ASSUME NEW s \in Shares
               PROVE  0 = EarnedOn(s, PaidFor(s) - 0) - EarnedOn(s, PaidFor(s) - 0)
    <3>1. {} \cap unearned = {}
      OBVIOUS
    <3> QED BY <1>2, <1>4, <3>1 DEF ClawedAddUp
  <2>1. PaidFor(s) \in Nat
    BY PaidTypes
  <2>2. PaidFor(s) - 0 = PaidFor(s)
    BY <2>1
  <2>3. EarnedOn(s, PaidFor(s)) \in Nat
    BY <2>1, EarnedGrows
  <2> QED BY <2>2, <2>3
<1>7. CouponFollows
  <2>1. coupon = "USED" /\ Claims # {}
    BY RefundsAssumption DEF Init
  <2>2. \A c \in Claims : ~(record[c].points > 0)
    BY <1>1 DEF NoRecord
  <2>3. \A c \in Claims : ~tx[c].restores /\ tx[c].at = "closed"
    BY <1>1 DEF Closed
  <2> QED BY <2>1, <2>2, <2>3 DEF CouponFollows
<1> QED BY <1>3, <1>5, <1>6, <1>7 DEF DiscountInv

LEMMA StepKeepsDiscounts ==
    ASSUME BooksInv, BooksInv', DiscountInv, [Next]_vars
    PROVE  DiscountInv'
BY StepKeepsLooked, StepKeepsFigures, StepKeepsPointsAddUp, StepKeepsClawedAddUp, StepKeepsCoupon
   DEF DiscountInv

LEMMA DiscountsFollow ==
    ASSUME BooksInv, DiscountInv
    PROVE  DiscountsComeBack
<1>1. CouponFollows /\ PointsAddUp /\ ClawedAddUp
  BY DEF DiscountInv
<1>2. coupon = "ISSUED" => Whole(Refunded)
  BY <1>1 DEF CouponFollows
<1>3. ASSUME Whole(Refunded), \A c \in Claims : record[c].points > 0
      PROVE  coupon = "ISSUED"
  <2>1. Whole(Claims)
    BY <1>3, RefundedTypes, MoreIsWhole
  <2> QED BY <1>1, <1>3, <2>1, CouponParts
<1>4. ASSUME NEW s \in Shares
      PROVE  /\ AllRefunded(RefundedOf(s), s) =>
                   PointsOf(RefundedOf(s)) = Total([l \in LinesOf(s) |-> PointCut[l]])
             /\ ClawedOf(RefundedOf(s)) =
                   EarnedOn(s, PaidFor(s) - Recorded(Unclawed(s)))
                     - EarnedOn(s, PaidFor(s) - Recorded(RefundedOf(s)))
  <2>1. PointCut \in [Lines -> Nat] /\ RefundedOf(s) \in SUBSET Claims
    BY RefundsAssumption, RefundedTypes
  <2>2. AllRefunded(RefundedOf(s), s) =>
           Total([l \in LinesOf(s) |-> Through(l, PointCut[l], UnitsOf(RefundedOf(s), l))]) =
              Total([l \in LinesOf(s) |-> PointCut[l]])
    BY <2>1, ThroughAll
  <2>3. Unclawed(s) = RefundedOf(s) \cap unearned
    <3>1. s \notin earned => RefundedOf(s) \subseteq unearned
      BY DEF DiscountInv, Looked
    <3> QED BY <3>1 DEF Unclawed
  <2> QED BY <1>1, <2>2, <2>3 DEF PointsAddUp, ClawedAddUp
<1> QED BY <1>2, <1>3, <1>4 DEF DiscountsComeBack, PointsOf

(* The points the buyer paid with come back, whole for a share that is     *)
(* refunded whole; the points it earned are taken back, or noted as short, *)
(* as if the refunds that found them had been one claim on what the others *)
(* had left of the price, and nothing where none found them; and the       *)
(* coupon comes back when nothing it reached is kept, not before, and then *)
(* it does.                                                                *)
THEOREM DiscountsAreRestored == Spec => []DiscountsComeBack
<1>1. Spec => Init /\ [][Next]_vars
  BY DEF Spec
<1>2. BooksInv /\ BooksInv' /\ DiscountInv /\ [Next]_vars => DiscountInv'
  BY StepKeepsDiscounts
<1>3. BooksInv /\ DiscountInv => DiscountsComeBack
  BY DiscountsFollow
<1> QED BY <1>1, <1>2, <1>3, InitDiscounts, RefundInvariant, PTL

-----------------------------------------------------------------------------
(* Cancelling a share in parts.                                            *)

(* No refund of a cancel is cut off at nothing, in whatever order, and a   *)
(* share of which nothing is cancelled was charged what its lines call for.*)
NothingOwed ==
    /\ \A c \in Claims : \A C \in SUBSET (Claims \ {c}) :
          (/\ Type[c] = "CANCEL"
           /\ \A d \in C : Type[d] = "CANCEL" /\ ClaimShare[d] = ClaimShare[c])
             => ItemsAmount(C, c) + ShippingAmount(C, c) >= 0
    /\ \A s \in Shares : LinesOf(s) # {} /\ Adjustment({}, s) = 0

\* The refund that was computed is the one that follows on what is committed.
AmountsFollow ==
    \A c \in Claims : tx[c].at # "closed" => tx[c].amount = RefundOf(Before(c), c)

\* The cancels of a share come to what one cancel of all of it would.
CancelsFollow ==
    \A s \in Shares :
       (\A c \in RefundedOf(s) : Type[c] = "CANCEL") =>
          Recorded(RefundedOf(s)) =
             Total([l \in LinesOf(s) |-> Through(l, Net(l), UnitsOf(RefundedOf(s), l))])
               + Adjustment(RefundedOf(s), s)

CancelInv == AmountsFollow /\ CancelsFollow

LEMMA StepKeepsAmounts ==
    ASSUME BooksInv, AmountsFollow, [Next]_vars
    PROVE  AmountsFollow'
<1>0. tx \in [Claims -> Transactions] /\ RefundsTypeOK
  BY TypeParts DEF BooksInv
<1>1. ASSUME NEW c \in Claims, tx'[c].at # "closed",
             Before(c)' = Before(c), tx'[c].amount = RefundOf(Before(c), c)
      PROVE  tx'[c].amount = RefundOf(Before(c), c)'
  <2>1. \A C, D : C = D => RefundOf(C, c) = RefundOf(D, c)
    OBVIOUS
  <2>2. RefundOf(Before(c), c)' = RefundOf(Before(c), c)
    BY <1>1 DEF RefundOf, ItemsAmount, ShippingAmount, Adjustment, AllRefunded, Remaining,
                KeptBasis, ShareWith, UnitsOf
  <2> QED BY <1>1, <2>2
<1> SUFFICES ASSUME NEW c \in Claims, tx'[c].at # "closed"
             PROVE  Before(c)' = Before(c) /\ tx'[c].amount = RefundOf(Before(c), c)
  BY <1>1 DEF AmountsFollow
<1>2. CASE Begin(c)
  <2>1. tx'[c] = [Closed EXCEPT !.at = "begun", !.amount = RefundOf(Before(c), c)]
    BY <1>0, <1>2 DEF Begin
  <2>2. tx'[c].amount = RefundOf(Before(c), c)
    BY <2>1 DEF Closed
  <2>3. Before(c)' = Before(c)
    BY <1>2 DEF Begin, Before, RefundedOf, Refunded
  <2> QED BY <2>2, <2>3
<1>3. CASE ~Begin(c)
  <2>1. tx'[c].amount = tx[c].amount /\ c \in Open /\ ~Commit(c)
    <3>1. ~Refused(c) /\ ~Lose(c) /\ ~Commit(c)
      BY <1>0 DEF Refused, Lose, Commit, Closed
    <3>2. CASE tx'[c] = tx[c]
      BY <3>1, <3>2 DEF Open
    <3>3. CASE tx'[c] # tx[c]
      <4>1. ~Meanwhile /\ ~UNCHANGED vars
        BY <3>3, MeanwhileIs DEF vars
      <4>2. PICK d \in Claims : Step(d) \/ Lose(d)
        BY <4>1 DEF Next, Meanwhile
      <4>3. d = c
        BY <1>0, <3>3, <4>2, OthersStay
      <4>4. CASE ClawBack(c)
        <5>1. tx[c].at = "coupon" /\ tx[c].taken = 0 /\ tx[c].short = 0
          BY <4>4 DEF ClawBack, BooksInv, Stages
        <5>2. \E taken \in Nat, short \in Nat, account \in BOOLEAN :
                 TakesBack(c, taken, short, account)
          BY <1>0, <4>4, <5>1, ClawBackIs
        <5>3. PICK taken \in Nat, short \in Nat, account \in BOOLEAN :
                 TakesBack(c, taken, short, account)
          BY <5>2, Zenon
        <5>4. tx'[c] = [tx[c] EXCEPT !.at = "clawed", !.account = account,
                                     !.taken = taken, !.short = short]
          BY <1>0, <5>3 DEF TakesBack
        <5>5. tx'[c].amount = tx[c].amount
          BY <1>0, <5>4 DEF Transactions
        <5> QED BY <3>1, <5>1, <5>5 DEF Open
      <4>5. CASE RestorePoints(c) \/ RestoreCoupon(c) \/ PayNothing(c) \/ PayBack(c)
        <5>1. tx'[c].amount = tx[c].amount
          BY <1>0, <4>5 DEF RestorePoints, RestoreCoupon, PayNothing, PayBack, Transactions
        <5>2. c \in Open
          BY <4>5 DEF RestorePoints, RestoreCoupon, PayNothing, PayBack, Open
        <5> QED BY <3>1, <5>1, <5>2
      <4> QED BY <1>3, <3>1, <4>2, <4>3, <4>4, <4>5 DEF Step
    <3> QED BY <3>2, <3>3
  <2>2. Before(c)' = Before(c)
    BY <2>1, BeforeIsKept
  <2>3. tx[c].at # "closed"
    BY <2>1 DEF Open
  <2> QED BY <2>1, <2>2, <2>3 DEF AmountsFollow
<1> QED BY <1>2, <1>3

LEMMA AdjustmentType ==
    ASSUME NEW s \in Shares, NEW C
    PROVE  Adjustment(C, s) \in Int
<1>1. Charged[s] \in Nat /\ Standard[s] \in Nat
  BY ShareFacts
<1>2. Standard[s] - Charged[s] \in Int
  BY <1>1
<1>3. -Max({0, Standard[s] - Charged[s]}) \in Int
  <2>1. Max({0, Standard[s] - Charged[s]}) \in Nat
    BY <1>2, AtLeastZero
  <2> QED BY <2>1
<1> QED BY <1>1, <1>3 DEF Adjustment

LEMMA StepKeepsCancels ==
    ASSUME NothingOwed, BooksInv, BooksInv', AmountsFollow, CancelsFollow, [Next]_vars
    PROVE  CancelsFollow'
<1> DEFINE Items(C, s) == Total([l \in LinesOf(s) |-> Through(l, Net(l), UnitsOf(C, l))])
           Due(C, s) == Items(C, s) + Adjustment(C, s)
<1>0. \A s \in Shares : (\A c \in RefundedOf(s) : Type[c] = "CANCEL") =>
         Recorded(RefundedOf(s)) = Due(RefundedOf(s), s)
  BY DEF CancelsFollow
<1> SUFFICES ASSUME NEW s \in Shares, \A c \in RefundedOf(s)' : Type[c] = "CANCEL"
             PROVE  Recorded(RefundedOf(s))' = Due(RefundedOf(s)', s)
  BY DEF CancelsFollow, Adjustment, AllRefunded, Remaining, KeptBasis, UnitsOf, Through, Net,
         LinesOf, Total
<1>1. ASSUME NEW c \in Claims, Commit(c), ClaimShare[c] = s
      PROVE  Recorded(RefundedOf(s))' = Due(RefundedOf(s)', s)
  <2> DEFINE C == RefundedOf(s)
             a == [l \in Lines |-> Net(l)]
  <2>1. /\ C = Before(c) /\ C' = C \cup {c} /\ C \in SUBSET Claims /\ Recorded(C) \in Nat
        /\ Recorded(C)' = Recorded(C) + tx[c].amount
    BY <1>1, RecordsWith DEF Before
  <2>2. c \notin C /\ \A d \in C : Type[d] = "CANCEL" /\ ClaimShare[d] = ClaimShare[c]
    BY <1>1, <2>1, CommitRecords DEF RefundedOf
  <2>3. Type[c] = "CANCEL"
    BY <2>1
  <2>4. Recorded(C) = Due(C, s)
    BY <1>0, <2>2
  <2>5. tx[c].amount = RefundOf(C, c)
    BY <1>1, <2>1 DEF AmountsFollow, Commit
  <2> HIDE DEF C
  <2>6. tx[c].amount = ItemsAmount(C, c) + ShippingAmount(C, c)
    <3>1. C \in SUBSET (Claims \ {c})
      BY <2>1, <2>2
    <3>2. ItemsAmount(C, c) + ShippingAmount(C, c) >= 0
      BY <2>2, <2>3, <3>1 DEF NothingOwed
    <3>3. ItemsAmount(C, c) \in Nat /\ ShippingAmount(C, c) \in Int
      BY <2>1, AmountTypes
    <3> DEFINE x == ItemsAmount(C, c) + ShippingAmount(C, c)
    <3>4. x \in Int /\ x >= 0 /\ RefundOf(C, c) = Max({0, x})
      BY <3>2, <3>3 DEF RefundOf
    <3> HIDE DEF x
    <3>5. RefundOf(C, c) = x
      BY <3>4, AtLeastZero
    <3> QED BY <2>5, <3>5 DEF x
  <2>7. ShippingAmount(C, c) = Adjustment(C \cup {c}, s) - Adjustment(C, s)
    BY <1>1, <2>3 DEF ShippingAmount
  <2>8. Items(C \cup {c}, s) = Items(C, s) + ItemsAmount(C, c)
    <3>1. a \in [Lines -> Nat] /\ LinesOf(s) \in SUBSET Lines
      BY LineFacts, ShareFacts
    <3>2. /\ [l \in LinesOf(s) |-> Through(l, Net(l), UnitsOf(C, l))] =
                [l \in LinesOf(s) |-> Through(l, a[l], UnitsOf(C, l))]
          /\ [l \in LinesOf(s) |-> Through(l, Net(l), UnitsOf(C \cup {c}, l))] =
                [l \in LinesOf(s) |-> Through(l, a[l], UnitsOf(C \cup {c}, l))]
          /\ [l \in LinesOf(s) |-> ShareWith(l, Net(l), C, c)] =
                [l \in LinesOf(s) |-> ShareWith(l, a[l], C, c)]
      BY <3>1
    <3>3. ItemsAmount(C, c) = Total([l \in LinesOf(s) |-> ShareWith(l, Net(l), C, c)])
      BY <1>1 DEF ItemsAmount
    <3> HIDE DEF a
    <3>4. Total([l \in LinesOf(s) |-> Through(l, a[l], UnitsOf(C \cup {c}, l))]) =
             Total([l \in LinesOf(s) |-> Through(l, a[l], UnitsOf(C, l))])
               + Total([l \in LinesOf(s) |-> ShareWith(l, a[l], C, c)])
      BY <2>1, <3>1, ThroughAddsUp
    <3> QED BY <3>2, <3>3, <3>4
  <2>9. Items(C, s) \in Int /\ Adjustment(C, s) \in Int /\ Adjustment(C \cup {c}, s) \in Int
    <3>1. Adjustment(C, s) \in Int /\ Adjustment(C \cup {c}, s) \in Int
      BY AdjustmentType
    <3>2. [l \in LinesOf(s) |-> Through(l, Net(l), UnitsOf(C, l))] \in [LinesOf(s) -> Nat]
      <4> SUFFICES ASSUME NEW l \in LinesOf(s) PROVE Through(l, Net(l), UnitsOf(C, l)) \in Nat
        OBVIOUS
      <4>1. l \in Lines /\ Net(l) \in Nat
        BY ShareFacts, LineFacts
      <4>2. UnitsOf(C, l) \in Nat
        BY <2>1, <4>1, UnitsTypes
      <4> QED BY <4>1, <4>2, ThroughGrows
    <3> QED BY <3>1, <3>2, ShareFacts, TotalType
  <2>10. ItemsAmount(C, c) \in Nat
    BY <2>1, AmountTypes
  <2> HIDE DEF Items
  <2>11. Recorded(C)' = Due(C \cup {c}, s)
    BY <2>1, <2>4, <2>6, <2>7, <2>8, <2>9, <2>10
  <2> HIDE DEF Due
  <2>12. Recorded(C)' = Due(C', s)
    BY <2>1, <2>11
  <2> QED BY <2>12 DEF C
<1>2. CASE \A c \in Claims : Commit(c) => ClaimShare[c] # s
  <2>1. /\ RefundedOf(s)' = RefundedOf(s)
        /\ Recorded(RefundedOf(s))' = Recorded(RefundedOf(s))
    BY <1>2, RecordsKept
  <2> HIDE DEF Due
  <2> QED BY <1>0, <2>1
<1> QED BY <1>1, <1>2, CommitOrKept

LEMMA InitCancels ==
    ASSUME NothingOwed, Init
    PROVE  CancelInv
<1>1. \A c \in Claims : tx[c] = Closed /\ status[c] = "APPROVED"
  BY DEF Init
<1>2. \A s : RefundedOf(s) = {}
  BY <1>1 DEF Refunded, RefundedOf
<1>3. AmountsFollow
  BY <1>1 DEF AmountsFollow, Closed
<1>4. Recorded({}) = 0
  <2>1. [d \in {} |-> record[d].amount] \in [{} -> Nat]
    OBVIOUS
  <2> QED BY <2>1, TotalZero DEF Recorded
<1>5. ASSUME NEW s \in Shares
      PROVE  Total([l \in LinesOf(s) |-> Through(l, Net(l), UnitsOf({}, l))]) = 0
  <2> DEFINE a == [l \in Lines |-> Net(l)]
  <2>1. a \in [Lines -> Nat] /\ LinesOf(s) \in SUBSET Lines
    BY LineFacts, ShareFacts
  <2>2. [l \in LinesOf(s) |-> Through(l, Net(l), UnitsOf({}, l))] =
           [l \in LinesOf(s) |-> Through(l, a[l], UnitsOf({}, l))]
    BY <2>1
  <2> HIDE DEF a
  <2> QED BY <2>1, <2>2, ThroughNothing
<1>6. \A s \in Shares : Adjustment({}, s) = 0
  BY DEF NothingOwed
<1>7. CancelsFollow
  <2> SUFFICES ASSUME NEW s \in Shares
               PROVE  Recorded({}) = Total([l \in LinesOf(s) |-> Through(l, Net(l), UnitsOf({}, l))])
                                       + Adjustment({}, s)
    BY <1>2 DEF CancelsFollow
  <2> QED BY <1>4, <1>5, <1>6
<1> QED BY <1>3, <1>7 DEF CancelInv

LEMMA CancelsFollowed ==
    ASSUME CancelInv
    PROVE  CancelsAddUp
<1> SUFFICES ASSUME NEW s \in Shares, AllRefunded(RefundedOf(s), s),
                    \A c \in RefundedOf(s) : Type[c] = "CANCEL"
             PROVE  Recorded(RefundedOf(s)) = PaidFor(s)
  BY DEF CancelsAddUp
<1> DEFINE C == RefundedOf(s)
           a == [l \in Lines |-> Net(l)]
<1>1. Recorded(C) = Total([l \in LinesOf(s) |-> Through(l, Net(l), UnitsOf(C, l))])
                      + Adjustment(C, s)
  BY DEF CancelInv, CancelsFollow
<1>2. Adjustment(C, s) = Charged[s] /\ Charged[s] \in Nat
  BY ShareFacts DEF Adjustment
<1>3. Total([l \in LinesOf(s) |-> Through(l, Net(l), UnitsOf(C, l))]) =
         Total([l \in LinesOf(s) |-> Net(l)])
  <2>1. a \in [Lines -> Nat] /\ LinesOf(s) \in SUBSET Lines /\ C \in SUBSET Claims
    BY LineFacts, ShareFacts, RefundedTypes
  <2>2. /\ [l \in LinesOf(s) |-> Through(l, Net(l), UnitsOf(C, l))] =
              [l \in LinesOf(s) |-> Through(l, a[l], UnitsOf(C, l))]
        /\ [l \in LinesOf(s) |-> Net(l)] = [l \in LinesOf(s) |-> a[l]]
    BY <2>1
  <2> HIDE DEF a
  <2> QED BY <2>1, <2>2, ThroughAll
<1>4. Total([l \in LinesOf(s) |-> Net(l)]) \in Nat
  <2>1. [l \in LinesOf(s) |-> Net(l)] \in [LinesOf(s) -> Nat]
    BY ShareFacts, LineFacts
  <2> QED BY <2>1, ShareFacts, TotalType
<1> QED BY <1>1, <1>2, <1>3, <1>4 DEF PaidFor

(* Where no refund of a cancel would come to less than nothing, the        *)
(* refunds of a share that is cancelled whole add up to what was paid for  *)
(* it, in however many claims and in whatever order they are refunded.     *)
(* The other case is the run refund_sum: what is owed is then not asked    *)
(* for, and the refunds come to more.                                      *)
THEOREM CancelsAddUpUnlessOwed == NothingOwed => (Spec => []CancelsAddUp)
<1> SUFFICES ASSUME NothingOwed PROVE Spec => []CancelsAddUp
  OBVIOUS
<1>1. Spec => Init /\ [][Next]_vars
  BY DEF Spec
<1>2. Init => CancelInv
  BY InitCancels
<1>3. BooksInv /\ BooksInv' /\ CancelInv /\ [Next]_vars => CancelInv'
  BY StepKeepsAmounts, StepKeepsCancels DEF CancelInv
<1>4. CancelInv => CancelsAddUp
  BY CancelsFollowed
<1> QED BY <1>1, <1>2, <1>3, <1>4, RefundInvariant, PTL

\* Shipping that is not charged again for what is left.
NeverChargedAgain ==
    \A s \in Shares : /\ LinesOf(s) # {}
                      /\ Threshold[s] = NoThreshold \/ Standard[s] <= Charged[s]

LEMMA NothingIsOwed ==
    ASSUME NeverChargedAgain
    PROVE  NothingOwed
<1>1. ASSUME NEW s \in Shares, NEW C, ~AllRefunded(C, s) PROVE Adjustment(C, s) = 0
  <2>1. CASE Threshold[s] # NoThreshold /\ Remaining(C, s) < Threshold[s]
    <3>1. Charged[s] \in Nat /\ Standard[s] \in Nat /\ Standard[s] <= Charged[s]
      BY <2>1, ShareFacts DEF NeverChargedAgain
    <3>2. Standard[s] - Charged[s] \in Int /\ Standard[s] - Charged[s] <= 0
      BY <3>1
    <3>3. Max({0, Standard[s] - Charged[s]}) = 0
      BY <3>2, AtLeastZero
    <3> DEFINE due == Max({0, Standard[s] - Charged[s]})
    <3>4. Adjustment(C, s) = IF AllRefunded(C, s) THEN Charged[s]
                             ELSE IF /\ Threshold[s] # NoThreshold
                                     /\ Remaining(C, s) < Threshold[s]
                             THEN -due ELSE 0
      BY DEF Adjustment
    <3>5. due = 0
      BY <3>3
    <3> HIDE DEF due
    <3>6. -due = 0
      <4>1. -due \in Int /\ -due <= 0 /\ -due >= 0
        BY <3>5
      <4>2. \A e \in Int : e <= 0 /\ e >= 0 => e = 0
        OBVIOUS
      <4> QED BY <4>1, <4>2, Zenon
    <3>7. Adjustment(C, s) = -due
      BY <1>1, <2>1, <3>4, Zenon
    <3> QED BY <3>6, <3>7
  <2>2. CASE ~(Threshold[s] # NoThreshold /\ Remaining(C, s) < Threshold[s])
    BY <1>1, <2>2 DEF Adjustment
  <2> QED BY <2>1, <2>2
<1>2. ASSUME NEW s \in Shares, NEW C, AllRefunded(C, s) PROVE Adjustment(C, s) = Charged[s]
  BY <1>2 DEF Adjustment
<1>3. ASSUME NEW s \in Shares PROVE LinesOf(s) # {} /\ Adjustment({}, s) = 0
  <2>1. PICK l \in LinesOf(s) : TRUE
    BY DEF NeverChargedAgain
  <2>2. l \in Lines /\ UnitsOf({}, l) = 0 /\ Quantity[l] \in Nat \ {0}
    BY ShareFacts, UnitsTypes, LineFacts
  <2>3. ~AllRefunded({}, s)
    BY <2>2 DEF AllRefunded
  <2> QED BY <1>1, <2>1, <2>3
<1>4. ASSUME NEW c \in Claims, NEW C \in SUBSET (Claims \ {c}), Type[c] = "CANCEL"
      PROVE  ItemsAmount(C, c) + ShippingAmount(C, c) >= 0
  <2> DEFINE s == ClaimShare[c]
  <2>1. s \in Shares /\ Charged[s] \in Nat /\ ItemsAmount(C, c) \in Nat
    BY ClaimFacts, ShareFacts, AmountTypes
  <2>2. ShippingAmount(C, c) = Adjustment(C \cup {c}, s) - Adjustment(C, s)
    BY <1>4 DEF ShippingAmount
  <2>3. AllRefunded(C, s) => AllRefunded(C \cup {c}, s)
    BY MoreIsRefunded
  <2> HIDE DEF s
  <2>4. Adjustment(C \cup {c}, s) - Adjustment(C, s) >= 0
    <3>1. CASE AllRefunded(C, s)
      BY <1>2, <2>1, <2>3, <3>1
    <3>2. CASE ~AllRefunded(C, s) /\ AllRefunded(C \cup {c}, s)
      BY <1>1, <1>2, <2>1, <3>2
    <3>3. CASE ~AllRefunded(C \cup {c}, s)
      BY <1>1, <2>1, <2>3, <3>3
    <3> QED BY <3>1, <3>2, <3>3
  <2>5. Adjustment(C \cup {c}, s) \in Int /\ Adjustment(C, s) \in Int
    BY <2>1, AdjustmentType
  <2> QED BY <2>1, <2>2, <2>4, <2>5
<1> QED BY <1>3, <1>4 DEF NothingOwed

(* In particular they add up where no share has a threshold for free       *)
(* shipping, and where every share was charged the seller's fee.           *)
THEOREM CancelsAddUpAsCharged == NeverChargedAgain => (Spec => []CancelsAddUp)
BY NothingIsOwed, CancelsAddUpUnlessOwed

-----------------------------------------------------------------------------
(* One refund at a time.                                                   *)

\* What falls short of the points due was not there to be taken.
TakesMost ==
    \A c \in Claims :
       tx[c].taken > 0 /\ tx[c].short > 0 => tx[c].taken = balance + tx[c].points

LEMMA StepKeepsMost ==
    ASSUME RefundsTypeOK, Stages, Alone, TakesMost, [Next]_vars
    PROVE  TakesMost'
<1> DEFINE Most(c) == tx[c].taken > 0 /\ tx[c].short > 0 => tx[c].taken = balance + tx[c].points
<1>0. /\ tx \in [Claims -> Transactions] /\ balance \in Nat
      /\ \A c \in Claims : tx[c] \in Transactions
  BY TypeParts
<1>1. (TakesMost <=> \A c \in Claims : Most(c)) /\ (TakesMost' <=> \A c \in Claims : Most(c)')
  BY DEF TakesMost
<1>2. ASSUME NEW c \in Claims, Step(c) \/ Lose(c), balance' = balance, Most(c)'
      PROVE  TakesMost'
  <2>1. ASSUME NEW d \in Claims, d # c PROVE Most(d)'
    <3>1. tx'[d] = tx[d]
      BY <1>2, <2>1, OthersStay
    <3> QED BY <1>1, <1>2, <3>1
  <2> QED BY <1>1, <1>2, <2>1
<1>3. ASSUME NEW c \in Claims, Begin(c) \/ Refused(c) \/ Lose(c) PROVE TakesMost'
  <2>1. \/ tx'[c] = [Closed EXCEPT !.at = "begun", !.amount = RefundOf(Before(c), c)]
        \/ tx'[c] = Closed
    BY <1>0, <1>3 DEF Begin, Refused, Lose
  <2>2. tx'[c].taken = 0
    BY <2>1, OpenedOrClosed
  <2>3. balance' = balance
    BY <1>3 DEF Begin, Refused, Lose
  <2> QED BY <1>2, <1>3, <2>2, <2>3 DEF Step
<1>4. ASSUME NEW c \in Claims, RestorePoints(c) \/ RestoreCoupon(c) PROVE TakesMost'
  <2>1. tx[c].taken = 0
    BY <1>4 DEF RestorePoints, RestoreCoupon, Stages
  <2>2. tx'[c].taken = tx[c].taken /\ balance' = balance
    BY <1>0, <1>4 DEF RestorePoints, RestoreCoupon, Transactions
  <2> QED BY <1>2, <1>4, <2>1, <2>2 DEF Step
<1>5. ASSUME NEW c \in Claims, ClawBack(c) PROVE TakesMost'
  <2>1. tx[c].taken = 0 /\ tx[c].short = 0 /\ balance' = balance
    BY <1>5 DEF ClawBack, Stages
  <2>2. \E taken \in Nat, short \in Nat, account \in BOOLEAN :
           TakesBack(c, taken, short, account)
    BY <1>5, <2>1, ClawBackIs
  <2>3. PICK taken \in Nat, short \in Nat, account \in BOOLEAN :
           TakesBack(c, taken, short, account)
    BY <2>2, Zenon
  <2>4. /\ tx'[c] = [tx[c] EXCEPT !.at = "clawed", !.account = account,
                                  !.taken = taken, !.short = short]
    BY <1>0, <2>3 DEF TakesBack
  <2>5. taken > 0 /\ short > 0 => taken = balance + tx[c].points
    BY <2>3, Zenon DEF TakesBack
  <2>6. tx'[c].taken = taken /\ tx'[c].short = short /\ tx'[c].points = tx[c].points
    BY <1>0, <2>4 DEF Transactions
  <2> QED BY <1>2, <1>5, <2>1, <2>5, <2>6 DEF Step
<1>6. ASSUME NEW c \in Claims, PayNothing(c) \/ PayBack(c) PROVE TakesMost'
  <2>1. /\ tx'[c].taken = tx[c].taken /\ tx'[c].short = tx[c].short
        /\ tx'[c].points = tx[c].points /\ balance' = balance
    BY <1>0, <1>6 DEF PayNothing, PayBack, Transactions
  <2>2. Most(c)
    BY <1>1
  <2> QED BY <1>2, <1>6, <2>1, <2>2 DEF Step
<1>7. ASSUME NEW c \in Claims, Commit(c) PROVE TakesMost'
  <2>1. tx'[c].taken = 0
    BY <1>0, <1>7 DEF Commit, Closed
  <2>2. ASSUME NEW d \in Claims, d # c PROVE Most(d)'
    <3>1. tx'[d] = tx[d] /\ Most(d)
      BY <1>1, <1>7, <2>2, OthersStay DEF Step
    <3>2. tx[d].taken > 0 => balance' = balance
      BY <1>7, <2>2, AccountIsKept DEF Stages
    <3> QED BY <3>1, <3>2
  <2> QED BY <1>1, <2>1, <2>2
<1>8. ASSUME Meanwhile PROVE TakesMost'
  <2>1. tx' = tx /\ AccountFree
    BY <1>8, MeanwhileIs
  <2>2. \A c \in Claims : ~tx[c].account
    BY <2>1, ClosedHoldsNothing DEF AccountFree
  <2>3. \A c \in Claims : ~(tx[c].taken > 0)
    BY <2>2 DEF Stages
  <2> QED BY <2>1, <2>3 DEF TakesMost
<1>9. ASSUME UNCHANGED vars PROVE TakesMost'
  BY <1>9 DEF TakesMost, vars
<1> QED BY <1>3, <1>4, <1>5, <1>6, <1>7, <1>8, <1>9 DEF Next, Step, Meanwhile

SerialInv == BooksInv /\ DiscountInv /\ AmountsFollow /\ TakesMost

LEMMA InitSerial == Init => SerialInv /\ Serial!SerialInit
<1> SUFFICES ASSUME Init PROVE SerialInv /\ Serial!SerialInit
  OBVIOUS
<1>1. BooksInv /\ DiscountInv
  BY InitBooks, InitDiscounts
<1>2. \A c \in Claims : tx[c].at = "closed" /\ tx[c].taken = 0
  BY DEF Init, Closed
<1>3. AmountsFollow /\ TakesMost
  BY <1>2 DEF AmountsFollow, TakesMost
<1>4. Serial!SerialInit
  BY DEF Init, NoRecord, Serial!SerialInit
<1> QED BY <1>1, <1>3, <1>4 DEF SerialInv

\* What a transaction commits is what the refund comes to there and then.
LEMMA CommitIsRefund ==
    ASSUME SerialInv, NEW c \in Claims, Commit(c)
    PROVE  Serial!RefundNow(c)
<1> DEFINE before == Before(c)
           t      == tx[c]
           found  == c \notin unearned
           due    == DueFor(c, t.amount)
<1>1. RefundsTypeOK /\ Stages /\ Covered /\ BooksMatch /\ Looked /\ Figures /\ CouponFollows
  BY DEF SerialInv, BooksInv, DiscountInv
<1>2. /\ tx[c] \in Transactions /\ balance \in Nat /\ canceled \in Nat
      /\ t.amount \in Nat /\ t.points \in Nat /\ t.taken \in Nat /\ t.short \in Nat
  BY <1>1, TypeParts, TransactionFields
<1>3. t.at = "paid" /\ status[c] = "APPROVED"
  BY <1>1 DEF Commit, Stages
<1>4. Serial!MadeOf(ClaimShare[c]) = before /\ Serial!Made = Refunded
  BY DEF Serial!MadeOf, Serial!Made, Before, RefundedOf, Refunded
<1>5. t.amount = RefundOf(before, c)
  BY <1>3 DEF SerialInv, AmountsFollow
<1>6. t.points = PointsBack(before, c)
  BY <1>1, <1>3 DEF Figures
<1>7. t.taken + t.short = due
  BY <1>1, <1>3 DEF Figures
<1>8. t.amount <= Captured - canceled
  <2>1. CASE t.amount > 0
    BY <1>1, <1>3, <2>1 DEF Covered
  <2>2. CASE t.amount = 0
    <3>1. canceled <= Captured /\ Captured \in Nat
      BY <1>1, PaidTypes DEF BooksMatch
    <3> QED BY <1>2, <2>2, <3>1
  <2> QED BY <1>2, <2>1, <2>2
<1>9. t.taken \in Serial!Takes(due, balance + t.points) /\ t.short = due - t.taken
  <2>1. /\ t.taken > 0 => t.taken <= balance + t.points
        /\ t.taken > 0 /\ t.short > 0 => t.taken = balance + t.points
    BY <1>1 DEF Covered, SerialInv, TakesMost
  <2> HIDE DEF due, t
  <2> QED BY <1>2, <1>7, <2>1 DEF Serial!Takes
<1>10. coupon' \in {coupon} \cup (IF Whole(Refunded \cup {c}) THEN {"ISSUED"} ELSE {})
  BY <1>1 DEF Commit, CouponFollows
<1>11. /\ status' = [status EXCEPT ![c] = "REFUNDED"]
       /\ record' = [record EXCEPT ![c] = [amount |-> t.amount, points |-> t.points,
                                           taken |-> t.taken, short |-> t.short]]
       /\ canceled' = canceled + t.amount
       /\ balance' = balance + t.points - t.taken
  BY DEF Commit
<1>12. due = Serial!Due(c, found, t.amount)
  BY <1>4 DEF DueFor, Recorded, Serial!Due
<1>13. found \in Serial!Found(c)
  <2>1. IF c \in unearned THEN before \subseteq unearned ELSE ClaimShare[c] \in earned
    BY <1>1, <1>3 DEF Looked
  <2>2. before \subseteq Refunded
    BY RefundedTypes DEF Before
  <2> QED BY <1>4, <2>1, <2>2 DEF Serial!Found
<1>14. /\ (unearned \cap Refunded)' = IF found THEN unearned \cap Refunded
                                            ELSE (unearned \cap Refunded) \cup {c}
       /\ UNCHANGED earned
  <2>1. UNCHANGED <<earned, unearned>>
    BY DEF Commit
  <2>2. Refunded' = Refunded \cup {c}
    BY CommitRecords DEF SerialInv
  <2> QED BY <2>1, <2>2
<1> HIDE DEF before, t, found, due
<1> QED BY <1>3, <1>4, <1>5, <1>6, <1>8, <1>9, <1>10, <1>11, <1>12, <1>13, <1>14
        DEF Serial!RefundNow

\* Every other step of a transaction is its own business.
LEMMA OtherIsNothing ==
    ASSUME BooksInv, [Next]_vars, \A c \in Claims : ~Commit(c)
    PROVE  \/ Serial!SpendPoints \/ (\E s \in Shares : Serial!EarnPoints(s))
           \/ UNCHANGED Serial!serialVars
<1>0. UNCHANGED <<status, record, canceled, coupon>>
  BY SomebodySteps
<1>1. (unearned \cap Refunded)' = unearned \cap Refunded
  <2>1. Refunded' = Refunded
    BY <1>0 DEF Refunded
  <2> QED BY <2>1, MarksAreKept
<1>2. ASSUME NEW c \in Claims, Step(c) \/ Lose(c) PROVE UNCHANGED <<balance, earned>>
  BY <1>2 DEF Step, Begin, RestorePoints, RestoreCoupon, ClawBack, PayNothing, PayBack,
              Refused, Lose
<1>3. CASE Spend
  BY <1>0, <1>1, <1>3 DEF Spend, Serial!SpendPoints
<1>4. ASSUME NEW s \in Shares, Earn(s) PROVE Serial!EarnPoints(s)
  BY <1>0, <1>1, <1>4 DEF Earn, Serial!EarnPoints
<1>5. CASE UNCHANGED vars
  BY <1>0, <1>1, <1>5 DEF vars, Serial!serialVars
<1> QED BY <1>0, <1>1, <1>2, <1>3, <1>4, <1>5 DEF Next, Serial!serialVars

(* Refunds whose transactions overlap on one order, wait for its point     *)
(* account and its payment, are refused or lost and tried again, come to   *)
(* what refunds made one at a time come to.                                *)
THEOREM RefundsAreMadeInTurn == Spec => RefundsAreSerial
<1>1. Spec => Init /\ [][Next]_vars
  BY DEF Spec
<1>2. SerialInv /\ [Next]_vars => SerialInv'
  <2>1. BooksInv /\ [Next]_vars => BooksInv'
    BY StepKeepsBooksInv
  <2>2. SerialInv /\ [Next]_vars => TakesMost'
    BY StepKeepsMost DEF SerialInv, BooksInv
  <2> QED BY <2>1, <2>2, StepKeepsDiscounts, StepKeepsAmounts DEF SerialInv
<1>3. SerialInv /\ [Next]_vars => [Serial!SerialNext]_Serial!serialVars
  BY CommitIsRefund, OtherIsNothing DEF Serial!SerialNext, SerialInv
<1> QED BY <1>1, <1>2, <1>3, InitSerial, PTL DEF RefundsAreSerial, Serial!SerialSpec

=============================================================================
