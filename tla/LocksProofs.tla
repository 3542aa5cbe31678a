----------------------------- MODULE LocksProofs -----------------------------
(***************************************************************************)
(* The requests that take stock never wait for each other in a circle, for *)
(* any number of sessions and any rows, unless one is a seller's edit of   *)
(* several variants, the end of a demo account, or the sweep.              *)
(*                                                                         *)
(* Rows are ordered by their table (an order, a hold, a variant, a share)  *)
(* and then by their id.  Every transaction but those locks its rows       *)
(* in that order, so a session waits for a row above all it has: if t      *)
(* waits for u, the row u waits for is above the one t waits for.  In a    *)
(* circle of waiting sessions none of the rows waited for could be the     *)
(* highest.                                                                *)
(***************************************************************************)
EXTENDS Locks, DataProofs

Tables == {"order", "hold", "variant", "share"}

Rank == [order |-> 1, hold |-> 2, variant |-> 3, share |-> 4]

Ids == VariantIds \cup HoldIds \cup OrderIds \cup SellerOrderIds

LockRows == [table : Tables, id : Ids]

Below(a, b) ==
    Rank[a.table] < Rank[b.table] \/ (a.table = b.table /\ a.id < b.id)

\* Rows of the tables ranked low to high, each above those before it.
Climbs(list, low, high) ==
    /\ list \in Seq(LockRows)
    /\ \A i \in DOMAIN list : low <= Rank[list[i].table] /\ Rank[list[i].table] <= high
    /\ \A i, j \in DOMAIN list : i < j => Below(list[i], list[j])

AboveHeld(t) == \A r \in held[t] : \A i \in DOMAIN todo[t] : Below(r, todo[t][i])

LocksInv ==
    /\ todo = [t \in Sessions |-> todo[t]] /\ held = [t \in Sessions |-> held[t]]
    /\ loose \subseteq Sessions
    /\ \A t \in Sessions \ loose : Climbs(todo[t], 1, 4) /\ AboveHeld(t)

-----------------------------------------------------------------------------
(* What the transactions lock.                                             *)

LEMMA RanksAreNumbers == \A t \in Tables : Rank[t] \in 1 .. 4
BY DEF Rank, Tables

LEMMA RowsHaveRanks == \A r \in LockRows : Rank[r.table] \in 1 .. 4
<1> SUFFICES ASSUME NEW r \in LockRows PROVE Rank[r.table] \in 1 .. 4
  OBVIOUS
<1>1. r.table \in Tables
  BY DEF LockRows
<1> QED BY <1>1, RanksAreNumbers

LEMMA IdsAreNumbers == Ids \in SUBSET Nat /\ IsFiniteSet(Ids)
BY LocksAssumption, FS_Union DEF Ids

\* Rows of one table, by id.
LEMMA RowsClimb ==
    ASSUME NEW S \in SUBSET Ids, NEW table \in Tables
    PROVE  Climbs(Rows(table, InIdOrder(S)), Rank[table], Rank[table])
<1> DEFINE ids == InIdOrder(S)
           n == Cardinality(S)
<1>1. S \in SUBSET Nat /\ IsFiniteSet(S)
  BY IdsAreNumbers, FS_Subset
<1>2. n \in Nat /\ ids \in [1 .. n -> S] /\ Ascending(ids)
  BY <1>1, InIdOrderLists DEF Lists
<1> HIDE DEF n, ids
<1> DEFINE list == Rows(table, ids)
<1>3. list = [i \in 1 .. n |-> Row(table, ids[i])]
  BY <1>2 DEF Rows
<1>4. \A i \in 1 .. n : Row(table, ids[i]) \in LockRows
  BY <1>2 DEF Row, LockRows
<1>5. list \in Seq(LockRows) /\ DOMAIN list = 1 .. n
  BY <1>2, <1>3, <1>4
<1>6. \A i \in 1 .. n : list[i].table = table /\ list[i].id = ids[i]
  BY <1>3 DEF Row
<1> HIDE DEF list
<1>7. \A i \in DOMAIN list : Rank[table] <= Rank[list[i].table] /\ Rank[list[i].table] <= Rank[table]
  <2>1. Rank[table] \in 1 .. 4
    BY RanksAreNumbers
  <2> QED BY <1>5, <1>6, <2>1
<1>8. \A i, j \in DOMAIN list : i < j => Below(list[i], list[j])
  BY <1>2, <1>5, <1>6 DEF Below, Ascending
<1>9. Climbs(list, Rank[table], Rank[table])
  BY <1>5, <1>7, <1>8 DEF Climbs
<1> QED BY <1>9 DEF list, ids

LEMMA RowClimbs ==
    ASSUME NEW id \in Ids, NEW table \in Tables
    PROVE  Climbs(Rows(table, <<id>>), Rank[table], Rank[table])
<1> DEFINE list == Rows(table, <<id>>)
<1>1. list = <<Row(table, id)>>
  BY DEF Rows
<1>2. Row(table, id) \in LockRows /\ Row(table, id).table = table
  BY DEF Row, LockRows
<1>3. Rank[table] \in 1 .. 4
  BY RanksAreNumbers
<1> HIDE DEF list
<1>4. list \in Seq(LockRows) /\ DOMAIN list = {1} /\ list[1] = Row(table, id)
  BY <1>1, <1>2
<1>5. Climbs(list, Rank[table], Rank[table])
  BY <1>2, <1>3, <1>4 DEF Climbs
<1> QED BY <1>5 DEF list

\* First the rows of the lower tables, then those of higher ones.
LEMMA ConcatClimbs ==
    ASSUME NEW a, NEW b, NEW low \in 1 .. 4, NEW mid \in 1 .. 4, NEW next \in 1 .. 4,
           NEW high \in 1 .. 4,
           Climbs(a, low, mid), Climbs(b, next, high), low <= mid, mid < next, next <= high
    PROVE  Climbs(a \o b, low, high)
<1> DEFINE list == a \o b
<1>1. a \in Seq(LockRows) /\ b \in Seq(LockRows)
  BY DEF Climbs
<1>2. /\ list \in Seq(LockRows) /\ Len(list) = Len(a) + Len(b)
      /\ DOMAIN a = 1 .. Len(a) /\ DOMAIN b = 1 .. Len(b) /\ DOMAIN list = 1 .. Len(list)
      /\ Len(a) \in Nat /\ Len(b) \in Nat
      /\ \A i \in 1 .. Len(a) : list[i] = a[i]
      /\ \A i \in 1 .. Len(list) : i > Len(a) => i - Len(a) \in 1 .. Len(b) /\ list[i] = b[i - Len(a)]
  BY <1>1
<1> HIDE DEF list
<1>3. \A i \in 1 .. Len(a) : Rank[a[i].table] \in low .. mid
  <2> SUFFICES ASSUME NEW i \in 1 .. Len(a) PROVE Rank[a[i].table] \in low .. mid
    OBVIOUS
  <2>1. a[i] \in LockRows
    BY <1>1
  <2>2. Rank[a[i].table] \in 1 .. 4
    BY <2>1, RowsHaveRanks
  <2>3. low <= Rank[a[i].table] /\ Rank[a[i].table] <= mid
    BY <1>2 DEF Climbs
  <2> QED BY <2>2, <2>3
<1>4. \A i \in 1 .. Len(b) : Rank[b[i].table] \in next .. high
  <2> SUFFICES ASSUME NEW i \in 1 .. Len(b) PROVE Rank[b[i].table] \in next .. high
    OBVIOUS
  <2>1. b[i] \in LockRows
    BY <1>1
  <2>2. Rank[b[i].table] \in 1 .. 4
    BY <2>1, RowsHaveRanks
  <2>3. next <= Rank[b[i].table] /\ Rank[b[i].table] <= high
    BY <1>2 DEF Climbs
  <2> QED BY <2>2, <2>3
<1>5. \A i \in DOMAIN list : low <= Rank[list[i].table] /\ Rank[list[i].table] <= high
  <2> SUFFICES ASSUME NEW i \in 1 .. Len(list)
               PROVE  low <= Rank[list[i].table] /\ Rank[list[i].table] <= high
    BY <1>2
  <2>1. CASE i <= Len(a)
    BY <1>2, <1>3, <2>1
  <2>2. CASE i > Len(a)
    BY <1>2, <1>4, <2>2, SMTT(20)
  <2> QED BY <1>2, <2>1, <2>2
<1>6. \A i, j \in DOMAIN list : i < j => Below(list[i], list[j])
  <2> SUFFICES ASSUME NEW i \in 1 .. Len(list), NEW j \in 1 .. Len(list), i < j
               PROVE  Below(list[i], list[j])
    BY <1>2
  <2>1. CASE j <= Len(a)
    BY <1>2, <2>1, SMTT(20) DEF Climbs
  <2>2. CASE i > Len(a)
    <3>1. i - Len(a) \in 1 .. Len(b) /\ j - Len(a) \in 1 .. Len(b) /\ i - Len(a) < j - Len(a)
      BY <1>2, <2>2
    <3>2. list[i] = b[i - Len(a)] /\ list[j] = b[j - Len(a)]
      <4>1. i > Len(a) /\ j > Len(a)
        BY <1>2, <2>2
      <4> QED BY <1>2, <4>1
    <3>3. \A k, l \in 1 .. Len(b) : k < l => Below(b[k], b[l])
      BY <1>2 DEF Climbs
    <3>4. Below(b[i - Len(a)], b[j - Len(a)])
      BY <3>1, <3>3
    <3> QED BY <3>2, <3>4
  <2>3. CASE i <= Len(a) /\ j > Len(a)
    <3>1. i \in 1 .. Len(a) /\ list[i] = a[i]
      BY <1>2, <2>3
    <3>2. j - Len(a) \in 1 .. Len(b) /\ list[j] = b[j - Len(a)]
      BY <1>2, <2>3
    <3>3. Rank[list[i].table] \in low .. mid /\ Rank[list[j].table] \in next .. high
      BY <1>3, <1>4, <3>1, <3>2
    <3> QED BY <3>3 DEF Below
  <2> QED BY <1>2, <2>1, <2>2, <2>3
<1>7. Climbs(list, low, high)
  BY <1>2, <1>5, <1>6 DEF Climbs
<1> QED BY <1>7 DEF list

LEMMA ClimbsWithin ==
    ASSUME NEW a, NEW low \in 1 .. 4, NEW high \in 1 .. 4, Climbs(a, low, high)
    PROVE  Climbs(a, 1, 4)
<1>1. a \in Seq(LockRows) /\ DOMAIN a = 1 .. Len(a)
  BY DEF Climbs
<1>2. \A i \in DOMAIN a : a[i] \in LockRows
  BY <1>1
<1>3. \A i \in DOMAIN a : Rank[a[i].table] \in 1 .. 4
  BY <1>2, RowsHaveRanks
<1>4. \A i \in DOMAIN a : 1 <= Rank[a[i].table] /\ Rank[a[i].table] <= 4
  BY <1>3
<1> QED BY <1>4 DEF Climbs

LEMMA RankValues ==
    /\ Rank["order"] = 1 /\ Rank["hold"] = 2 /\ Rank["variant"] = 3 /\ Rank["share"] = 4
    /\ {"order", "hold", "variant", "share"} \subseteq Tables
BY DEF Rank, Tables

LEMMA ReserveClimbs ==
    ASSUME NEW S \in SUBSET VariantIds
    PROVE  Climbs(ReserveLines(S), 1, 4)
<1>1. Climbs(ReserveLines(S), 3, 3)
  BY RowsClimb, RankValues DEF ReserveLines, Ids
<1> QED BY <1>1, ClimbsWithin

LEMMA DraftClimbs == ASSUME NEW o \in OrderIds PROVE Climbs(DraftLines(o), 1, 4)
<1>1. Climbs(DraftLines(o), 2, 2)
  BY RowsClimb, RankValues DEF DraftLines, Ids
<1> QED BY <1>1, ClimbsWithin

LEMMA OneClimbs ==
    /\ \A v \in VariantIds : Climbs(OneVariant(v), 3, 3)
    /\ \A h \in HoldIds : Climbs(OneHold(h), 2, 2)
BY RowClimbs, RankValues DEF OneVariant, OneHold, Ids

LEMMA SettleClimbs == ASSUME NEW h \in HoldIds PROVE Climbs(SettleOne(h), 1, 4)
<1>1. VariantOf[h] \in VariantIds
  BY LocksAssumption
<1>2. Climbs(OneHold(h), 2, 2) /\ Climbs(OneVariant(VariantOf[h]), 3, 3)
  BY <1>1, OneClimbs
<1>3. Climbs(SettleOne(h), 2, 3)
  BY <1>2, ConcatClimbs DEF SettleOne
<1> QED BY <1>3, ClimbsWithin

LEMMA PayClimbs == ASSUME NEW o \in OrderIds PROVE Climbs(PayOrder(o), 1, 4)
<1> DEFINE holds == {h \in HoldIds : OrderOf[h] = o}
           A == Rows("order", <<o>>)
           B == Rows("hold", InIdOrder(holds))
           C == Rows("variant", InIdOrder({VariantOf[h] : h \in holds}))
           D == Rows("share", InIdOrder({s \in SellerOrderIds : ShareOf[s] = o}))
<1>1. Climbs(A, 1, 1)
  BY RowClimbs, RankValues DEF Ids
<1>2. Climbs(B, 2, 2)
  BY RowsClimb, RankValues DEF Ids
<1>3. Climbs(C, 3, 3)
  <2>1. {VariantOf[h] : h \in holds} \in SUBSET Ids
    BY LocksAssumption DEF Ids
  <2> QED BY <2>1, RowsClimb, RankValues
<1>4. Climbs(D, 4, 4)
  BY RowsClimb, RankValues DEF Ids
<1>5. PayOrder(o) = A \o B \o C \o D
  BY DEF PayOrder
<1> HIDE DEF A, B, C, D
<1>6. Climbs(A \o B, 1, 2)
  BY <1>1, <1>2, ConcatClimbs
<1>7. Climbs(A \o B \o C, 1, 3)
  BY <1>3, <1>6, ConcatClimbs
<1>8. Climbs(A \o B \o C \o D, 1, 4)
  BY <1>4, <1>7, ConcatClimbs
<1> QED BY <1>5, <1>8

-----------------------------------------------------------------------------
(* Every step keeps the order.                                             *)

Orderly == Sessions \ loose

LEMMA NothingClimbs == Climbs(<<>>, 1, 4)
BY DEF Climbs

LEMMA BeginKeepsOrder ==
    ASSUME LocksInv, NEW t \in Sessions, NEW list,
           BeginLoose(t, list) \/ (BeginOrdered(t, list) /\ Climbs(list, 1, 4))
    PROVE  LocksInv'
<1>1. /\ held' = held /\ held[t] = {}
      /\ todo' = [todo EXCEPT ![t] = list]
      /\ loose' \subseteq Sessions /\ loose \subseteq loose'
      /\ t \in loose' \/ Climbs(list, 1, 4)
  BY DEF BeginLoose, BeginOrdered, Begin, Idle, LocksInv
<1>2. /\ todo' = [u \in Sessions |-> todo'[u]] /\ held' = [u \in Sessions |-> held'[u]]
      /\ \A u \in Sessions \ {t} : todo'[u] = todo[u]
      /\ todo'[t] = list
  BY <1>1 DEF LocksInv
<1>3. ASSUME NEW u \in Orderly'
      PROVE  Climbs(todo'[u], 1, 4) /\ AboveHeld(u)'
  <2>0. u \in Sessions \ loose' /\ u \in Sessions \ loose
    BY <1>1 DEF Orderly
  <2>1. CASE u = t
    BY <1>1, <1>2, <2>0, <2>1 DEF AboveHeld
  <2>2. CASE u # t
    <3>1. todo'[u] = todo[u] /\ held'[u] = held[u]
      BY <1>1, <1>2, <2>0, <2>2
    <3>2. Climbs(todo[u], 1, 4) /\ AboveHeld(u)
      BY <2>0 DEF LocksInv
    <3> QED BY <3>1, <3>2 DEF AboveHeld
  <2> QED BY <2>1, <2>2
<1> QED BY <1>1, <1>2, <1>3 DEF LocksInv, Orderly

LEMMA RequestKeepsOrder ==
    ASSUME LocksInv, NEW t \in Sessions, RequestStep(t)
    PROVE  LocksInv'
<1>1. CASE BeginStock(t)
  <2>1. CASE \E v \in VariantIds : BeginOrdered(t, OneVariant(v))
    <3>1. \A v \in VariantIds : Climbs(OneVariant(v), 1, 4)
      BY OneClimbs, ClimbsWithin
    <3> QED BY <2>1, <3>1, BeginKeepsOrder
  <2>2. CASE \E S \in SUBSET VariantIds : S # {} /\ BeginOrdered(t, ReserveLines(S))
    BY <2>2, ReserveClimbs, BeginKeepsOrder
  <2> QED BY <1>1, <2>1, <2>2 DEF BeginStock
<1>2. CASE BeginHold(t)
  <2>1. \A h \in HoldIds : Climbs(OneHold(h), 1, 4)
    BY OneClimbs, ClimbsWithin
  <2> QED BY <1>2, <2>1, SettleClimbs, BeginKeepsOrder DEF BeginHold
<1>3. CASE BeginDraft(t)
  BY <1>3, DraftClimbs, BeginKeepsOrder DEF BeginDraft
<1>4. CASE BeginPayment(t)
  BY <1>4, PayClimbs, BeginKeepsOrder DEF BeginPayment
<1>5. CASE BeginEdit(t) \/ BeginLetGo(t)
  <2>1. PICK list : BeginLoose(t, list)
    BY <1>5 DEF BeginEdit, BeginLetGo
  <2> QED BY <2>1, BeginKeepsOrder
<1> QED BY <1>1, <1>2, <1>3, <1>4, <1>5 DEF RequestStep

\* The sweep may lock its rows in any order.
LEMMA SweepKeepsOrder == ASSUME LocksInv, BeginSweep(Sweeper) PROVE LocksInv'
<1>1. PICK list : BeginLoose(Sweeper, list)
  BY DEF BeginSweep
<1>2. Sweeper \in Sessions
  BY LocksAssumption
<1> QED BY <1>1, <1>2, BeginKeepsOrder

LEMMA LockKeepsOrder ==
    ASSUME LocksInv, NEW t \in Sessions, Lock(t)
    PROVE  LocksInv'
<1>1. /\ todo[t] # <<>>
      /\ todo' = [todo EXCEPT ![t] = Tail(todo[t])]
      /\ held' = [held EXCEPT ![t] = held[t] \cup {Head(todo[t])}]
      /\ loose' = loose
  BY DEF Lock
<1>2. /\ todo' = [u \in Sessions |-> todo'[u]] /\ held' = [u \in Sessions |-> held'[u]]
      /\ \A u \in Sessions \ {t} : todo'[u] = todo[u] /\ held'[u] = held[u]
      /\ todo'[t] = Tail(todo[t]) /\ held'[t] = held[t] \cup {Head(todo[t])}
  BY <1>1 DEF LocksInv
<1>3. ASSUME NEW u \in Orderly
      PROVE  Climbs(todo'[u], 1, 4) /\ AboveHeld(u)'
  <2>0. Climbs(todo[u], 1, 4) /\ AboveHeld(u) /\ u \in Sessions
    BY DEF LocksInv, Orderly
  <2>1. CASE u = t
    <3> DEFINE list == todo[t]
               rest == Tail(todo[t])
    <3>1. /\ list \in Seq(LockRows) /\ list # <<>>
          /\ rest \in Seq(LockRows) /\ DOMAIN list = 1 .. Len(list)
          /\ DOMAIN rest = 1 .. Len(rest) /\ Len(rest) \in Nat
          /\ \A i \in 1 .. Len(rest) : i + 1 \in 1 .. Len(list) /\ rest[i] = list[i + 1]
          /\ Head(list) = list[1] /\ 1 \in 1 .. Len(list)
      BY <1>1, <2>0, <2>1 DEF Climbs
    <3>2. /\ \A i \in 1 .. Len(list) : 1 <= Rank[list[i].table] /\ Rank[list[i].table] <= 4
          /\ \A i, j \in 1 .. Len(list) : i < j => Below(list[i], list[j])
      BY <2>0, <2>1, <3>1 DEF Climbs
    <3>3. \A r \in held[t] : \A i \in 1 .. Len(list) : Below(r, list[i])
      BY <2>0, <2>1, <3>1 DEF AboveHeld
    <3> HIDE DEF list, rest
    <3>4. \A i, j \in 1 .. Len(rest) : i < j => Below(rest[i], rest[j])
      <4> SUFFICES ASSUME NEW i \in 1 .. Len(rest), NEW j \in 1 .. Len(rest), i < j
                   PROVE  Below(rest[i], rest[j])
        OBVIOUS
      <4>1. i + 1 < j + 1 /\ i + 1 \in 1 .. Len(list) /\ j + 1 \in 1 .. Len(list)
        BY <3>1
      <4>2. Below(list[i + 1], list[j + 1])
        BY <3>2, <4>1
      <4> QED BY <3>1, <4>2
    <3>5. Climbs(rest, 1, 4)
      BY <3>1, <3>2, <3>4 DEF Climbs
    <3>6. \A r \in held[t] \cup {Head(list)} : \A i \in 1 .. Len(rest) : Below(r, rest[i])
      <4> SUFFICES ASSUME NEW r \in held[t] \cup {list[1]}, NEW i \in 1 .. Len(rest)
                   PROVE  Below(r, rest[i])
        BY <3>1
      <4>1. i + 1 \in 1 .. Len(list) /\ 1 < i + 1 /\ rest[i] = list[i + 1]
        BY <3>1
      <4> QED BY <3>1, <3>2, <3>3, <4>1
    <3>7. todo'[u] = rest /\ held'[u] = held[t] \cup {Head(list)}
      BY <1>2, <2>1 DEF list, rest
    <3> QED BY <3>1, <3>5, <3>6, <3>7 DEF AboveHeld
  <2>2. CASE u # t
    BY <1>2, <2>0, <2>2 DEF AboveHeld
  <2> QED BY <2>1, <2>2
<1> QED BY <1>1, <1>2, <1>3 DEF LocksInv, Orderly

\* A transaction that ends holds nothing.
LEMMA EndKeepsOrder ==
    ASSUME LocksInv, NEW t \in Sessions, Commit(t) \/ RollBack(t)
    PROVE  LocksInv'
<1>1. /\ todo' = [u \in Sessions |-> todo'[u]] /\ held' = [u \in Sessions |-> held'[u]]
      /\ \A u \in Sessions \ {t} : todo'[u] = todo[u] /\ held'[u] = held[u]
      /\ todo'[t] = <<>> /\ held'[t] = {}
      /\ loose' = loose \ {t}
  BY DEF LocksInv, Commit, RollBack
<1>2. ASSUME NEW u \in Orderly'
      PROVE  Climbs(todo'[u], 1, 4) /\ AboveHeld(u)'
  <2>1. CASE u = t
    BY <1>1, <2>1, NothingClimbs DEF AboveHeld
  <2>2. CASE u # t
    <3>1. todo'[u] = todo[u] /\ held'[u] = held[u] /\ u \in Sessions \ loose
      BY <1>1, <2>2 DEF Orderly
    <3> QED BY <3>1 DEF LocksInv, AboveHeld
  <2> QED BY <2>1, <2>2
<1>3. loose' \subseteq Sessions
  BY <1>1 DEF LocksInv
<1> QED BY <1>1, <1>2, <1>3 DEF LocksInv, Orderly

LEMMA StepKeepsOrder == ASSUME LocksInv, [LocksNext]_lockVars PROVE LocksInv'
<1>1. CASE \E t \in Sessions \ {Sweeper} : RequestStep(t)
  BY <1>1, RequestKeepsOrder
<1>2. CASE BeginSweep(Sweeper)
  BY <1>2, SweepKeepsOrder
<1>3. CASE \E t \in Sessions : TransactionStep(t)
  BY <1>3, LockKeepsOrder, EndKeepsOrder DEF TransactionStep
<1>4. CASE UNCHANGED lockVars
  BY <1>4 DEF LocksInv, AboveHeld, lockVars
<1> QED BY <1>1, <1>2, <1>3, <1>4 DEF LocksNext

(* Every transaction that has no order of its own locks its rows in one    *)
(* order of all rows: reservations, drafts, payments, closes, restocks and *)
(* stock corrections, but not sweeps, edits and the end of demo accounts.  *)
THEOREM LocksInOneOrder == LocksSpec => []LocksInv
<1>1. LocksInit => LocksInv
  <2> SUFFICES ASSUME LocksInit PROVE LocksInv
    OBVIOUS
  <2>1. todo = [t \in Sessions |-> <<>>] /\ held = [t \in Sessions |-> {}]
    BY DEF LocksInit
  <2>2. loose = {}
    BY DEF LocksInit
  <2> QED BY <2>1, <2>2, NothingClimbs DEF LocksInv, AboveHeld
<1>2. LocksInv /\ [LocksNext]_lockVars => LocksInv'
  BY StepKeepsOrder
<1> QED BY <1>1, <1>2, PTL DEF LocksSpec

-----------------------------------------------------------------------------
(* The highest of the rows a circle waits for.                             *)

\* Among finitely many rows that are each below another one, none is.
LEMMA NoEndlessClimb ==
    ASSUME NEW R \in SUBSET LockRows, R # {}
    PROVE  \E r \in R : \A s \in R : ~Below(r, s)
<1> DEFINE ranks == {Rank[r.table] : r \in R}
<1>1. \A r \in R : Rank[r.table] \in 1 .. 4
  BY RowsHaveRanks
<1>2. PICK top \in ranks : \A k \in ranks : k <= top
  <2>1. ranks \in SUBSET (1 .. 4) /\ ranks # {}
    BY <1>1
  <2>2. IsFiniteSet(1 .. 4)
    <3>1. 1 \in Int /\ 4 \in Int
      OBVIOUS
    <3> QED BY <3>1, FS_Interval
  <2> HIDE DEF ranks
  <2>3. IsFiniteSet(ranks)
    BY <2>1, <2>2, FS_Subset
  <2>4. ranks \in SUBSET Nat
    BY <2>1
  <2> QED BY <2>1, <2>3, <2>4, GreatestNumber
<1> DEFINE highest == {r \in R : Rank[r.table] = top}
           ids == {r.id : r \in highest}
<1>3. PICK last \in ids : \A i \in ids : i <= last
  <2>1. highest # {}
    OBVIOUS
  <2>2. ids \in SUBSET Ids /\ ids # {}
    BY <2>1 DEF LockRows
  <2> HIDE DEF ids
  <2>3. IsFiniteSet(ids) /\ ids \in SUBSET Nat
    BY <2>2, IdsAreNumbers, FS_Subset
  <2> QED BY <2>2, <2>3, GreatestNumber
<1>4. PICK r \in highest : r.id = last
  OBVIOUS
<1>5. ASSUME NEW s \in R, Below(r, s)
      PROVE  FALSE
  <2>1. Rank[s.table] \in 1 .. 4 /\ Rank[r.table] = top /\ Rank[s.table] <= top
    BY <1>1, <1>2, <1>4
  <2>2. Rank[s.table] \in ranks /\ Rank[r.table] \in 1 .. 4
    BY <1>1, <1>4
  <2> HIDE DEF ranks
  <2>3. r.table = s.table /\ r.id < s.id
    BY <1>5, <2>1, <2>2 DEF Below
  <2>4. s \in highest
    BY <2>1, <2>3
  <2>5. s.id <= last /\ s.id \in Nat /\ r.id \in Nat
    BY <1>3, <1>4, <2>4, IdsAreNumbers DEF LockRows
  <2> QED BY <1>4, <2>3, <2>5
<1> QED BY <1>4, <1>5

LEMMA NoCircle == ASSUME LocksInv PROVE NoWaitCycle
<1> SUFFICES ASSUME NEW S \in SUBSET (Sessions \ loose), S # {},
                    \A t \in S : \E u \in S : WaitsFor(t, u)
             PROVE  FALSE
  BY DEF NoWaitCycle, Circle
<1> DEFINE wanted == {Head(todo[t]) : t \in S}
<1>1. ASSUME NEW t \in S
      PROVE  /\ todo[t] # <<>> /\ Climbs(todo[t], 1, 4) /\ AboveHeld(t)
             /\ Head(todo[t]) \in LockRows /\ Head(todo[t]) = todo[t][1]
             /\ 1 \in DOMAIN todo[t]
  <2>1. todo[t] # <<>> /\ Climbs(todo[t], 1, 4) /\ AboveHeld(t)
    BY DEF WaitsFor, LocksInv
  <2> QED BY <2>1 DEF Climbs
<1>2. wanted \in SUBSET LockRows /\ wanted # {}
  BY <1>1
<1>3. PICK r \in wanted : \A s \in wanted : ~Below(r, s)
  <2> HIDE DEF wanted
  <2> QED BY <1>2, NoEndlessClimb
<1>4. PICK t \in S : r = Head(todo[t])
  OBVIOUS
<1>5. PICK u \in S : WaitsFor(t, u)
  OBVIOUS
<1>6. Below(r, Head(todo[u]))
  BY <1>1, <1>4, <1>5 DEF WaitsFor, AboveHeld
<1> QED BY <1>3, <1>6

(* The requests that lock in that order never deadlock among themselves.   *)
THEOREM RequestsNeverDeadlock == LocksSpec => []NoWaitCycle
BY LocksInOneOrder, NoCircle, PTL

=============================================================================
