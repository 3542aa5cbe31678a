-------------------------------- MODULE Stock --------------------------------
(***************************************************************************)
(* StockService (apps/api/src/stock): the stock of a variant and the       *)
(* append-only ledger that explains it.  Every operation locks the         *)
(* ProductVariant row first and reads stock and max(seq) in a later        *)
(* statement, so each is one atomic step at its commit; a refusal rolls    *)
(* the transaction back and is no step at all.                             *)
(*                                                                         *)
(* "reserved" is the other counter of the same row.  It belongs to         *)
(* ReservationService, but every write of the row is checked against       *)
(* ProductVariant_reserved_check (0 <= reserved <= stock), so a movement   *)
(* that would leave less stock than is reserved is rolled back.            *)
(***************************************************************************)
EXTENDS Integers, Sequences

CONSTANTS
    Variants,      \* ProductVariant rows
    Refs, NoRef,   \* what a movement may refer to, and nothing
    OpeningStock,  \* quantity a variant is listed with
    Deltas,        \* quantities a movement may carry
    MaxLevel,      \* bound: largest stock explored
    MaxEntries     \* bound: ledger length up to which a seller moves stock

ASSUME StockAssumption ==
    /\ NoRef \notin Refs
    /\ OpeningStock \in [Variants -> Nat]
    /\ Deltas \subseteq Int
    /\ MaxLevel \in Nat /\ MaxEntries \in Nat

VARIABLES stock, reserved, ledger

stockVars == <<stock, reserved, ledger>>

Inward  == {"INBOUND", "CANCEL", "RETURN_IN"}
Outward == {"SALE", "RESERVE_CONFIRM"}
MovementTypes == Inward \cup Outward \cup {"ADJUST"}

Entries == [type : MovementTypes, quantity : Int, balance : Nat,
            ref : Refs \cup {NoRef}]

-----------------------------------------------------------------------------
(* The sign a movement's type implies, and no movement of nothing.  A      *)
(* reference and its type travel together here, and an ADJUST always has   *)
(* the reason its form requires.                                           *)
Admissible(type, quantity) ==
    /\ quantity # 0
    /\ type \in Inward => quantity > 0
    /\ type \in Outward => quantity < 0

\* Faulty: looks only at the newest row.
RecordedLast(v, type, ref) ==
    /\ ref # NoRef /\ ledger[v] # <<>>
    /\ ledger[v][Len(ledger[v])].type = type
    /\ ledger[v][Len(ledger[v])].ref = ref

\* The unique index on (variantId, type, refType, refId) where refId is set.
Recorded(v, type, ref) ==
    /\ ref # NoRef
    /\ \E i \in DOMAIN ledger[v] :
          ledger[v][i].type = type /\ ledger[v][i].ref = ref

\* Faulty: the row carries the change where the level belongs.
EntryOfChange(v, type, quantity, ref) ==
    [type |-> type, quantity |-> quantity, balance |-> quantity, ref |-> ref]

\* One ledger row; its position in the sequence is its "seq".
Entry(v, type, quantity, ref) ==
    [type |-> type, quantity |-> quantity,
     balance |-> stock[v] + quantity, ref |-> ref]

\* Faulty: nothing looks at what is reserved.
RecordUnchecked(v, type, quantity, ref) ==
    /\ stock' = [stock EXCEPT ![v] = @ + quantity]
    /\ ledger' = [ledger EXCEPT ![v] = Append(@, Entry(v, type, quantity, ref))]

\* Writes the movement and the level it produced.
Record(v, type, quantity, ref) ==
    /\ stock' = [stock EXCEPT ![v] = @ + quantity]
    /\ ledger' = [ledger EXCEPT ![v] = Append(@, Entry(v, type, quantity, ref))]
    /\ reserved[v] <= stock[v] + quantity    \* ProductVariant_reserved_check

\* What the bounds leave room for.
Bounded(v, quantity) ==
    /\ Len(ledger[v]) < MaxEntries
    /\ stock[v] + quantity <= MaxLevel

-----------------------------------------------------------------------------
\* A variant opening at zero gets no row; any other opens with one INBOUND.
Open(v) ==
    IF OpeningStock[v] = 0 THEN <<>>
    ELSE << [type |-> "INBOUND", quantity |-> OpeningStock[v],
             balance |-> OpeningStock[v], ref |-> NoRef] >>

Apply(v, type, quantity, ref) ==
    /\ Admissible(type, quantity)
    /\ stock[v] + quantity >= 0
    /\ ~Recorded(v, type, ref)
    /\ Bounded(v, quantity)
    /\ Record(v, type, quantity, ref)
    /\ UNCHANGED reserved

\* An absolute level is recorded as the difference that reaches it.
SetLevel(v, level) ==
    /\ level # stock[v]
    /\ Bounded(v, level - stock[v])
    /\ Record(v, "ADJUST", level - stock[v], NoRef)
    /\ UNCHANGED reserved

-----------------------------------------------------------------------------
StockTypeOK ==
    /\ stock \in [Variants -> Nat]
    /\ reserved \in [Variants -> Nat]
    /\ ledger \in [Variants -> Seq(Entries)]

\* The stock a ledger prefix of length n leaves.
BalanceAfter(l, n) == IF n = 0 THEN 0 ELSE l[n].balance

(* What the reconciliation of StockService looks for, as an invariant: the *)
(* chain of balances has no break, and the newest one is the stock.        *)
LedgerExplainsStock ==
    \A v \in Variants :
       /\ stock[v] = BalanceAfter(ledger[v], Len(ledger[v]))
       /\ \A i \in DOMAIN ledger[v] :
             ledger[v][i].balance = BalanceAfter(ledger[v], i - 1) + ledger[v][i].quantity

(* A retried movement is recorded once: no two rows of a variant share a   *)
(* type and a reference (StockLedger_ref_key).                             *)
RecordedOnce ==
    \A v \in Variants : \A i, j \in DOMAIN ledger[v] :
       (/\ ledger[v][i].ref # NoRef
        /\ ledger[v][i].ref = ledger[v][j].ref
        /\ ledger[v][i].type = ledger[v][j].type) => i = j

(* What is promised is on the shelf: no movement, absolute level or        *)
(* settlement leaves less stock than is reserved.                          *)
WithinStock == \A v \in Variants : 0 <= reserved[v] /\ reserved[v] <= stock[v]

=============================================================================
