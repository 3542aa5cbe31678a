-------------------------------- MODULE Locks --------------------------------
(***************************************************************************)
(* The row locks behind the atomic steps of Stock, Reservation and         *)
(* Checkout: in which order the transactions that touch stock take them.   *)
(* PostgreSQL keeps a row lock until the transaction ends, so a            *)
(* transaction is the sequence of the rows it locks, and what can go wrong *)
(* is two of them waiting for each other.                                  *)
(*                                                                         *)
(* Ids are numbers because the code orders locks by id: a query with       *)
(* ORDER BY "id" FOR UPDATE locks one row after the other.  Which rows are *)
(* HELD, and which locks an early return leaves out, is left open: any     *)
(* transaction may stop at any point (RollBack).                           *)
(***************************************************************************)
EXTENDS Ordered, SequencesExt

CONSTANTS
    Sessions,    \* database connections
    Sweeper,     \* the one that gets the sweep's advisory lock
    VariantIds, HoldIds, OrderIds, SellerOrderIds,
    VariantOf,   \* StockReservation.variantId
    OrderOf,     \* the order of a hold's checkout
    ShareOf      \* SellerOrder.orderId

ASSUME LocksAssumption ==
    /\ Sweeper \in Sessions
    /\ \A S \in {VariantIds, HoldIds, OrderIds, SellerOrderIds} :
          S \subseteq Nat /\ IsFiniteSet(S)
    /\ VariantOf \in [HoldIds -> VariantIds]
    /\ OrderOf \in [HoldIds -> OrderIds]
    /\ ShareOf \in [SellerOrderIds -> OrderIds]

VARIABLES
    todo,   \* rows a session's transaction has still to lock, in its order
    held,   \* rows it has locked
    loose   \* sessions whose transaction locks its rows in an order of its own

lockVars == <<todo, held, loose>>

Row(table, id) == [table |-> table, id |-> id]

Rows(table, ids) == [i \in DOMAIN ids |-> Row(table, ids[i])]

-----------------------------------------------------------------------------
(* The transactions, by the rows they lock.                                *)

\* hold, adjust: one conditional UPDATE or lockVariant.
OneVariant(v) == Rows("variant", <<v>>)

\* extend: one conditional UPDATE of the reservation row.
OneHold(h) == Rows("hold", <<h>>)

\* Faulty: the lines in another order than everyone else's.
ReserveReversed(S) == Rows("variant", Reverse(InIdOrder(S)))

\* draft: the rows of a checkout, ordered.
DraftLines(o) == Rows("hold", InIdOrder({h \in HoldIds : OrderOf[h] = o}))

\* reserveMany: the variants of all lines, ordered; the rows it creates are
\* new.  A restock locks the variants of its claim in this order too.
ReserveLines(S) == Rows("variant", InIdOrder(S))

\* confirm, release: the reservation row, then the variant it is for.
SettleOne(h) == OneHold(h) \o OneVariant(VariantOf[h])

\* markPaid: the order, its holds, their variants, its shares.
PayOrder(o) ==
    LET holds == {h \in HoldIds : OrderOf[h] = o}
    IN Rows("order", <<o>>)
       \o Rows("hold", InIdOrder(holds))
       \o Rows("variant", InIdOrder({VariantOf[h] : h \in holds}))
       \o Rows("share", InIdOrder({s \in SellerOrderIds : ShareOf[s] = o}))

(* A seller edits a product, and the variants named are updated one by one *)
(* in the order of the request, or removes it with one unordered UPDATE.   *)
EditRows(variants) == Rows("variant", variants)

(* A demo account ends: one UPDATE of the variants that it holds units of, *)
(* one DELETE of the rows, both in no stated order.                        *)
LetGoRows(variants, holds) == Rows("variant", variants) \o Rows("hold", holds)

(* The sweeper: for every expired row, oldest first, the variant and then  *)
(* the row, and at the end the shares of their orders, in no stated order. *)
SweepRows(expired, shares) ==
    FlattenSeq([i \in DOMAIN expired |->
                   OneVariant(VariantOf[expired[i]]) \o OneHold(expired[i])])
    \o Rows("share", shares)

-----------------------------------------------------------------------------
Idle(t) == todo[t] = <<>> /\ held[t] = {}

Begin(t, rows) ==
    /\ Idle(t)
    /\ todo' = [todo EXCEPT ![t] = rows]
    /\ UNCHANGED held

\* The rows are in the order of the tables, and within them of the ids.
BeginOrdered(t, rows) == Begin(t, rows) /\ UNCHANGED loose

BeginLoose(t, rows) == Begin(t, rows) /\ loose' = loose \cup {t}

BeginStock(t) ==
    \/ \E v \in VariantIds : BeginOrdered(t, OneVariant(v))
    \/ \E S \in SUBSET VariantIds : S # {} /\ BeginOrdered(t, ReserveLines(S))

BeginHold(t) ==
    \E h \in HoldIds : BeginOrdered(t, OneHold(h)) \/ BeginOrdered(t, SettleOne(h))

BeginDraft(t) == \E o \in OrderIds : BeginOrdered(t, DraftLines(o))

BeginPayment(t) == \E o \in OrderIds : BeginOrdered(t, PayOrder(o))

BeginEdit(t) ==
    \E S \in (SUBSET VariantIds) \ {{}} : \E order \in SetToSeqs(S) :
       BeginLoose(t, EditRows(order))

BeginLetGo(t) ==
    \E S \in (SUBSET HoldIds) \ {{}} :
       \E variants \in SetToSeqs({VariantOf[h] : h \in S}), holds \in SetToSeqs(S) :
          BeginLoose(t, LetGoRows(variants, holds))

BeginSweep(t) ==
    \E S \in (SUBSET HoldIds) \ {{}} :
       LET orders == {OrderOf[h] : h \in S}
           shares == {s \in SellerOrderIds : ShareOf[s] \in orders}
       IN \E expired \in SetToSeqs(S), order \in SetToSeqs(shares) :
             BeginLoose(t, SweepRows(expired, order))

\* One more row, when no other session has it.
Lock(t) ==
    /\ todo[t] # <<>>
    /\ \A u \in Sessions \ {t} : Head(todo[t]) \notin held[u]
    /\ held' = [held EXCEPT ![t] = @ \cup {Head(todo[t])}]
    /\ todo' = [todo EXCEPT ![t] = Tail(@)]
    /\ UNCHANGED loose

Commit(t) ==
    /\ todo[t] = <<>> /\ held[t] # {}
    /\ held' = [held EXCEPT ![t] = {}]
    /\ loose' = loose \ {t}
    /\ UNCHANGED todo

\* A refusal or an early return: the rest of the rows is never locked.
RollBack(t) ==
    /\ todo[t] # <<>> /\ held[t] # {}
    /\ todo' = [todo EXCEPT ![t] = <<>>]
    /\ held' = [held EXCEPT ![t] = {}]
    /\ loose' = loose \ {t}

LocksInit ==
    /\ todo = [t \in Sessions |-> <<>>]
    /\ held = [t \in Sessions |-> {}]
    /\ loose = {}

RequestStep(t) ==
    \/ BeginStock(t) \/ BeginHold(t) \/ BeginDraft(t) \/ BeginPayment(t)
    \/ BeginEdit(t) \/ BeginLetGo(t)

TransactionStep(t) == Lock(t) \/ Commit(t) \/ RollBack(t)

WaitsFor(t, u) == t # u /\ todo[t] # <<>> /\ Head(todo[t]) \in held[u]

Circle(S) == S # {} /\ \A t \in S : \E u \in S : WaitsFor(t, u)

InCycle(t) ==
    \E S \in SUBSET Sessions : t \in S /\ Circle(S)

\* Faulty: nobody looks for deadlocks.
NoVictim(t) == InCycle(t) /\ Idle(t) /\ RollBack(t)

\* PostgreSQL finds sessions that wait for one another and aborts one.
Victim(t) == InCycle(t) /\ RollBack(t)

(* The sweep's advisory lock lets one session sweep at a time.             *)
LocksNext ==
    \/ \E t \in Sessions \ {Sweeper} : RequestStep(t)
    \/ BeginSweep(Sweeper)
    \/ \E t \in Sessions : TransactionStep(t)

(* PostgreSQL queues the sessions that wait for a row, so one that waits   *)
(* for a row that keeps becoming free gets it; a deadlock is detected.     *)
Fairness ==
    \A t \in Sessions :
       SF_lockVars(Lock(t)) /\ WF_lockVars(Commit(t)) /\ WF_lockVars(Victim(t))

LocksSpec == LocksInit /\ [][LocksNext]_lockVars /\ Fairness

-----------------------------------------------------------------------------
(* Reservations, payments, drafts, closes, restocks and stock corrections  *)
(* never deadlock among themselves, whatever variants and rows they share: *)
(* a wait cycle always passes through the sweep, through a seller's edit   *)
(* of several variants, or through the end of a demo account.              *)
NoWaitCycle == \A S \in SUBSET (Sessions \ loose) : ~Circle(S)

(* A transaction that has begun ends, by itself or as a deadlock's victim: *)
(* no wait lasts for ever, however many others keep taking the same rows   *)
(* and though sweeps and edits take them in orders of their own.           *)
TransactionsEnd == \A t \in Sessions : todo[t] # <<>> ~> Idle(t)

=============================================================================
