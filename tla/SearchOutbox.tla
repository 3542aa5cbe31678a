---------------------------- MODULE SearchOutbox ----------------------------
(***************************************************************************)
(* The search index and the queue that feeds it (apps/api/src/search).     *)
(* A write that goes through ProductService.settle, an administrator's     *)
(* moderation, a review and the clearing of a demo account add a           *)
(* SearchOutbox row in the same transaction; other writes of what a        *)
(* document says add none.                                                 *)
(*                                                                         *)
(* One process drains the table: it reads what is due, reads               *)
(* the products as they are then, writes the engine, and deletes the rows  *)
(* it read.  Each of these is a call of its own, with changes, failures,   *)
(* a stop of the process or a restart of the engine between any two.       *)
(*                                                                         *)
(* A document is the version of the product it was built from.  The queue  *)
(* is in the order of nextAttemptAt; a failed event is put off and comes   *)
(* due after what was published meanwhile.                                 *)
(***************************************************************************)
EXTENDS Integers, Ordered

CONSTANTS
    Products,
    Batch,         \* INDEXER_BATCH
    MaxChanges,    \* bound: writes to products
    MaxFailures,   \* bound: failed drains and stops of the process
    MaxWipes       \* bound: restarts of the engine, which keeps nothing

ASSUME SearchAssumption ==
    /\ Batch \in Nat \ {0}
    /\ MaxChanges \in Nat /\ MaxFailures \in Nat /\ MaxWipes \in Nat

VARIABLES
    active,     \* Product.status = ACTIVE, and not deleted
    removed,    \* Product.deletedAt is set
    silent,     \* products whose last write published nothing
    version,    \* which writing of the product's row this is, from 1
    queue,      \* SearchOutbox rows that are due, in order
    putOff,     \* SearchOutbox rows that failed and are not due yet
    drain,      \* where the drain is, the batch it read, and its plan
    rebuild,    \* where the rebuild is, and the page it read
    index,      \* the engine's documents, 0 for none
    takenDown,  \* products an administrator has ever taken down
    refilled,   \* whether a rebuild was ever called
    changes, failures, wipes

rows == <<active, removed, silent, version, takenDown, changes>>
vars == <<rows, queue, putOff, drain, rebuild, refilled, index, failures, wipes>>

Kinds  == {"UPSERT", "REMOVE"}
Events == [id : 1 .. MaxChanges, product : Products, kind : Kinds]

Nothing == [p \in {} |-> 0]
Idle    == [at |-> "idle", batch |-> <<>>, upserts |-> Nothing, removals |-> {}]
AtRest  == [at |-> "rest", page |-> Nothing]

Listed == {p \in Products : active[p]}

\* The document a product should have.
Document(p) == IF active[p] THEN version[p] ELSE 0

\* The engine with these documents written over it.
Written(documents) ==
    [p \in Products |-> IF p \in DOMAIN documents THEN documents[p] ELSE index[p]]

-----------------------------------------------------------------------------
\* The row is written and its event exists, or neither.
Publish(p, kind) ==
    /\ changes < MaxChanges
    /\ changes' = changes + 1
    /\ version' = [version EXCEPT ![p] = @ + 1]
    /\ silent' = silent \ {p}
    /\ queue' = Append(queue, [id |-> changes + 1, product |-> p, kind |-> kind])

\* settle of a seller's write, a review; or restored by an administrator:
\* the product may or may not be on sale afterwards.
Change(p) ==
    /\ Publish(p, "UPSERT")
    /\ \E sold \in BOOLEAN : (sold => p \notin removed) /\ active' = [active EXCEPT ![p] = sold]
    /\ UNCHANGED <<removed, takenDown, putOff, drain, rebuild, index, refilled, failures, wipes>>

(* An administrator takes down what he read to be on sale, or a demo       *)
(* seller's account is cleared.                                            *)
TakeDown(p) ==
    /\ Publish(p, "REMOVE")
    /\ active' = [active EXCEPT ![p] = FALSE]
    /\ takenDown' = takenDown \cup {p}
    /\ UNCHANGED <<removed, putOff, drain, rebuild, index, refilled, failures, wipes>>

\* The row, or what its document is built from, is written, and no event is.
WriteUnpublished(p) ==
    /\ changes < MaxChanges
    /\ changes' = changes + 1
    /\ version' = [version EXCEPT ![p] = @ + 1]
    /\ silent' = silent \cup {p}
    /\ UNCHANGED <<takenDown, queue, putOff, drain, rebuild, index, refilled, failures, wipes>>

\* ProductService.remove: its seller deletes the product.
Delete(p) ==
    /\ p \notin removed
    /\ WriteUnpublished(p)
    /\ removed' = removed \cup {p}
    /\ active' = [active EXCEPT ![p] = FALSE]

(* A report hides the product or lets it back on sale (which of those not  *)
(* on sale it may let back is not told apart), or its units are sold out,  *)
(* or its brand or category renamed.                                       *)
ChangeUnpublished(p) ==
    /\ p \notin removed
    /\ WriteUnpublished(p)
    /\ \E sold \in BOOLEAN : active' = [active EXCEPT ![p] = sold]
    /\ UNCHANGED removed

-----------------------------------------------------------------------------
\* due
ReadDue ==
    /\ drain.at = "idle" /\ queue # <<>>
    /\ \E n \in 1 .. Len(queue) :
          /\ n = Batch \/ (n < Batch /\ n = Len(queue))
          /\ drain' = [Idle EXCEPT !.at = "due", !.batch = SubSeq(queue, 1, n)]
    /\ UNCHANGED <<rows, queue, putOff, rebuild, index, refilled, failures, wipes>>

BatchOf(p) == {n \in DOMAIN drain.batch : drain.batch[n].product = p}

\* collapse: the products of the batch whose last event is of this kind.
LastIs(kind) ==
    {p \in Products : \E n \in BatchOf(p) :
        /\ \A m \in BatchOf(p) : m <= n
        /\ drain.batch[n].kind = kind}

(* readSources: the rows as they are now.  A removal is a REMOVE, or a     *)
(* product that is not on sale any more.                                   *)
ReadRows ==
    /\ drain.at = "due"
    /\ drain' = [drain EXCEPT
          !.at = "read",
          !.upserts = [p \in LastIs("UPSERT") \cap Listed |-> version[p]],
          !.removals = LastIs("REMOVE") \cup (LastIs("UPSERT") \ Listed)]
    /\ UNCHANGED <<rows, queue, putOff, rebuild, index, refilled, failures, wipes>>

Upsert ==
    /\ drain.at = "read"
    /\ index' = Written(drain.upserts)
    /\ drain' = [drain EXCEPT !.at = "upserted"]
    /\ UNCHANGED <<rows, queue, putOff, rebuild, refilled, failures, wipes>>

Remove ==
    /\ drain.at = "upserted"
    /\ index' = Written([p \in drain.removals |-> 0])
    /\ drain' = [drain EXCEPT !.at = "removed"]
    /\ UNCHANGED <<rows, queue, putOff, rebuild, refilled, failures, wipes>>

InBatch(e) == \E n \in DOMAIN drain.batch : drain.batch[n].id = e.id

\* The queue without the rows that were read.
NotRead == Kept(queue, {n \in DOMAIN queue : ~InBatch(queue[n])})

\* Faulty: deletes whatever is queued for the products it handled.
CompleteProducts ==
    /\ drain.at = "removed"
    /\ queue' = Kept(queue, {n \in DOMAIN queue : BatchOf(queue[n].product) = {}})
    /\ drain' = Idle
    /\ UNCHANGED <<rows, putOff, rebuild, index, refilled, failures, wipes>>

\* complete: only the rows that were read are deleted.
Complete ==
    /\ drain.at = "removed"
    /\ queue' = NotRead
    /\ drain' = Idle
    /\ UNCHANGED <<rows, putOff, rebuild, index, refilled, failures, wipes>>

-----------------------------------------------------------------------------
\* Any call of a drain fails, whether or not it did what was asked.
DrainFails ==
    /\ drain.at \in {"due", "read", "upserted", "removed"}
    /\ failures < MaxFailures
    /\ failures' = failures + 1
    /\ drain' = [drain EXCEPT !.at = "failed"]
    /\ UNCHANGED <<rows, queue, putOff, rebuild, index, wipes, refilled>>

\* Faulty: an event that fails is given up.
GiveUp ==
    /\ drain.at = "failed"
    /\ queue' = NotRead
    /\ drain' = Idle
    /\ UNCHANGED <<rows, putOff, rebuild, index, refilled, failures, wipes>>

\* fail: each event of the batch is put off, one row at a time.
PutOff ==
    /\ drain.at = "failed"
    /\ putOff' = putOff \cup {Head(drain.batch)}
    /\ queue' = Kept(queue, {n \in DOMAIN queue : queue[n].id # Head(drain.batch).id})
    /\ drain' = IF Len(drain.batch) = 1 THEN Idle
                ELSE [drain EXCEPT !.batch = Tail(@)]
    /\ UNCHANGED <<rows, rebuild, index, refilled, failures, wipes>>

\* Its backoff is over.
ComesDue(e) ==
    /\ e \in putOff
    /\ putOff' = putOff \ {e}
    /\ queue' = Append(queue, e)
    /\ UNCHANGED <<rows, drain, rebuild, index, refilled, failures, wipes>>

-----------------------------------------------------------------------------
(* ensurePopulated, on a timer, at boot, or after a search that found      *)
(* nothing: an empty engine is filled again.                               *)
EnsurePopulated ==
    /\ rebuild.at = "rest"
    /\ \A p \in Products : index[p] = 0
    /\ Listed # {}
    /\ rebuild' = [rebuild EXCEPT !.at = "called"]
    /\ refilled' = TRUE
    /\ UNCHANGED <<rows, queue, putOff, drain, index, failures, wipes>>

ReadPage ==
    /\ rebuild.at = "called"
    /\ rebuild' = [at |-> "read", page |-> [p \in Listed |-> version[p]]]
    /\ UNCHANGED <<rows, queue, putOff, drain, index, refilled, failures, wipes>>

WritePage ==
    /\ rebuild.at = "read"
    /\ index' = Written(rebuild.page)
    /\ rebuild' = AtRest
    /\ UNCHANGED <<rows, queue, putOff, drain, refilled, failures, wipes>>

\* The process stops; the drain and the rebuild are gone, the rows are not.
Stop ==
    /\ failures < MaxFailures
    /\ failures' = failures + 1
    /\ drain' = Idle /\ rebuild' = AtRest
    /\ UNCHANGED <<rows, queue, putOff, index, wipes, refilled>>

\* The engine restarts and holds nothing.
Wipe ==
    /\ wipes < MaxWipes
    /\ wipes' = wipes + 1
    /\ index' = [p \in Products |-> 0]
    /\ UNCHANGED <<rows, queue, putOff, drain, rebuild, failures, refilled>>

Init ==
    /\ active = [p \in Products |-> TRUE]
    /\ version = [p \in Products |-> 1]
    /\ index = [p \in Products |-> 1]
    /\ queue = <<>> /\ putOff = {} /\ takenDown = {} /\ removed = {} /\ silent = {}
    /\ drain = Idle /\ rebuild = AtRest
    /\ refilled = FALSE
    /\ changes = 0 /\ failures = 0 /\ wipes = 0

Drain   == ReadDue \/ ReadRows \/ Upsert \/ Remove \/ Complete \/ PutOff
Rebuild == EnsurePopulated \/ ReadPage \/ WritePage

Next ==
    \/ \E p \in Products : Change(p) \/ TakeDown(p) \/ Delete(p) \/ ChangeUnpublished(p)
    \/ Drain \/ DrainFails
    \/ \E e \in putOff : ComesDue(e)
    \/ Rebuild
    \/ Stop \/ Wipe

(* The timer ticks, every backoff ends, and the calls to the engine        *)
(* succeed but for MaxFailures times.                                      *)
Fairness ==
    /\ WF_vars(Drain)
    /\ WF_vars(Rebuild)
    /\ WF_vars(\E e \in putOff : ComesDue(e))

Spec == Init /\ [][Next]_vars /\ Fairness

-----------------------------------------------------------------------------
Due(p) == \E n \in DOMAIN queue : queue[n].product = p

Pending(p) == Due(p) \/ \E e \in putOff : e.product = p

(* Types, and no event is in the table twice.                              *)
SearchTypeOK ==
    /\ active \in [Products -> BOOLEAN]
    /\ version \in [Products -> 1 .. MaxChanges + 1]
    /\ index \in [Products -> 0 .. MaxChanges + 1]
    /\ queue \in Seq(Events) /\ putOff \subseteq Events
    /\ \A n, m \in DOMAIN queue : queue[n].id = queue[m].id => n = m
    /\ \A n \in DOMAIN queue : queue[n] \notin putOff
    /\ drain.at \in {"idle", "due", "read", "upserted", "removed", "failed"}
    /\ drain.batch \in Seq(Events) /\ drain.removals \subseteq Products
    /\ rebuild.at \in {"rest", "called", "read"}
    /\ takenDown \cup removed \cup silent \subseteq Products /\ refilled \in BOOLEAN
    /\ changes \in 0 .. MaxChanges
    /\ failures \in 0 .. MaxFailures /\ wipes \in 0 .. MaxWipes

\* A product may be missing after the engine lost it, or when a REMOVE that
\* failed came due after the product was back on sale.
Excused(p) == wipes > 0 \/ (p \in takenDown /\ failures > 0)

(* A document that is not the product's present one has an event that will *)
(* correct it, whatever was changed between the drain's reads and writes   *)
(* and wherever it failed or stopped, unless the product's last write      *)
(* published none.  A rebuild may write a page that was read before the    *)
(* drain's documents (README), so this is said of the time before one.     *)
StaleIsQueued ==
    ~refilled => \A p \in Products \ silent :
       index[p] # Document(p) => Pending(p) \/ (index[p] = 0 /\ Excused(p))

(* What is not on sale is not found, and what is changed is found changed, *)
(* in the end: no failure loses an event that was published.  And an       *)
(* engine that lost its documents is filled again while nothing changes.   *)
IndexCatchesUp ==
    <>[] /\ ~refilled => \A p \in Products \ silent :
               \/ index[p] = Document(p)
               \/ index[p] = 0 /\ (wipes > 0 \/ p \in takenDown)
         /\ changes = 0 => \A p \in Products : index[p] = Document(p)

=============================================================================
