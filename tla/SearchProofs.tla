---------------------------- MODULE SearchProofs ----------------------------
(***************************************************************************)
(* No failure, stop or change in between makes the search index differ     *)
(* from the products without an event that will correct it, for any        *)
(* products, batch and bounds.                                             *)
(*                                                                         *)
(* While a drain is under way, the events it read are still in the table,  *)
(* so whatever it writes to the index for a product, that product has an   *)
(* event.  The events may only go (Complete) when the index is right, and  *)
(* it is: a product that has an event the drain did not read keeps that    *)
(* one, and of the others the drain read the product as it still is.  Only *)
(* a REMOVE may be older than the row it is handled with, and that needs a *)
(* failure: without one the queue is in the order of publishing.           *)
(***************************************************************************)
EXTENDS SearchOutbox, DataProofs

Partial(range) == UNION {[D -> range] : D \in SUBSET Products}

Versions == 1 .. MaxChanges + 1

TypesOK ==
    /\ active \in [Products -> BOOLEAN]
    /\ version \in [Products -> Versions] /\ index \in [Products -> 0 .. MaxChanges + 1]
    /\ queue \in Seq(Events) /\ putOff \subseteq Events
    /\ drain \in [at : {"idle", "due", "read", "upserted", "removed", "failed"},
                  batch : Seq(Events), upserts : Partial(Versions),
                  removals : SUBSET Products]
    /\ rebuild \in [at : {"rest", "called", "read"}, page : Partial(Versions)]
    /\ takenDown \subseteq Products /\ removed \subseteq Products /\ silent \subseteq Products
    /\ refilled \in BOOLEAN
    /\ changes \in 0 .. MaxChanges
    /\ failures \in 0 .. MaxFailures /\ wipes \in 0 .. MaxWipes
    /\ \A p \in Products : version[p] <= changes + 1

\* Ids are given once, and a product with a REMOVE was taken down.
TableOK ==
    /\ \A n, m \in DOMAIN queue : queue[n].id = queue[m].id => n = m
    /\ \A n \in DOMAIN queue : queue[n].id <= changes
    /\ \A e \in putOff : e.id <= changes /\ \A n \in DOMAIN queue : queue[n].id # e.id
    /\ \A e, f \in putOff : e.id = f.id => e = f
    /\ \A n \in DOMAIN queue : queue[n].kind = "REMOVE" => queue[n].product \in takenDown
    /\ \A e \in putOff : e.kind = "REMOVE" => e.product \in takenDown

Planning == drain.at \in {"read", "upserted", "removed"}

\* The events that were read are still queued, and the plan is for their products.
DrainOK ==
    /\ drain.at = "idle" <=> drain.batch = <<>>
    /\ \A n \in DOMAIN drain.batch : \E m \in DOMAIN queue : queue[m] = drain.batch[n]
    /\ \A n, m \in DOMAIN drain.batch : drain.batch[n].id = drain.batch[m].id => n = m
    /\ Planning =>
          /\ DOMAIN drain.upserts \cap drain.removals = {}
          /\ \A p \in Products : BatchOf(p) # {} <=> p \in DOMAIN drain.upserts \cup drain.removals

LastOf(p, n) == queue[n].product = p /\ \A m \in DOMAIN queue : queue[m].product = p => m <= n

\* Without failures nothing overtakes: a REMOVE that is the last is still right.
InOrder ==
    failures = 0 =>
       /\ putOff = {} /\ drain.at # "failed"
       /\ \A n \in DOMAIN drain.batch : n \in DOMAIN queue /\ queue[n] = drain.batch[n]
       /\ \A p \in Products, n \in DOMAIN queue :
             LastOf(p, n) /\ queue[n].kind = "REMOVE" => p \in silent \/ ~active[p]

\* The drain has read all there is of a product.
Settled(p) ==
    /\ \A n \in DOMAIN queue : queue[n].product = p => InBatch(queue[n])
    /\ \A e \in putOff : e.product # p

\* Of a silent product nothing is said: its last write published no event.
Right(p) == p \in silent \/ index[p] = Document(p) \/ (index[p] = 0 /\ Excused(p))

Gone(p) == p \in silent \/ Document(p) = 0 \/ Excused(p)

\* What the drain is about to write is right for what it has all of.
PlanRight(p) ==
    /\ p \in DOMAIN drain.upserts /\ drain.at = "read" =>
          p \in silent \/ drain.upserts[p] = Document(p)
    /\ p \in DOMAIN drain.upserts /\ drain.at = "upserted" => Right(p)
    /\ p \in drain.removals /\ drain.at \in {"read", "upserted"} => Gone(p)
    /\ drain.at = "removed" => Right(p)

IndexOK ==
    ~refilled =>
       /\ rebuild.at = "rest"
       /\ \A p \in Products : Right(p) \/ Pending(p)
       /\ \A p \in Products : Planning /\ BatchOf(p) # {} /\ Settled(p) => PlanRight(p)

SearchInv == TypesOK /\ TableOK /\ DrainOK /\ InOrder /\ IndexOK

-----------------------------------------------------------------------------
(* Types.                                                                  *)

LEMMA WrittenType ==
    ASSUME TypesOK, NEW D \in SUBSET Products, NEW documents \in [D -> 0 .. MaxChanges + 1]
    PROVE  Written(documents) \in [Products -> 0 .. MaxChanges + 1]
BY DEF Written, TypesOK

LEMMA PartialVersions ==
    ASSUME NEW documents \in Partial(Versions)
    PROVE  \E D \in SUBSET Products : documents \in [D -> 0 .. MaxChanges + 1]
BY DEF Partial, Versions

LEMMA VersionsListed ==
    ASSUME TypesOK, NEW D \in SUBSET Products
    PROVE  [p \in D |-> version[p]] \in Partial(Versions)
<1>1. [p \in D |-> version[p]] \in [D -> Versions]
  BY DEF TypesOK
<1> QED BY <1>1 DEF Partial

LEMMA IdleType ==
    Idle \in [at : {"idle", "due", "read", "upserted", "removed", "failed"},
              batch : Seq(Events), upserts : Partial(Versions), removals : SUBSET Products]
<1>1. Nothing \in Partial(Versions)
  <2>1. Nothing \in [{} -> Versions]
    BY DEF Nothing
  <2> QED BY <2>1 DEF Partial
<1> QED BY <1>1 DEF Idle

LEMMA AtRestType == AtRest \in [at : {"rest", "called", "read"}, page : Partial(Versions)]
<1>1. Nothing \in Partial(Versions)
  <2>1. Nothing \in [{} -> Versions]
    BY DEF Nothing
  <2> QED BY <2>1 DEF Partial
<1> QED BY <1>1 DEF AtRest

Event(p, kind) == [id |-> changes + 1, product |-> p, kind |-> kind]

\* A write that publishes nothing makes its product silent, and no other.
LEMMA Unpublished ==
    ASSUME TypesOK, NEW p \in Products, Delete(p) \/ ChangeUnpublished(p)
    PROVE  /\ changes' = changes + 1 /\ changes' \in 0 .. MaxChanges
           /\ version' \in [Products -> Versions] /\ active' \in [Products -> BOOLEAN]
           /\ \A r \in Products : version'[r] <= changes' + 1
           /\ \A r \in Products \ {p} : version'[r] = version[r] /\ active'[r] = active[r]
           /\ silent' = silent \cup {p} /\ removed' \subseteq Products
           /\ UNCHANGED <<takenDown, queue, putOff, drain, rebuild, index, refilled,
                          failures, wipes>>
<1>1. WriteUnpublished(p)
  BY DEF Delete, ChangeUnpublished
<1>2. changes \in Nat /\ MaxChanges \in Nat /\ changes + 1 \in 1 .. MaxChanges
  BY <1>1, SearchAssumption DEF TypesOK, WriteUnpublished
<1>3. version' = [version EXCEPT ![p] = version[p] + 1]
  BY <1>1 DEF WriteUnpublished
<1>4. /\ version \in [Products -> Versions] /\ active \in [Products -> BOOLEAN]
      /\ \A r \in Products : version[r] <= changes + 1 /\ version[r] \in Nat
  BY DEF TypesOK, Versions
<1>5. version[p] + 1 \in Versions
  BY <1>2, <1>4 DEF Versions
<1>6. version' \in [Products -> Versions] /\ \A r \in Products : version'[r] <= (changes + 1) + 1
  BY <1>2, <1>3, <1>4, <1>5
<1>7. \E sold \in BOOLEAN : active' = [active EXCEPT ![p] = sold]
  BY DEF Delete, ChangeUnpublished
<1>8. active' \in [Products -> BOOLEAN] /\ \A r \in Products \ {p} : active'[r] = active[r]
  BY <1>4, <1>7
<1>9. removed' \subseteq Products
  BY DEF Delete, ChangeUnpublished, TypesOK
<1> QED BY <1>1, <1>2, <1>3, <1>4, <1>6, <1>8, <1>9 DEF WriteUnpublished

\* The event that is published, and what it is published with.
LEMMA Published ==
    ASSUME TypesOK, NEW p \in Products, NEW kind \in Kinds, Publish(p, kind)
    PROVE  /\ Event(p, kind) \in Events /\ Event(p, kind).id = changes + 1
           /\ Event(p, kind).product = p /\ Event(p, kind).kind = kind
           /\ queue' = Append(queue, Event(p, kind))
           /\ changes' = changes + 1 /\ changes' \in 0 .. MaxChanges
           /\ version' \in [Products -> Versions]
           /\ \A r \in Products : version'[r] <= changes' + 1
           /\ \A r \in Products \ {p} : version'[r] = version[r]
           /\ silent' = silent \ {p}
<1>1. changes \in Nat /\ MaxChanges \in Nat /\ changes + 1 \in 1 .. MaxChanges
  BY SearchAssumption DEF TypesOK, Publish
<1>2. Event(p, kind) \in Events
  BY <1>1 DEF Events, Event
<1>3. version' = [version EXCEPT ![p] = version[p] + 1]
  BY DEF Publish
<1>4. /\ version \in [Products -> Versions]
      /\ \A r \in Products : version[r] <= changes + 1 /\ version[r] \in Nat
  BY DEF TypesOK, Versions
<1>5. version[p] + 1 \in Versions
  BY <1>1, <1>4 DEF Versions
<1>6. version' \in [Products -> Versions]
  BY <1>3, <1>4, <1>5
<1>7. \A r \in Products : version'[r] <= (changes + 1) + 1
  BY <1>1, <1>3, <1>4
<1> QED BY <1>1, <1>2, <1>3, <1>4, <1>6, <1>7 DEF Publish, Event

LEMMA TypesStep == ASSUME TypesOK, TableOK, DrainOK, [Next]_vars PROVE TypesOK'
<1> USE SearchAssumption
<1>1. ASSUME NEW p \in Products, Change(p) \/ TakeDown(p) PROVE TypesOK'
  <2>1. PICK kind \in Kinds : Publish(p, kind)
    BY <1>1 DEF Change, TakeDown, Kinds
  <2>2. queue' \in Seq(Events)
    <3>1. Event(p, kind) \in Events /\ queue' = Append(queue, Event(p, kind))
      BY <2>1, Published
    <3> QED BY <3>1, Appended DEF TypesOK
  <2>3. active' \in [Products -> BOOLEAN] /\ takenDown' \subseteq Products /\ removed' \subseteq Products
    BY <1>1 DEF Change, TakeDown, TypesOK
  <2>3a. silent' \subseteq Products
    BY <2>1, Published DEF TypesOK
  <2>4. /\ changes' \in 0 .. MaxChanges /\ version' \in [Products -> Versions]
        /\ \A r \in Products : version'[r] <= changes' + 1
    BY <2>1, Published
  <2>5. UNCHANGED <<putOff, drain, rebuild, index, refilled, failures, wipes>>
    BY <1>1 DEF Change, TakeDown
  <2> QED BY <2>2, <2>3, <2>3a, <2>4, <2>5 DEF TypesOK
<1>1a. ASSUME NEW p \in Products, Delete(p) \/ ChangeUnpublished(p) PROVE TypesOK'
  BY <1>1a, Unpublished DEF TypesOK
<1>2. CASE ReadDue
  <2>1. PICK n \in 1 .. Len(queue) :
           drain' = [Idle EXCEPT !.at = "due", !.batch = SubSeq(queue, 1, n)]
    BY <1>2 DEF ReadDue
  <2>2. SubSeq(queue, 1, n) \in Seq(Events)
    BY DEF TypesOK
  <2> QED BY <1>2, <2>1, <2>2, IdleType DEF ReadDue, TypesOK, rows
<1>3. CASE ReadRows
  <2>1. [p \in LastIs("UPSERT") \cap Listed |-> version[p]] \in Partial(Versions)
    BY VersionsListed DEF LastIs
  <2>2. LastIs("REMOVE") \cup (LastIs("UPSERT") \ Listed) \subseteq Products
    BY DEF LastIs
  <2> QED BY <1>3, <2>1, <2>2 DEF ReadRows, TypesOK, rows
<1>4. CASE Upsert
  <2>1. index' \in [Products -> 0 .. MaxChanges + 1]
    BY <1>4, PartialVersions, WrittenType DEF Upsert, TypesOK
  <2> QED BY <1>4, <2>1 DEF Upsert, TypesOK, rows
<1>5. CASE Remove
  <2>1. [p \in drain.removals |-> 0] \in [drain.removals -> 0 .. MaxChanges + 1]
    OBVIOUS
  <2>2. index' \in [Products -> 0 .. MaxChanges + 1]
    BY <1>5, <2>1, WrittenType DEF Remove, TypesOK
  <2> QED BY <1>5, <2>2 DEF Remove, TypesOK, rows
<1>6. CASE Complete
  <2>1. queue' \in Seq(Events)
    BY <1>6, KeptPlaces DEF Complete, NotRead, TypesOK
  <2> QED BY <1>6, <2>1, IdleType DEF Complete, TypesOK, rows
<1>7. CASE PutOff
  <2>1. queue' \in Seq(Events)
    BY <1>7, KeptPlaces DEF PutOff, TypesOK
  <2>2. drain.batch \in Seq(Events) /\ drain.batch # <<>>
    BY <1>7 DEF PutOff, TypesOK, DrainOK
  <2>3. Head(drain.batch) \in Events /\ Tail(drain.batch) \in Seq(Events)
    BY <2>2
  <2>4. drain' \in [at : {"idle", "due", "read", "upserted", "removed", "failed"},
                    batch : Seq(Events), upserts : Partial(Versions),
                    removals : SUBSET Products]
    BY <1>7, <2>3, IdleType DEF PutOff, TypesOK
  <2> QED BY <1>7, <2>1, <2>3, <2>4 DEF PutOff, TypesOK, rows
<1>8. CASE DrainFails
  <2>1. failures' \in 0 .. MaxFailures
    BY <1>8 DEF DrainFails, TypesOK
  <2>2. drain' \in [at : {"idle", "due", "read", "upserted", "removed", "failed"},
                    batch : Seq(Events), upserts : Partial(Versions),
                    removals : SUBSET Products]
    BY <1>8 DEF DrainFails, TypesOK
  <2> QED BY <1>8, <2>1, <2>2 DEF DrainFails, TypesOK, rows
<1>9. ASSUME NEW e \in putOff, ComesDue(e) PROVE TypesOK'
  <2>1. queue' \in Seq(Events)
    BY <1>9, Appended DEF ComesDue, TypesOK
  <2> QED BY <1>9, <2>1 DEF ComesDue, TypesOK, rows
<1>10. CASE Rebuild
  <2>1. CASE EnsurePopulated
    BY <2>1 DEF EnsurePopulated, TypesOK, rows
  <2>2. CASE ReadPage
    <3>1. [p \in Listed |-> version[p]] \in Partial(Versions)
      BY VersionsListed DEF Listed
    <3> QED BY <2>2, <3>1 DEF ReadPage, TypesOK, rows
  <2>3. CASE WritePage
    <3>1. index' \in [Products -> 0 .. MaxChanges + 1]
      BY <2>3, PartialVersions, WrittenType DEF WritePage, TypesOK
    <3> QED BY <2>3, <3>1, AtRestType DEF WritePage, TypesOK, rows
  <2> QED BY <1>10, <2>1, <2>2, <2>3 DEF Rebuild
<1>11. CASE Stop
  BY <1>11, IdleType, AtRestType DEF Stop, TypesOK, rows
<1>12. CASE Wipe
  BY <1>12 DEF Wipe, TypesOK, rows
<1>13. CASE UNCHANGED vars
  BY <1>13 DEF vars, rows, TypesOK
<1> QED BY <1>1, <1>1a, <1>2, <1>3, <1>4, <1>5, <1>6, <1>7, <1>8, <1>9, <1>10, <1>11, <1>12, <1>13
        DEF Next, Drain

-----------------------------------------------------------------------------
(* The table.                                                              *)

table == <<queue, putOff, changes, takenDown>>

LEMMA EventFields == \A e \in Events : e.id \in Nat /\ e.product \in Products /\ e.kind \in Kinds
<1> SUFFICES ASSUME NEW e \in Events
             PROVE  e.id \in Nat /\ e.product \in Products /\ e.kind \in Kinds
  OBVIOUS
<1>1. e.id \in 1 .. MaxChanges /\ e.product \in Products /\ e.kind \in Kinds
  BY DEF Events
<1> QED BY <1>1, SearchAssumption

\* The events of the table and of the batch.
LEMMA QueueOfEvents ==
    ASSUME TypesOK
    PROVE  /\ DOMAIN queue = 1 .. Len(queue) /\ Len(queue) \in Nat
           /\ \A n \in DOMAIN queue : queue[n] \in Events /\ queue[n].id \in Nat
           /\ \A f \in putOff : f \in Events /\ f.id \in Nat
           /\ DOMAIN drain.batch = 1 .. Len(drain.batch) /\ Len(drain.batch) \in Nat
           /\ \A n \in DOMAIN drain.batch : drain.batch[n] \in Events /\ drain.batch[n].id \in Nat
<1>1. /\ queue \in Seq(Events) /\ drain.batch \in Seq(Events) /\ putOff \subseteq Events
  BY DEF TypesOK
<1>2. /\ DOMAIN queue = 1 .. Len(queue) /\ Len(queue) \in Nat
      /\ \A n \in DOMAIN queue : queue[n] \in Events
  BY <1>1
<1>3. /\ DOMAIN drain.batch = 1 .. Len(drain.batch) /\ Len(drain.batch) \in Nat
      /\ \A n \in DOMAIN drain.batch : drain.batch[n] \in Events
  BY <1>1
<1> QED BY <1>1, <1>2, <1>3, EventFields

LEMMA TableUnchanged == ASSUME TableOK, UNCHANGED table PROVE TableOK'
BY DEF TableOK, table

\* A new event at the end, with an id no other has.
LEMMA AppendKeepsTable ==
    ASSUME TypesOK, TableOK, NEW e \in Events, queue' = Append(queue, e),
           putOff' \subseteq putOff, takenDown \subseteq takenDown',
           changes \in Nat, changes' \in Nat, changes <= changes', e.id <= changes',
           \A n \in DOMAIN queue : queue[n].id # e.id,
           \A f \in putOff' : f.id # e.id,
           e.kind = "REMOVE" => e.product \in takenDown'
    PROVE  TableOK'
<1> DEFINE L == Len(queue)
<1>1. /\ DOMAIN queue = 1 .. L /\ L \in Nat /\ DOMAIN queue' = 1 .. L + 1
      /\ \A n \in 1 .. L : queue'[n] = queue[n]
      /\ queue'[L + 1] = e
  BY Appended DEF TypesOK
<1>2. \A n \in 1 .. L : queue[n] \in Events /\ queue[n].id \in Nat
  BY <1>1, QueueOfEvents
<1>3. \A f \in putOff : f.id \in Nat
  BY QueueOfEvents
<1> HIDE DEF L
<1>4. \A n, m \in DOMAIN queue' : queue'[n].id = queue'[m].id => n = m
  <2> SUFFICES ASSUME NEW n \in 1 .. L + 1, NEW m \in 1 .. L + 1, queue'[n].id = queue'[m].id
               PROVE  n = m
    BY <1>1
  <2>1. CASE n \in 1 .. L /\ m \in 1 .. L
    BY <1>1, <2>1 DEF TableOK
  <2>2. CASE n = L + 1 /\ m \in 1 .. L
    BY <1>1, <2>2
  <2>3. CASE n \in 1 .. L /\ m = L + 1
    BY <1>1, <2>3
  <2>4. CASE n = L + 1 /\ m = L + 1
    BY <2>4
  <2> QED BY <1>1, <2>1, <2>2, <2>3, <2>4
<1>5. ASSUME NEW n \in 1 .. L + 1
      PROVE  /\ queue'[n].id <= changes'
             /\ queue'[n].kind = "REMOVE" => queue'[n].product \in takenDown'
             /\ \A f \in putOff' : queue'[n].id # f.id
  <2>1. CASE n \in 1 .. L
    <3>1. queue[n].id <= changes /\ queue[n].id \in Nat
      BY <1>1, <1>2, <2>1 DEF TableOK
    <3>2. queue'[n].id <= changes'
      BY <1>1, <2>1, <3>1
    <3> QED BY <1>1, <2>1, <3>2 DEF TableOK
  <2>2. CASE n = L + 1
    BY <1>1, <2>2
  <2> QED BY <1>1, <2>1, <2>2
<1>6. ASSUME NEW f \in putOff'
      PROVE  f.id <= changes' /\ (f.kind = "REMOVE" => f.product \in takenDown')
  <2>1. f.id <= changes /\ f.id \in Nat
    BY <1>3 DEF TableOK
  <2>2. f.id <= changes'
    BY <2>1
  <2> QED BY <2>2 DEF TableOK
<1>7. \A f, g \in putOff' : f.id = g.id => f = g
  BY DEF TableOK
<1> QED BY <1>1, <1>4, <1>5, <1>6, <1>7 DEF TableOK

\* The queue of what is left: each event comes from one of the places, in order.
LEMMA KeptQueue ==
    ASSUME TypesOK, NEW places \in SUBSET (DOMAIN queue), queue' = Kept(queue, places)
    PROVE  /\ queue' \in Seq(Events) /\ DOMAIN queue' \subseteq Nat
           /\ \E from \in [DOMAIN queue' -> places] :
                 /\ \A i \in DOMAIN from : queue'[i] = queue[from[i]]
                 /\ \A i, j \in DOMAIN from : i < j => from[i] < from[j]
                 /\ \A k \in places : \E i \in DOMAIN from : from[i] = k
<1> DEFINE kept == Kept(queue, places)
<1>1. queue \in Seq(Events)
  BY DEF TypesOK
<1>2. kept \in Seq(Events)
  BY <1>1, KeptPlaces
<1>3. \E from \in [DOMAIN kept -> places] :
         /\ \A i \in DOMAIN from : kept[i] = queue[from[i]]
         /\ \A i, j \in DOMAIN from : i < j => from[i] < from[j]
         /\ \A k \in places : \E i \in DOMAIN from : from[i] = k
  BY <1>1, KeptPlaces
<1>4. queue' = kept
  OBVIOUS
<1> HIDE DEF kept
<1>5. DOMAIN kept \subseteq Nat
  BY <1>2
<1> QED BY <1>2, <1>3, <1>4, <1>5

\* Some events leave the queue, and those that are put off were among them.
LEMMA KeptKeepsTable ==
    ASSUME TypesOK, TableOK, NEW places \in SUBSET (DOMAIN queue), queue' = Kept(queue, places),
           UNCHANGED <<takenDown, changes>>,
           \A f \in putOff' \ putOff :
              \E k \in DOMAIN queue :
                 f = queue[k] /\ \A n \in places : queue[n].id # queue[k].id,
           \A f, g \in putOff' \ putOff : f = g
    PROVE  TableOK'
<1>1. PICK from \in [DOMAIN queue' -> places] :
         /\ \A i \in DOMAIN from : queue'[i] = queue[from[i]]
         /\ \A i, j \in DOMAIN from : i < j => from[i] < from[j]
  BY KeptQueue
<1>2. DOMAIN from = DOMAIN queue' /\ DOMAIN queue' \subseteq Nat
  BY KeptQueue
<1>3. \A i \in DOMAIN queue' : queue'[i] = queue[from[i]] /\ from[i] \in places
  BY <1>1, <1>2
<1>3a. \A n \in places : n \in DOMAIN queue /\ n \in Nat
  BY DEF TypesOK
<1>4. \A n, m \in DOMAIN queue' : queue'[n].id = queue'[m].id => n = m
  <2> SUFFICES ASSUME NEW n \in DOMAIN queue', NEW m \in DOMAIN queue',
                      queue'[n].id = queue'[m].id
               PROVE  n = m
    OBVIOUS
  <2>1. from[n] = from[m] /\ from[n] \in Nat /\ from[m] \in Nat
    BY <1>3, <1>3a DEF TableOK
  <2>2. n \in Nat /\ m \in Nat
    BY <1>2
  <2>3. (n < m => from[n] < from[m]) /\ (m < n => from[m] < from[n])
    BY <1>1, <1>2
  <2> QED BY <2>1, <2>2, <2>3
<1>4a. \A n \in places : queue[n].id <= changes /\ (queue[n].kind = "REMOVE" => queue[n].product \in takenDown)
  BY <1>3a DEF TableOK
<1>5. changes' = changes /\ takenDown' = takenDown
  OBVIOUS
<1>6. ASSUME NEW f \in putOff'
      PROVE  /\ f.id <= changes' /\ (f.kind = "REMOVE" => f.product \in takenDown')
             /\ \A n \in DOMAIN queue' : queue'[n].id # f.id
  <2>1. CASE f \in putOff
    BY <1>3, <1>3a, <2>1 DEF TableOK
  <2>2. CASE f \notin putOff
    BY <1>3, <1>3a, <2>2 DEF TableOK
  <2> QED BY <2>1, <2>2
<1>7. \A f, g \in putOff' : f.id = g.id => f = g
  BY DEF TableOK
<1>8. \A f \in putOff' : f.id <= changes' /\ \A n \in DOMAIN queue' : queue'[n].id # f.id
  BY <1>6
<1>9. \A f \in putOff' : f.kind = "REMOVE" => f.product \in takenDown'
  BY <1>6
<1>10. \A n \in DOMAIN queue' : queue'[n].id <= changes'
  BY <1>3, <1>4a, <1>5
<1>11. \A n \in DOMAIN queue' : queue'[n].kind = "REMOVE" => queue'[n].product \in takenDown'
  BY <1>3, <1>4a, <1>5
<1> QED BY <1>4, <1>7, <1>8, <1>9, <1>10, <1>11 DEF TableOK

LEMMA PublishKeepsTable ==
    ASSUME TypesOK, TableOK, NEW p \in Products, Change(p) \/ TakeDown(p)
    PROVE  TableOK'
<1>1. PICK kind \in Kinds : /\ Publish(p, kind)
                            /\ kind = "REMOVE" => p \in takenDown'
                            /\ takenDown \subseteq takenDown' /\ putOff' = putOff
  <2>1. CASE Change(p)
    BY <2>1 DEF Change, Kinds
  <2>2. CASE TakeDown(p)
    BY <2>2 DEF TakeDown, Kinds
  <2> QED BY <2>1, <2>2
<1> DEFINE e == Event(p, kind)
<1>2. /\ e \in Events /\ e.id = changes + 1 /\ e.product = p /\ e.kind = kind
      /\ queue' = Append(queue, e)
      /\ changes' = changes + 1 /\ changes \in Nat
  BY <1>1, Published, SearchAssumption DEF TypesOK
<1> HIDE DEF e
<1>3. \A n \in DOMAIN queue : queue[n].id # e.id
  <2> SUFFICES ASSUME NEW n \in DOMAIN queue PROVE queue[n].id # changes + 1
    BY <1>2
  <2>1. queue[n].id \in Nat /\ queue[n].id <= changes
    BY QueueOfEvents DEF TableOK
  <2> QED BY <1>2, <2>1
<1>4. \A f \in putOff' : f.id # e.id
  <2> SUFFICES ASSUME NEW f \in putOff PROVE f.id # changes + 1
    BY <1>1, <1>2
  <2>1. f.id \in Nat /\ f.id <= changes
    BY QueueOfEvents DEF TableOK
  <2> QED BY <1>2, <2>1
<1>5. changes' \in Nat /\ changes <= changes' /\ e.id <= changes'
  BY <1>2
<1> QED BY <1>1, <1>2, <1>3, <1>4, <1>5, AppendKeepsTable

\* The first event of the batch is queued, and no other event has its id.
LEMMA BatchHead ==
    ASSUME TypesOK, DrainOK, PutOff
    PROVE  /\ drain.batch # <<>> /\ Head(drain.batch) = drain.batch[1]
           /\ 1 \in DOMAIN drain.batch
           /\ \E k \in DOMAIN queue : queue[k] = Head(drain.batch)
<1>1. drain.batch \in Seq(Events) /\ drain.batch # <<>>
  BY DEF PutOff, TypesOK, DrainOK
<1>2. 1 \in DOMAIN drain.batch /\ Head(drain.batch) = drain.batch[1]
  BY <1>1
<1> QED BY <1>1, <1>2 DEF DrainOK

LEMMA TableStep == ASSUME TypesOK, TableOK, DrainOK, [Next]_vars PROVE TableOK'
<1>1. ASSUME NEW p \in Products, Change(p) \/ TakeDown(p) PROVE TableOK'
  BY <1>1, PublishKeepsTable
<1>1a. ASSUME NEW p \in Products, Delete(p) \/ ChangeUnpublished(p) PROVE TableOK'
  <2>1. UNCHANGED <<queue, putOff, takenDown>> /\ changes' = changes + 1 /\ changes \in Nat
    BY <1>1a, Unpublished, SearchAssumption DEF TypesOK
  <2>2. \A n \in DOMAIN queue : queue[n].id <= changes'
    BY <2>1, QueueOfEvents DEF TableOK
  <2>3. \A e \in putOff : e.id <= changes'
    BY <2>1, QueueOfEvents DEF TableOK
  <2> QED BY <2>1, <2>2, <2>3 DEF TableOK
<1>2. CASE Complete
  <2>1. queue' = Kept(queue, {n \in DOMAIN queue : ~InBatch(queue[n])})
    BY <1>2 DEF Complete, NotRead
  <2>2. UNCHANGED <<putOff, takenDown, changes>>
    BY <1>2 DEF Complete, rows
  <2> QED BY <2>1, <2>2, KeptKeepsTable
<1>3. CASE PutOff
  <2> DEFINE head == Head(drain.batch)
             places == {n \in DOMAIN queue : queue[n].id # head.id}
  <2>1. PICK k \in DOMAIN queue : queue[k] = head
    BY <1>3, BatchHead
  <2>2. queue' = Kept(queue, places) /\ putOff' = putOff \cup {head}
    BY <1>3 DEF PutOff
  <2>3. \A n \in places : queue[n].id # queue[k].id
    BY <2>1
  <2>4. UNCHANGED <<takenDown, changes>>
    BY <1>3 DEF PutOff, rows
  <2>5. places \in SUBSET (DOMAIN queue)
    OBVIOUS
  <2> HIDE DEF head, places
  <2> QED BY <2>1, <2>2, <2>3, <2>4, <2>5, KeptKeepsTable
<1>4. ASSUME NEW e \in putOff, ComesDue(e) PROVE TableOK'
  <2>1. /\ putOff' = putOff \ {e} /\ queue' = Append(queue, e)
        /\ changes' = changes /\ takenDown' = takenDown
    BY <1>4 DEF ComesDue, rows
  <2>2. e \in Events /\ changes \in Nat
    BY SearchAssumption DEF TypesOK
  <2>3. /\ e.id <= changes /\ (e.kind = "REMOVE" => e.product \in takenDown)
        /\ \A n \in DOMAIN queue : queue[n].id # e.id
        /\ \A f \in putOff' : f.id # e.id
    BY <2>1 DEF TableOK
  <2> QED BY <2>1, <2>2, <2>3, AppendKeepsTable
<1>5. CASE ReadDue \/ ReadRows \/ Upsert \/ Remove \/ DrainFails \/ Rebuild \/ Stop \/ Wipe
           \/ UNCHANGED vars
  <2>1. UNCHANGED table
    BY <1>5 DEF ReadDue, ReadRows, Upsert, Remove, DrainFails, Rebuild, EnsurePopulated, ReadPage,
                WritePage, Stop, Wipe, vars, rows, table
  <2> QED BY <2>1, TableUnchanged
<1> QED BY <1>1, <1>1a, <1>2, <1>3, <1>4, <1>5 DEF Next, Drain

-----------------------------------------------------------------------------
(* The drain.                                                              *)

\* The last event of a product in the batch is of one kind.
LEMMA LastEvents ==
    ASSUME TypesOK
    PROVE  /\ LastIs("UPSERT") \cap LastIs("REMOVE") = {}
           /\ \A p \in Products : BatchOf(p) # {} <=> p \in LastIs("UPSERT") \cup LastIs("REMOVE")
<1>1. ASSUME NEW p \in Products, BatchOf(p) # {}
      PROVE  p \in LastIs("UPSERT") \cup LastIs("REMOVE")
  <2>1. BatchOf(p) \in SUBSET (1 .. Len(drain.batch)) /\ Len(drain.batch) \in Int /\ 1 \in Int
    BY QueueOfEvents DEF BatchOf
  <2>2. IsFiniteSet(1 .. Len(drain.batch))
    BY <2>1, FS_Interval
  <2>3. IsFiniteSet(BatchOf(p)) /\ BatchOf(p) \in SUBSET Nat
    BY <2>1, <2>2, FS_Subset
  <2>4. PICK n \in BatchOf(p) : \A m \in BatchOf(p) : m <= n
    BY <1>1, <2>3, GreatestNumber
  <2>5. drain.batch[n].kind \in {"UPSERT", "REMOVE"}
    BY QueueOfEvents, EventFields DEF BatchOf, Kinds
  <2> QED BY <2>4, <2>5 DEF LastIs
<1>2. ASSUME NEW p \in LastIs("UPSERT") \cap LastIs("REMOVE")
      PROVE  FALSE
  <2>1. PICK n \in BatchOf(p) : (\A m \in BatchOf(p) : m <= n) /\ drain.batch[n].kind = "UPSERT"
    BY DEF LastIs
  <2>2. PICK k \in BatchOf(p) : (\A m \in BatchOf(p) : m <= k) /\ drain.batch[k].kind = "REMOVE"
    BY DEF LastIs
  <2>3. n \in Nat /\ k \in Nat /\ n <= k /\ k <= n
    BY <2>1, <2>2, QueueOfEvents DEF BatchOf
  <2>4. n = k
    BY <2>3
  <2> QED BY <2>1, <2>2, <2>4
<1>3. \A p \in LastIs("UPSERT") \cup LastIs("REMOVE") : BatchOf(p) # {}
  BY DEF LastIs
<1> QED BY <1>1, <1>2, <1>3

LEMMA IdleDrain == ASSUME drain' = Idle PROVE DrainOK'
<1>1. drain'.at = "idle" /\ drain'.batch = <<>>
  BY DEF Idle
<1>2. DOMAIN drain'.batch = {}
  BY <1>1
<1> QED BY <1>1, <1>2 DEF DrainOK, Planning

\* A longer queue still has the events of the batch.
LEMMA GrowingQueue ==
    ASSUME TypesOK, DrainOK, NEW e \in Events, queue' = Append(queue, e), drain' = drain
    PROVE  DrainOK'
<1>1. \A n \in DOMAIN queue : n \in DOMAIN queue' /\ queue'[n] = queue[n]
  BY Appended DEF TypesOK
<1>2. \A n \in DOMAIN drain'.batch : \E m \in DOMAIN queue' : queue'[m] = drain'.batch[n]
  BY <1>1 DEF DrainOK
<1>3. \A p : BatchOf(p)' = BatchOf(p)
  BY DEF BatchOf
<1> QED BY <1>2, <1>3 DEF DrainOK, Planning

\* The drain goes on with the batch and the plan it has.
LEMMA SamePlan ==
    ASSUME TypesOK, DrainOK, NEW at, drain' = [drain EXCEPT !.at = at], queue' = queue,
           drain.at # "idle", at # "idle",
           at \in {"upserted", "removed"} => Planning, at # "read"
    PROVE  DrainOK'
<1>1. /\ drain'.at = at /\ drain'.batch = drain.batch
      /\ drain'.upserts = drain.upserts /\ drain'.removals = drain.removals
  BY DEF TypesOK
<1>2. \A p : BatchOf(p)' = BatchOf(p)
  BY <1>1 DEF BatchOf
<1> QED BY <1>1, <1>2 DEF DrainOK, Planning

LEMMA DrainStep == ASSUME TypesOK, TableOK, DrainOK, [Next]_vars PROVE DrainOK'
<1>1. ASSUME NEW p \in Products, Change(p) \/ TakeDown(p) PROVE DrainOK'
  <2>1. PICK kind \in Kinds : Publish(p, kind)
    BY <1>1 DEF Change, TakeDown, Kinds
  <2>2. Event(p, kind) \in Events /\ queue' = Append(queue, Event(p, kind))
    BY <2>1, Published
  <2>3. drain' = drain
    BY <1>1 DEF Change, TakeDown
  <2> QED BY <2>2, <2>3, GrowingQueue
<1>1a. ASSUME NEW p \in Products, Delete(p) \/ ChangeUnpublished(p) PROVE DrainOK'
  <2>1. drain' = drain /\ queue' = queue
    BY <1>1a, Unpublished
  <2>2. \A r : BatchOf(r)' = BatchOf(r)
    BY <2>1 DEF BatchOf
  <2> QED BY <2>1, <2>2 DEF DrainOK, Planning
<1>2. ASSUME NEW e \in putOff, ComesDue(e) PROVE DrainOK'
  <2>1. e \in Events
    BY DEF TypesOK
  <2> QED BY <1>2, <2>1, GrowingQueue DEF ComesDue
<1>3. CASE ReadDue
  <2>1. PICK n \in 1 .. Len(queue) :
           drain' = [Idle EXCEPT !.at = "due", !.batch = SubSeq(queue, 1, n)]
    BY <1>3 DEF ReadDue
  <2> DEFINE first == SubSeq(queue, 1, n)
  <2>2. drain'.at = "due" /\ drain'.batch = first /\ queue' = queue
    BY <1>3, <2>1 DEF Idle, ReadDue
  <2>3. /\ first # <<>> /\ DOMAIN first = 1 .. n
        /\ \A m \in 1 .. n : m \in DOMAIN queue /\ first[m] = queue[m]
    <3>1. queue \in Seq(Events)
      BY DEF TypesOK
    <3> QED BY <3>1, FirstEntries, Zenon
  <2> HIDE DEF first
  <2>4. \A m, k \in 1 .. n : first[m].id = first[k].id => m = k
    BY <2>3 DEF TableOK
  <2> QED BY <2>2, <2>3, <2>4 DEF DrainOK, Planning
<1>4. CASE ReadRows
  <2>1. /\ drain.at = "due" /\ drain'.at = "read" /\ drain'.batch = drain.batch
        /\ DOMAIN drain'.upserts = LastIs("UPSERT") \cap Listed
        /\ drain'.removals = LastIs("REMOVE") \cup (LastIs("UPSERT") \ Listed)
        /\ queue' = queue
    BY <1>4 DEF ReadRows, TypesOK
  <2>2. \A p : BatchOf(p)' = BatchOf(p)
    BY <2>1 DEF BatchOf
  <2>3. DOMAIN drain'.upserts \cap drain'.removals = {}
    BY <2>1, LastEvents
  <2>4. \A p \in Products :
           BatchOf(p)' # {} <=> p \in DOMAIN drain'.upserts \cup drain'.removals
    BY <2>1, <2>2, LastEvents
  <2> QED BY <2>1, <2>3, <2>4 DEF DrainOK
<1>5. CASE Upsert
  BY <1>5, SamePlan DEF Upsert, Planning
<1>6. CASE Remove
  BY <1>6, SamePlan DEF Remove, Planning
<1>7. CASE DrainFails
  BY <1>7, SamePlan DEF DrainFails
<1>8. CASE Complete
  BY <1>8, IdleDrain DEF Complete
<1>9. CASE PutOff
  <2>1. CASE Len(drain.batch) = 1
    BY <1>9, <2>1, IdleDrain DEF PutOff
  <2>2. CASE Len(drain.batch) # 1
    <3> DEFINE batch == drain.batch
               rest == Tail(drain.batch)
               places == {n \in DOMAIN queue : queue[n].id # Head(drain.batch).id}
    <3>1. drain'.at = "failed" /\ drain'.batch = rest
      BY <1>9, <2>2 DEF PutOff, TypesOK
    <3>2. /\ batch \in Seq(Events) /\ batch # <<>> /\ Len(batch) # 1
          /\ Head(batch) = batch[1] /\ 1 \in DOMAIN batch
      BY <1>9, <2>2, BatchHead DEF TypesOK
    <3>3. /\ rest # <<>> /\ DOMAIN rest \subseteq Nat
          /\ \A n \in DOMAIN rest : n + 1 \in DOMAIN batch /\ rest[n] = batch[n + 1] /\ n + 1 # 1
      BY <3>2, HeadAndRest
    <3>4. queue' = Kept(queue, places) /\ places \in SUBSET (DOMAIN queue)
      BY <1>9 DEF PutOff
    <3>5. \A n, m \in DOMAIN batch : batch[n].id = batch[m].id => n = m
      BY DEF DrainOK
    <3>5a. \A n \in DOMAIN batch : \E m \in DOMAIN queue : queue[m] = batch[n]
      BY DEF DrainOK
    <3>6. \A k \in DOMAIN queue : queue[k].id # batch[1].id => k \in places
      BY <3>2
    <3> HIDE DEF batch, rest, places
    <3>7. PICK from \in [DOMAIN queue' -> places] :
             /\ \A i \in DOMAIN from : queue'[i] = queue[from[i]]
             /\ \A k \in places : \E i \in DOMAIN from : from[i] = k
      BY <3>4, KeptQueue
    <3>8. ASSUME NEW n \in DOMAIN rest
          PROVE  \E m \in DOMAIN queue' : queue'[m] = rest[n]
      <4>1. PICK k \in DOMAIN queue : queue[k] = rest[n]
        BY <3>3, <3>5a
      <4>2. rest[n].id # batch[1].id
        BY <3>2, <3>3, <3>5
      <4>3. k \in places
        BY <3>6, <4>1, <4>2
      <4> QED BY <3>7, <4>1, <4>3
    <3>9. ASSUME NEW n \in DOMAIN rest, NEW m \in DOMAIN rest, rest[n].id = rest[m].id
          PROVE  n = m
      <4>1. n + 1 = m + 1 /\ n \in Nat /\ m \in Nat
        BY <3>3, <3>5, <3>9
      <4> QED BY <4>1
    <3> QED BY <3>1, <3>3, <3>8, <3>9 DEF DrainOK, Planning
  <2> QED BY <2>1, <2>2
<1>10. CASE Stop
  BY <1>10, IdleDrain DEF Stop
<1>11. CASE Rebuild \/ Wipe \/ UNCHANGED vars
  <2>1. drain' = drain /\ queue' = queue
    BY <1>11 DEF Rebuild, EnsurePopulated, ReadPage, WritePage, Wipe, vars
  <2>2. \A p : BatchOf(p)' = BatchOf(p)
    BY <2>1 DEF BatchOf
  <2> QED BY <2>1, <2>2 DEF DrainOK, Planning
<1> QED BY <1>1, <1>1a, <1>2, <1>3, <1>4, <1>5, <1>6, <1>7, <1>8, <1>9, <1>10, <1>11 DEF Next, Drain

-----------------------------------------------------------------------------
(* The order of the queue while nothing has failed.                        *)

LEMMA FailuresAreCounted ==
    ASSUME TypesOK, TypesOK', [Next]_vars, failures' = 0
    PROVE  failures = 0 /\ ~DrainFails /\ ~Stop
<1>1. failures \in Nat
  BY SearchAssumption DEF TypesOK
<1>2. ~DrainFails /\ ~Stop
  BY <1>1 DEF DrainFails, Stop
<1>3. failures' = failures
  <2>1. ASSUME NEW p \in Products, Change(p) \/ TakeDown(p) PROVE failures' = failures
    BY <2>1 DEF Change, TakeDown
  <2>1a. ASSUME NEW p \in Products, Delete(p) \/ ChangeUnpublished(p) PROVE failures' = failures
    BY <2>1a, Unpublished
  <2>2. ASSUME NEW e \in putOff, ComesDue(e) PROVE failures' = failures
    BY <2>2 DEF ComesDue
  <2>3. CASE Drain
    BY <2>3 DEF Drain, ReadDue, ReadRows, Upsert, Remove, Complete, PutOff
  <2>4. CASE Rebuild \/ Wipe \/ UNCHANGED vars
    BY <2>4 DEF Rebuild, EnsurePopulated, ReadPage, WritePage, Wipe, vars
  <2> QED BY <1>2, <2>1, <2>1a, <2>2, <2>3, <2>4 DEF Next
<1> QED BY <1>2, <1>3

\* A new event is the last of its product, and right.
LEMMA PublishKeepsOrder ==
    ASSUME TypesOK, InOrder, failures = 0, NEW p \in Products, Change(p) \/ TakeDown(p)
    PROVE  InOrder'
<1>1. PICK kind \in Kinds : Publish(p, kind) /\ (kind = "REMOVE" => ~active'[p])
  <2>1. CASE Change(p)
    BY <2>1 DEF Change, Kinds
  <2>2. CASE TakeDown(p)
    BY <2>2 DEF TakeDown, Kinds, TypesOK
  <2> QED BY <2>1, <2>2
<1>2. /\ putOff' = putOff /\ drain' = drain /\ failures' = failures
      /\ \A r \in Products \ {p} : active'[r] = active[r] /\ (r \in silent => r \in silent')
  BY <1>1, Published DEF Change, TakeDown, TypesOK
<1> DEFINE e == Event(p, kind)
           L == Len(queue)
<1>3. e \in Events /\ e.product = p /\ e.kind = kind /\ queue' = Append(queue, e)
  BY <1>1, Published
<1> HIDE DEF e
<1>4. /\ DOMAIN queue = 1 .. L /\ L \in Nat /\ DOMAIN queue' = 1 .. L + 1
      /\ \A n \in 1 .. L : queue'[n] = queue[n]
      /\ queue'[L + 1] = e
  BY <1>3, Appended DEF TypesOK
<1> HIDE DEF L
<1>5. \A n \in DOMAIN drain'.batch : n \in DOMAIN queue' /\ queue'[n] = drain'.batch[n]
  BY <1>2, <1>4 DEF InOrder
<1>6. ASSUME NEW r \in Products, NEW n \in DOMAIN queue', LastOf(r, n)', queue'[n].kind = "REMOVE"
      PROVE  r \in silent' \/ ~active'[r]
  <2>1. CASE n = L + 1
    BY <1>1, <1>3, <1>4, <1>6, <2>1 DEF LastOf
  <2>2. CASE n \in 1 .. L
    <3>1. r # p
      <4> SUFFICES ASSUME r = p PROVE FALSE
        OBVIOUS
      <4>1. L + 1 <= n
        BY <1>3, <1>4, <1>6 DEF LastOf
      <4> QED BY <1>4, <2>2, <4>1
    <3>2. LastOf(r, n) /\ queue[n].kind = "REMOVE" /\ n \in DOMAIN queue
      BY <1>4, <1>6, <2>2 DEF LastOf
    <3>3. r \in silent \/ ~active[r]
      BY <3>2 DEF InOrder
    <3> QED BY <1>2, <3>1, <3>3
  <2> QED BY <1>4, <2>1, <2>2
<1> QED BY <1>2, <1>5, <1>6 DEF InOrder

\* What is left of the queue is what came after the batch.
LEMMA CompleteKeepsOrder ==
    ASSUME TypesOK, TableOK, InOrder, failures = 0, Complete
    PROVE  InOrder'
<1> DEFINE places == {n \in DOMAIN queue : ~InBatch(queue[n])}
<1>1. /\ queue' = Kept(queue, places) /\ places \in SUBSET (DOMAIN queue)
      /\ drain' = Idle /\ putOff' = putOff /\ UNCHANGED <<active, silent, failures>>
  BY DEF Complete, NotRead, rows
<1>2. drain'.at # "failed" /\ DOMAIN drain'.batch = {}
  BY <1>1 DEF Idle
<1>3. \A n \in DOMAIN queue \ places : n \in DOMAIN drain.batch
  BY DEF InBatch, InOrder, TableOK
<1>4. \A n \in DOMAIN drain.batch : n \in DOMAIN queue \ places
  BY DEF InBatch, InOrder
<1>5. /\ DOMAIN queue \subseteq Nat
      /\ \A n \in DOMAIN drain.batch : \A m \in Nat : 1 <= m /\ m <= n => m \in DOMAIN drain.batch
      /\ \A n \in DOMAIN queue : 1 <= n
  BY QueueOfEvents
<1> HIDE DEF places
<1>6. PICK from \in [DOMAIN queue' -> places] :
         /\ \A i \in DOMAIN from : queue'[i] = queue[from[i]]
         /\ \A i, j \in DOMAIN from : i < j => from[i] < from[j]
         /\ \A k \in places : \E i \in DOMAIN from : from[i] = k
  BY <1>1, KeptQueue
<1>7. DOMAIN queue' \subseteq Nat
  BY <1>1, KeptQueue
<1>8. ASSUME NEW r \in Products, NEW i \in DOMAIN queue', LastOf(r, i)', queue'[i].kind = "REMOVE"
      PROVE  r \in silent' \/ ~active'[r]
  <2>1. /\ from[i] \in places /\ from[i] \in DOMAIN queue /\ queue[from[i]] = queue'[i]
        /\ queue[from[i]].product = r
    BY <1>1, <1>6, <1>8 DEF LastOf
  <2>2. ASSUME NEW m \in DOMAIN queue, queue[m].product = r
        PROVE  m <= from[i]
    <3>1. m \in Nat /\ from[i] \in Nat /\ 1 <= m /\ 1 <= from[i]
      BY <1>5, <2>1
    <3>2. CASE m \in places
      <4>1. PICK j \in DOMAIN queue' : from[j] = m
        BY <1>6, <3>2
      <4>2. queue'[j].product = r
        BY <1>6, <2>2, <4>1
      <4>3. j <= i /\ i \in Nat /\ j \in Nat
        BY <1>7, <1>8, <4>2 DEF LastOf
      <4>4. j < i => from[j] < from[i]
        BY <1>6
      <4> QED BY <3>1, <4>1, <4>3, <4>4
    <3>3. CASE m \notin places
      <4>1. m \in DOMAIN drain.batch
        BY <1>3, <3>3
      <4>2. from[i] \notin DOMAIN drain.batch
        BY <1>4, <2>1
      <4>3. ~(from[i] <= m)
        BY <1>5, <3>1, <4>1, <4>2
      <4> QED BY <3>1, <4>3
    <3> QED BY <3>2, <3>3
  <2>3. LastOf(r, from[i]) /\ queue[from[i]].kind = "REMOVE"
    BY <1>8, <2>1, <2>2 DEF LastOf
  <2> QED BY <1>1, <2>1, <2>3 DEF InOrder
<1> QED BY <1>1, <1>2, <1>8 DEF InOrder

LEMMA OrderStep == ASSUME TypesOK, TypesOK', TableOK, DrainOK, InOrder, [Next]_vars PROVE InOrder'
<1> SUFFICES ASSUME failures' = 0 PROVE InOrder'
  BY DEF InOrder
<1>0. failures = 0 /\ ~DrainFails /\ ~Stop /\ putOff = {} /\ drain.at # "failed"
  BY FailuresAreCounted DEF InOrder
<1>1. ASSUME NEW p \in Products, Change(p) \/ TakeDown(p) PROVE InOrder'
  BY <1>0, <1>1, PublishKeepsOrder
<1>1a. ASSUME NEW p \in Products, Delete(p) \/ ChangeUnpublished(p) PROVE InOrder'
  <2>1. /\ UNCHANGED <<queue, putOff, drain>> /\ silent' = silent \cup {p}
        /\ \A r \in Products \ {p} : active'[r] = active[r]
    BY <1>1a, Unpublished
  <2>2. \A r, m : LastOf(r, m)' = LastOf(r, m)
    BY <2>1 DEF LastOf
  <2>3. ASSUME NEW r \in Products, NEW n \in DOMAIN queue, LastOf(r, n), queue[n].kind = "REMOVE"
        PROVE  r \in silent' \/ ~active'[r]
    <3>1. r \in silent \/ ~active[r]
      BY <1>0, <2>3 DEF InOrder
    <3> QED BY <2>1, <3>1
  <2> QED BY <1>0, <2>1, <2>2, <2>3 DEF InOrder
<1>2. CASE Complete
  BY <1>0, <1>2, CompleteKeepsOrder
<1>3. CASE ReadDue
  <2>1. PICK n \in 1 .. Len(queue) :
           drain' = [Idle EXCEPT !.at = "due", !.batch = SubSeq(queue, 1, n)]
    BY <1>3 DEF ReadDue
  <2>2. /\ DOMAIN SubSeq(queue, 1, n) = 1 .. n
        /\ \A m \in 1 .. n : m \in DOMAIN queue /\ SubSeq(queue, 1, n)[m] = queue[m]
    BY FirstEntries DEF TypesOK
  <2>3. drain'.at = "due" /\ drain'.batch = SubSeq(queue, 1, n)
    BY <2>1 DEF Idle
  <2>4. UNCHANGED <<queue, putOff, active, silent, failures>>
    BY <1>3 DEF ReadDue, rows
  <2>5. \A r, m : LastOf(r, m)' = LastOf(r, m)
    BY <2>4 DEF LastOf
  <2> QED BY <2>2, <2>3, <2>4, <2>5 DEF InOrder
<1>4. CASE ReadRows \/ Upsert \/ Remove
  <2>1. drain'.at # "failed" /\ drain'.batch = drain.batch
    BY <1>4 DEF ReadRows, Upsert, Remove, TypesOK
  <2>2. UNCHANGED <<queue, putOff, active, silent, failures>>
    BY <1>4 DEF ReadRows, Upsert, Remove, rows
  <2>3. \A r, m : LastOf(r, m)' = LastOf(r, m)
    BY <2>2 DEF LastOf
  <2> QED BY <2>1, <2>2, <2>3 DEF InOrder
<1>5. CASE Rebuild \/ Wipe \/ UNCHANGED vars
  <2>1. UNCHANGED <<queue, putOff, active, silent, failures, drain>>
    BY <1>5 DEF Rebuild, EnsurePopulated, ReadPage, WritePage, Wipe, rows, vars
  <2>2. \A r, m : LastOf(r, m)' = LastOf(r, m)
    BY <2>1 DEF LastOf
  <2> QED BY <2>1, <2>2 DEF InOrder
<1>6. ~PutOff
  BY <1>0 DEF PutOff
<1> QED BY <1>0, <1>1, <1>1a, <1>2, <1>3, <1>4, <1>5, <1>6 DEF Next, Drain

-----------------------------------------------------------------------------
(* The index.                                                              *)

\* What excuses a missing document does not go away.
LEMMA ExcusesStay ==
    ASSUME TypesOK, TypesOK', [Next]_vars, NEW p, Excused(p)
    PROVE  Excused(p)'
<1>1. wipes \in Nat /\ failures \in Nat
  BY SearchAssumption DEF TypesOK
<1>2. takenDown \subseteq takenDown' /\ wipes <= wipes' /\ failures <= failures'
  <2>1. ASSUME NEW r \in Products, Change(r) \/ TakeDown(r)
        PROVE  takenDown \subseteq takenDown' /\ wipes' = wipes /\ failures' = failures
    BY <2>1 DEF Change, TakeDown
  <2>1a. ASSUME NEW r \in Products, Delete(r) \/ ChangeUnpublished(r)
         PROVE  UNCHANGED <<takenDown, wipes, failures>>
    BY <2>1a, Unpublished
  <2>2. ASSUME NEW e \in putOff, ComesDue(e)
        PROVE  UNCHANGED <<takenDown, wipes, failures>>
    BY <2>2 DEF ComesDue, rows
  <2>3. ASSUME Drain \/ Rebuild
        PROVE  UNCHANGED <<takenDown, wipes, failures>>
    BY <2>3 DEF Drain, ReadDue, ReadRows, Upsert, Remove, Complete, PutOff, Rebuild,
                EnsurePopulated, ReadPage, WritePage, rows
  <2>4. ASSUME DrainFails \/ Stop
        PROVE  takenDown' = takenDown /\ wipes' = wipes /\ failures' = failures + 1
    BY <2>4 DEF DrainFails, Stop, rows
  <2>5. ASSUME Wipe
        PROVE  takenDown' = takenDown /\ wipes' = wipes + 1 /\ failures' = failures
    BY <2>5 DEF Wipe, rows
  <2>6. ASSUME UNCHANGED vars
        PROVE  UNCHANGED <<takenDown, wipes, failures>>
    BY <2>6 DEF vars, rows
  <2> QED BY <1>1, <2>1, <2>1a, <2>2, <2>3, <2>4, <2>5, <2>6 DEF Next
<1>3. wipes' \in Nat /\ failures' \in Nat
  BY SearchAssumption DEF TypesOK
<1> QED BY <1>1, <1>2, <1>3 DEF Excused

\* A step that writes neither the product, its document nor the table.
LEMMA SameIndex ==
    ASSUME TypesOK, TypesOK', [Next]_vars, IndexOK, UNCHANGED <<active, silent, version, index, rebuild, refilled>>,
           \A p \in Products : Pending(p) => Pending(p)',
           \A p \in Products : Planning' /\ BatchOf(p)' # {} /\ Settled(p)' /\ ~refilled
                                  => PlanRight(p)'
    PROVE  IndexOK'
<1>1. \A p \in Products : Document(p)' = Document(p) /\ index'[p] = index[p]
  BY DEF Document
<1>2. \A p \in Products : Right(p) => Right(p)'
  BY <1>1, ExcusesStay DEF Right
<1> QED BY <1>2 DEF IndexOK

\* An event of the batch is one of the queue.
LEMMA BatchIsPending ==
    ASSUME TypesOK, DrainOK, NEW p \in Products, BatchOf(p) # {}
    PROVE  Pending(p)
<1>1. PICK n \in DOMAIN drain.batch : drain.batch[n].product = p
  BY DEF BatchOf
<1>2. PICK m \in DOMAIN queue : queue[m] = drain.batch[n]
  BY DEF DrainOK
<1> QED BY <1>1, <1>2 DEF Pending, Due

\* A published product has an event the drain has not read.
LEMMA PublishKeepsIndex ==
    ASSUME TypesOK, TypesOK', [Next]_vars, TableOK, DrainOK, IndexOK,
           NEW p \in Products, Change(p) \/ TakeDown(p)
    PROVE  IndexOK'
<1> SUFFICES ASSUME ~refilled' PROVE IndexOK'
  BY DEF IndexOK
<1>1. PICK kind \in Kinds : Publish(p, kind)
  BY DEF Change, TakeDown, Kinds
<1>2. /\ UNCHANGED <<putOff, drain, rebuild, index, refilled>>
      /\ \A r \in Products \ {p} : active'[r] = active[r] /\ version'[r] = version[r]
      /\ silent' = silent \ {p}
  BY <1>1, Published DEF Change, TakeDown, TypesOK
<1> DEFINE e == Event(p, kind)
           L == Len(queue)
<1>3. e \in Events /\ e.product = p /\ e.id = changes + 1 /\ queue' = Append(queue, e)
  BY <1>1, Published
<1> HIDE DEF e
<1>4. /\ DOMAIN queue = 1 .. L /\ L \in Nat /\ DOMAIN queue' = 1 .. L + 1
      /\ \A n \in 1 .. L : queue'[n] = queue[n]
      /\ queue'[L + 1] = e
  BY <1>3, Appended DEF TypesOK
<1> HIDE DEF L
<1>5. L + 1 \in DOMAIN queue' /\ \A n \in DOMAIN queue : n \in DOMAIN queue' /\ queue'[n] = queue[n]
  BY <1>4
<1>6. Pending(p)' /\ \A r \in Products : Pending(r) => Pending(r)'
  BY <1>2, <1>3, <1>4, <1>5 DEF Pending, Due
<1>7. \A r : BatchOf(r)' = BatchOf(r)
  BY <1>2 DEF BatchOf
<1>8. \A f : InBatch(f)' = InBatch(f)
  BY <1>2 DEF InBatch
<1>9. ~InBatch(e)
  <2> SUFFICES ASSUME NEW n \in DOMAIN drain.batch, drain.batch[n].id = changes + 1 PROVE FALSE
    BY <1>3 DEF InBatch
  <2>1. PICK m \in DOMAIN queue : queue[m] = drain.batch[n]
    BY DEF DrainOK
  <2>2. queue[m].id <= changes /\ queue[m].id \in Nat
    BY QueueOfEvents DEF TableOK
  <2>3. changes \in Nat
    BY SearchAssumption DEF TypesOK
  <2> QED BY <2>1, <2>2, <2>3
<1>10. ~Settled(p)'
  BY <1>3, <1>4, <1>5, <1>8, <1>9 DEF Settled
<1>11. ASSUME NEW r \in Products \ {p}, Settled(r)' PROVE Settled(r)
  BY <1>2, <1>5, <1>8, <1>11 DEF Settled
<1>12. ASSUME NEW r \in Products \ {p}
       PROVE  /\ Document(r)' = Document(r) /\ (Excused(r) => Excused(r)')
              /\ index'[r] = index[r] /\ (r \in silent => r \in silent')
  BY <1>2, ExcusesStay DEF Document
<1>13. ASSUME NEW r \in Products \ {p} PROVE Right(r) => Right(r)'
  BY <1>12 DEF Right
<1>14. ASSUME NEW r \in Products \ {p} PROVE PlanRight(r) => PlanRight(r)'
  BY <1>2, <1>12, <1>13 DEF PlanRight, Gone
<1>15. Planning' = Planning
  BY <1>2 DEF Planning
<1> QED BY <1>2, <1>6, <1>7, <1>10, <1>11, <1>13, <1>14, <1>15 DEF IndexOK

\* A product whose write published nothing is silent; of the others nothing changed.
LEMMA UnpublishedKeepsIndex ==
    ASSUME TypesOK, TypesOK', [Next]_vars, IndexOK,
           NEW p \in Products, Delete(p) \/ ChangeUnpublished(p)
    PROVE  IndexOK'
<1>1. /\ UNCHANGED <<takenDown, queue, putOff, drain, rebuild, index, refilled, failures, wipes>>
      /\ \A r \in Products \ {p} : version'[r] = version[r] /\ active'[r] = active[r]
      /\ silent' = silent \cup {p}
  BY Unpublished
<1>2. /\ \A r : Pending(r)' = Pending(r)
      /\ \A r : BatchOf(r)' = BatchOf(r)
      /\ \A r : Excused(r)' = Excused(r)
      /\ Planning' = Planning
  BY <1>1 DEF Pending, Due, BatchOf, Excused, Planning
<1>3. \A r : Settled(r)' = Settled(r)
  BY <1>1 DEF Settled, InBatch
<1>4. \A r \in Products \ {p} : Document(r)' = Document(r)
  BY <1>1 DEF Document
<1>5. \A r \in Products : (Right(r) => Right(r)') /\ (Gone(r) => Gone(r)')
  BY <1>1, <1>2, <1>4 DEF Right, Gone
<1>6. ASSUME NEW r \in Products, PlanRight(r) PROVE PlanRight(r)'
  BY <1>1, <1>4, <1>5, <1>6 DEF PlanRight
<1> QED BY <1>1, <1>2, <1>3, <1>5, <1>6 DEF IndexOK

\* What the drain reads of a settled product is what the index should have.
LEMMA ReadRowsKeepsIndex ==
    ASSUME TypesOK, TypesOK', [Next]_vars, TableOK, DrainOK, InOrder, IndexOK, ReadRows
    PROVE  IndexOK'
<1>1. /\ drain'.at = "read" /\ drain'.batch = drain.batch
      /\ drain'.upserts = [p \in LastIs("UPSERT") \cap Listed |-> version[p]]
      /\ drain'.removals = LastIs("REMOVE") \cup (LastIs("UPSERT") \ Listed)
      /\ UNCHANGED <<rows, queue, putOff, rebuild, index, refilled, failures, wipes>>
  BY DEF ReadRows, TypesOK
<1>2. /\ \A r : Pending(r)' = Pending(r)
      /\ \A r : BatchOf(r)' = BatchOf(r)
      /\ \A r : Document(r)' = Document(r) /\ Excused(r)' = Excused(r)
  BY <1>1 DEF Pending, Due, BatchOf, Document, Excused, rows
<1>3. \A r : Settled(r)' = Settled(r)
  BY <1>1 DEF Settled, InBatch
<1>4. ASSUME NEW p \in Products, Settled(p)
      PROVE  PlanRight(p)'
  <2>1. ASSUME p \in DOMAIN drain'.upserts
        PROVE  p \in silent' \/ drain'.upserts[p] = Document(p)'
    <3>1. p \in LastIs("UPSERT") \cap Listed /\ drain'.upserts[p] = version[p]
      BY <1>1, <2>1
    <3> QED BY <1>2, <3>1 DEF Listed, Document
  <2>2. ASSUME p \in drain'.removals, p \notin silent, Document(p) # 0
        PROVE  Excused(p)
    <3>1. active[p]
      BY <2>2 DEF Document
    <3>2. p \in LastIs("REMOVE")
      BY <1>1, <2>2, <3>1 DEF Listed
    <3>3. PICK n \in BatchOf(p) : (\A m \in BatchOf(p) : m <= n) /\ drain.batch[n].kind = "REMOVE"
      BY <3>2 DEF LastIs
    <3>4. n \in DOMAIN drain.batch /\ drain.batch[n].product = p
      BY DEF BatchOf
    <3>5. PICK k \in DOMAIN queue : queue[k] = drain.batch[n]
      BY <3>4 DEF DrainOK
    <3>6. p \in takenDown
      BY <3>3, <3>4, <3>5 DEF TableOK
    <3>7. failures # 0
      <4> SUFFICES ASSUME failures = 0 PROVE FALSE
        OBVIOUS
      <4>1. \A m \in DOMAIN drain.batch : m \in DOMAIN queue /\ queue[m] = drain.batch[m]
        BY DEF InOrder
      <4>2. ASSUME NEW m \in DOMAIN queue, queue[m].product = p
            PROVE  m <= n
        <5>1. PICK j \in DOMAIN drain.batch : drain.batch[j].id = queue[m].id
          BY <1>4, <4>2 DEF Settled, InBatch
        <5>2. j = m
          BY <4>1, <5>1 DEF TableOK
        <5>3. m \in BatchOf(p)
          BY <4>1, <4>2, <5>1, <5>2 DEF BatchOf
        <5> QED BY <3>3, <5>3
      <4>3. LastOf(p, n) /\ queue[n].kind = "REMOVE" /\ n \in DOMAIN queue
        BY <3>3, <3>4, <4>1, <4>2 DEF LastOf
      <4> QED BY <2>2, <3>1, <4>3 DEF InOrder
    <3>8. failures \in Nat
      BY SearchAssumption DEF TypesOK
    <3> QED BY <3>6, <3>7, <3>8 DEF Excused
  <2>3. p \in drain'.removals => Gone(p)'
    BY <1>1, <1>2, <2>2 DEF Gone, rows
  <2>4. drain'.at # "upserted" /\ drain'.at # "removed"
    BY <1>1
  <2> QED BY <2>1, <2>3, <2>4 DEF PlanRight
<1>5. UNCHANGED <<active, silent, version, index, rebuild, refilled>>
  BY <1>1 DEF rows
<1> QED BY <1>2, <1>3, <1>4, <1>5, SameIndex

LEMMA UpsertKeepsIndex ==
    ASSUME TypesOK, TypesOK', [Next]_vars, DrainOK, IndexOK, Upsert
    PROVE  IndexOK'
<1> SUFFICES ASSUME ~refilled' PROVE IndexOK'
  BY DEF IndexOK
<1>1. /\ drain.at = "read" /\ drain'.at = "upserted" /\ drain'.batch = drain.batch
      /\ drain'.upserts = drain.upserts /\ drain'.removals = drain.removals
      /\ UNCHANGED <<rows, queue, putOff, rebuild, refilled, failures, wipes>>
      /\ \A p \in Products : index'[p] = IF p \in DOMAIN drain.upserts THEN drain.upserts[p] ELSE index[p]
  BY DEF Upsert, TypesOK, Written
<1>2. /\ \A r : Pending(r)' = Pending(r)
      /\ \A r : BatchOf(r)' = BatchOf(r)
      /\ \A r : Document(r)' = Document(r) /\ Excused(r)' = Excused(r)
      /\ silent' = silent /\ Planning /\ Planning'
  BY <1>1 DEF Pending, Due, BatchOf, Document, Excused, rows, Planning
<1>3. \A r : Settled(r)' = Settled(r)
  BY <1>1 DEF Settled, InBatch
<1>4. ASSUME NEW p \in Products
      PROVE  Right(p)' \/ Pending(p)'
  <2>1. CASE p \in DOMAIN drain.upserts
    BY <1>2, <2>1, BatchIsPending DEF DrainOK
  <2>2. CASE p \notin DOMAIN drain.upserts
    BY <1>1, <1>2, <2>2 DEF IndexOK, Right
  <2> QED BY <2>1, <2>2
<1>5. ASSUME NEW p \in Products, BatchOf(p) # {}, Settled(p)
      PROVE  PlanRight(p)'
  <2>1. PlanRight(p)
    BY <1>1, <1>2, <1>5 DEF IndexOK
  <2>2. p \in DOMAIN drain'.upserts => Right(p)'
    BY <1>1, <1>2, <2>1 DEF PlanRight, Right
  <2>3. p \in drain'.removals => Gone(p)'
    BY <1>1, <1>2, <2>1 DEF PlanRight, Gone
  <2> QED BY <1>1, <2>2, <2>3 DEF PlanRight
<1> QED BY <1>1, <1>2, <1>3, <1>4, <1>5 DEF IndexOK

LEMMA RemoveKeepsIndex ==
    ASSUME TypesOK, TypesOK', [Next]_vars, DrainOK, IndexOK, Remove
    PROVE  IndexOK'
<1> SUFFICES ASSUME ~refilled' PROVE IndexOK'
  BY DEF IndexOK
<1>1. /\ drain.at = "upserted" /\ drain'.at = "removed" /\ drain'.batch = drain.batch
      /\ UNCHANGED <<rows, queue, putOff, rebuild, refilled, failures, wipes>>
      /\ \A p \in Products : index'[p] = IF p \in drain.removals THEN 0 ELSE index[p]
  BY DEF Remove, TypesOK, Written
<1>2. /\ \A r : Pending(r)' = Pending(r)
      /\ \A r : BatchOf(r)' = BatchOf(r)
      /\ \A r : Document(r)' = Document(r) /\ Excused(r)' = Excused(r)
      /\ silent' = silent /\ Planning /\ Planning'
  BY <1>1 DEF Pending, Due, BatchOf, Document, Excused, rows, Planning
<1>3. \A r : Settled(r)' = Settled(r)
  BY <1>1 DEF Settled, InBatch
<1>4. ASSUME NEW p \in Products
      PROVE  Right(p)' \/ Pending(p)'
  <2>1. CASE p \in drain.removals
    BY <1>2, <2>1, BatchIsPending DEF DrainOK
  <2>2. CASE p \notin drain.removals
    BY <1>1, <1>2, <2>2 DEF IndexOK, Right
  <2> QED BY <2>1, <2>2
<1>5. ASSUME NEW p \in Products, BatchOf(p) # {}, Settled(p)
      PROVE  Right(p)'
  <2>1. PlanRight(p) /\ p \in DOMAIN drain.upserts \cup drain.removals
    BY <1>1, <1>2, <1>5 DEF IndexOK, DrainOK
  <2>2. CASE p \in drain.removals
    BY <1>1, <1>2, <2>1, <2>2 DEF PlanRight, Gone, Right
  <2>3. CASE p \notin drain.removals
    BY <1>1, <1>2, <2>1, <2>3 DEF PlanRight, Right
  <2> QED BY <2>2, <2>3
<1> QED BY <1>1, <1>2, <1>3, <1>4, <1>5 DEF IndexOK, PlanRight

\* Only what was read leaves the queue, and the index has it right.
LEMMA CompleteKeepsIndex ==
    ASSUME TypesOK, TypesOK', [Next]_vars, TableOK, DrainOK, IndexOK, Complete
    PROVE  IndexOK'
<1> SUFFICES ASSUME ~refilled' PROVE IndexOK'
  BY DEF IndexOK
<1> DEFINE places == {n \in DOMAIN queue : ~InBatch(queue[n])}
<1>1. /\ drain.at = "removed" /\ ~Planning' /\ Planning
      /\ queue' = Kept(queue, places) /\ places \in SUBSET (DOMAIN queue)
      /\ UNCHANGED <<rows, putOff, rebuild, index, refilled, failures, wipes>>
  BY DEF Complete, NotRead, Planning, Idle
<1>2. \A k \in DOMAIN queue : k \notin places => InBatch(queue[k])
  OBVIOUS
<1> HIDE DEF places
<1>3. PICK from \in [DOMAIN queue' -> places] :
         /\ \A i \in DOMAIN from : queue'[i] = queue[from[i]]
         /\ \A k \in places : \E i \in DOMAIN from : from[i] = k
  BY <1>1, KeptQueue
<1>4. \A r : Document(r)' = Document(r) /\ Excused(r)' = Excused(r) /\ Right(r)' = Right(r)
  BY <1>1 DEF Document, Excused, Right, rows
<1>5. ASSUME NEW p \in Products, ~Pending(p)'
      PROVE  Right(p)
  <2>1. \A e \in putOff : e.product # p
    BY <1>1, <1>5 DEF Pending
  <2>2. \A k \in DOMAIN queue : queue[k].product = p => k \notin places
    BY <1>3, <1>5 DEF Pending, Due
  <2>3. Settled(p)
    BY <1>2, <2>1, <2>2 DEF Settled
  <2>4. CASE Pending(p)
    <3>1. PICK k \in DOMAIN queue : queue[k].product = p
      BY <2>1, <2>4 DEF Pending, Due
    <3>2. PICK n \in DOMAIN drain.batch : drain.batch[n].id = queue[k].id
      BY <1>2, <2>2, <3>1 DEF InBatch
    <3>3. PICK m \in DOMAIN queue : queue[m] = drain.batch[n]
      BY DEF DrainOK
    <3>4. m = k
      BY <3>2, <3>3 DEF TableOK
    <3>5. BatchOf(p) # {}
      BY <3>1, <3>3, <3>4 DEF BatchOf
    <3> QED BY <1>1, <2>3, <3>5 DEF IndexOK, PlanRight
  <2>5. CASE ~Pending(p)
    BY <1>1, <2>5 DEF IndexOK
  <2> QED BY <2>4, <2>5
<1> QED BY <1>1, <1>4, <1>5 DEF IndexOK

\* An event that is put off is still to come.
LEMMA PutOffKeepsIndex ==
    ASSUME TypesOK, TypesOK', [Next]_vars, TableOK, DrainOK, IndexOK, PutOff
    PROVE  IndexOK'
<1> DEFINE head == Head(drain.batch)
           places == {n \in DOMAIN queue : queue[n].id # head.id}
<1>1. /\ queue' = Kept(queue, places) /\ places \in SUBSET (DOMAIN queue)
      /\ putOff' = putOff \cup {head}
      /\ UNCHANGED <<active, silent, version, index, rebuild, refilled>>
  BY DEF PutOff, rows
<1>2. ~Planning'
  BY DEF PutOff, Planning, Idle, TypesOK
<1>3. PICK k \in DOMAIN queue : queue[k] = head
  BY BatchHead
<1>4. \A n \in DOMAIN queue : n \notin places => queue[n].id = head.id
  OBVIOUS
<1> HIDE DEF head, places
<1>5. PICK from \in [DOMAIN queue' -> places] :
         /\ \A i \in DOMAIN from : queue'[i] = queue[from[i]]
         /\ \A n \in places : \E i \in DOMAIN from : from[i] = n
  BY <1>1, KeptQueue
<1>6. ASSUME NEW p \in Products, Pending(p) PROVE Pending(p)'
  <2>1. CASE \E e \in putOff : e.product = p
    BY <1>1, <2>1 DEF Pending
  <2>2. CASE Due(p)
    <3>1. PICK n \in DOMAIN queue : queue[n].product = p
      BY <2>2 DEF Due
    <3>2. CASE n \in places
      BY <1>5, <3>1, <3>2 DEF Pending, Due
    <3>3. CASE n \notin places
      <4>1. n = k
        BY <1>3, <1>4, <3>3 DEF TableOK
      <4> QED BY <1>1, <1>3, <3>1, <4>1 DEF Pending
    <3> QED BY <3>2, <3>3
  <2> QED BY <1>6, <2>1, <2>2 DEF Pending
<1> QED BY <1>1, <1>2, <1>6, SameIndex

\* An event that comes due is one the drain has not read.
LEMMA ComesDueKeepsIndex ==
    ASSUME TypesOK, TypesOK', [Next]_vars, TableOK, DrainOK, IndexOK, NEW e \in putOff, ComesDue(e)
    PROVE  IndexOK'
<1> DEFINE L == Len(queue)
<1>1. /\ putOff' = putOff \ {e} /\ queue' = Append(queue, e) /\ drain' = drain
      /\ UNCHANGED <<rows, drain, rebuild, index, refilled, failures, wipes>>
  BY DEF ComesDue
<1>2. e \in Events
  BY DEF TypesOK
<1>3. /\ DOMAIN queue = 1 .. L /\ L \in Nat /\ DOMAIN queue' = 1 .. L + 1
      /\ \A n \in 1 .. L : queue'[n] = queue[n]
      /\ queue'[L + 1] = e
  BY <1>1, <1>2, Appended DEF TypesOK
<1> HIDE DEF L
<1>4. L + 1 \in DOMAIN queue' /\ \A n \in DOMAIN queue : n \in DOMAIN queue' /\ queue'[n] = queue[n]
  BY <1>3
<1>5. ASSUME NEW p \in Products, Pending(p) PROVE Pending(p)'
  BY <1>1, <1>3, <1>4, <1>5 DEF Pending, Due
<1>6. /\ \A f : InBatch(f)' = InBatch(f)
      /\ \A r : BatchOf(r)' = BatchOf(r)
      /\ \A r : Document(r)' = Document(r) /\ Excused(r)' = Excused(r) /\ Right(r)' = Right(r)
      /\ \A r : PlanRight(r)' = PlanRight(r)
      /\ Planning' = Planning
  BY <1>1 DEF InBatch, BatchOf, Document, Excused, Right, PlanRight, Gone, Planning, rows
<1>7. ~InBatch(e)
  BY DEF InBatch, DrainOK, TableOK
<1>8. ASSUME NEW p \in Products, Settled(p)' PROVE Settled(p)
  <2>1. e.product # p
    BY <1>3, <1>4, <1>6, <1>7, <1>8 DEF Settled
  <2>2. \A f \in putOff : f.product # p
    BY <1>1, <1>8, <2>1 DEF Settled
  <2>3. \A n \in DOMAIN queue : queue[n].product = p => InBatch(queue[n])
    BY <1>4, <1>6, <1>8 DEF Settled
  <2> QED BY <2>2, <2>3 DEF Settled
<1>9. UNCHANGED <<active, silent, version, index, rebuild, refilled>>
  BY <1>1 DEF rows
<1> QED BY <1>5, <1>6, <1>8, <1>9, SameIndex DEF IndexOK

\* A product that is missing after the engine was restarted is excused.
LEMMA WipeKeepsIndex ==
    ASSUME TypesOK, TypesOK', [Next]_vars, IndexOK, Wipe
    PROVE  IndexOK'
<1>1. /\ wipes' = wipes + 1 /\ \A p \in Products : index'[p] = 0
      /\ UNCHANGED <<rows, queue, putOff, drain, rebuild, failures, refilled>>
  BY DEF Wipe
<1>2. wipes \in Nat
  BY SearchAssumption DEF TypesOK
<1>3. \A p \in Products : Excused(p)' /\ Right(p)'
  BY <1>1, <1>2 DEF Excused, Right
<1>4. /\ \A r : Document(r)' = Document(r)
      /\ \A r : BatchOf(r)' = BatchOf(r)
      /\ Planning' = Planning /\ silent' = silent
  BY <1>1 DEF Document, BatchOf, Planning, rows
<1>5. \A r : Settled(r)' = Settled(r)
  BY <1>1 DEF Settled, InBatch
<1>6. ASSUME NEW p \in Products, PlanRight(p) PROVE PlanRight(p)'
  BY <1>1, <1>3, <1>4, <1>6 DEF PlanRight, Gone
<1> QED BY <1>1, <1>3, <1>4, <1>5, <1>6 DEF IndexOK

LEMMA IndexStep ==
    ASSUME TypesOK, TypesOK', TableOK, DrainOK, InOrder, IndexOK, [Next]_vars
    PROVE  IndexOK'
<1>1. ASSUME NEW p \in Products, Change(p) \/ TakeDown(p) PROVE IndexOK'
  BY <1>1, PublishKeepsIndex
<1>1a. ASSUME NEW p \in Products, Delete(p) \/ ChangeUnpublished(p) PROVE IndexOK'
  BY <1>1a, UnpublishedKeepsIndex
<1>2. CASE ReadDue \/ DrainFails \/ Stop
  <2>1. UNCHANGED <<active, silent, version, index, refilled, queue, putOff>>
    BY <1>2 DEF ReadDue, DrainFails, Stop, rows
  <2>1a. drain'.at \in {"due", "failed", "idle"}
    <3>1. CASE ReadDue
      <4>1. PICK n \in 1 .. Len(queue) :
               drain' = [Idle EXCEPT !.at = "due", !.batch = SubSeq(queue, 1, n)]
        BY <3>1 DEF ReadDue
      <4> QED BY <4>1 DEF Idle
    <3>2. CASE DrainFails
      BY <3>2 DEF DrainFails, TypesOK
    <3>3. CASE Stop
      BY <3>3 DEF Stop, Idle
    <3> QED BY <1>2, <3>1, <3>2, <3>3
  <2>1b. ~Planning'
    BY <2>1a DEF Planning
  <2>2. \A p : Pending(p)' = Pending(p)
    BY <2>1 DEF Pending, Due
  <2>3. rebuild' = rebuild \/ rebuild' = AtRest
    BY <1>2 DEF ReadDue, DrainFails, Stop
  <2>4. \A p \in Products : Document(p)' = Document(p)
    BY <2>1 DEF Document
  <2>5. \A p \in Products : Right(p) => Right(p)'
    BY <2>1, <2>4, ExcusesStay DEF Right
  <2> QED BY <2>1, <2>1b, <2>2, <2>3, <2>5 DEF IndexOK, AtRest
<1>3. CASE ReadRows
  BY <1>3, ReadRowsKeepsIndex
<1>4. CASE Upsert
  BY <1>4, UpsertKeepsIndex
<1>5. CASE Remove
  BY <1>5, RemoveKeepsIndex
<1>6. CASE Complete
  BY <1>6, CompleteKeepsIndex
<1>7. CASE PutOff
  BY <1>7, PutOffKeepsIndex
<1>8. ASSUME NEW e \in putOff, ComesDue(e) PROVE IndexOK'
  BY <1>8, ComesDueKeepsIndex
<1>9. CASE Rebuild
  BY <1>9 DEF Rebuild, EnsurePopulated, ReadPage, WritePage, IndexOK
<1>10. CASE Wipe
  BY <1>10, WipeKeepsIndex
<1>11. CASE UNCHANGED vars
  <2>1. /\ \A p : Pending(p)' = Pending(p) /\ BatchOf(p)' = BatchOf(p) /\ Settled(p)' = Settled(p)
        /\ \A p : Right(p)' = Right(p) /\ PlanRight(p)' = PlanRight(p)
        /\ Planning' = Planning /\ rebuild' = rebuild /\ refilled' = refilled
    BY <1>11 DEF vars, rows, Pending, Due, BatchOf, Settled, InBatch, Right, PlanRight, Gone,
                 Excused, Document, Planning
  <2> QED BY <2>1 DEF IndexOK
<1> QED BY <1>1, <1>1a, <1>2, <1>3, <1>4, <1>5, <1>6, <1>7, <1>8, <1>9, <1>10, <1>11 DEF Next, Drain

-----------------------------------------------------------------------------
(* The table, the drain and the index fit together in every state.         *)
THEOREM SearchInvariant == Spec => []SearchInv
<1>1. Init => SearchInv
  <2> SUFFICES ASSUME Init PROVE SearchInv
    OBVIOUS
  <2>1. TypesOK
    <3>1. 1 \in Versions /\ 1 \in 0 .. MaxChanges + 1 /\ 0 \in 0 .. MaxChanges
          /\ 0 \in 0 .. MaxFailures /\ 0 \in 0 .. MaxWipes /\ 1 <= 0 + 1
      BY SearchAssumption DEF Versions
    <3>2. /\ active = [p \in Products |-> TRUE] /\ version = [p \in Products |-> 1]
          /\ index = [p \in Products |-> 1] /\ changes = 0
          /\ queue = <<>> /\ putOff = {} /\ takenDown = {} /\ refilled = FALSE
          /\ removed = {} /\ silent = {}
      BY DEF Init
    <3>2a. active \in [Products -> BOOLEAN] /\ version \in [Products -> Versions]
      BY <3>1, <3>2
    <3>2b. index \in [Products -> 0 .. MaxChanges + 1]
      BY <3>1, <3>2
    <3>2c. /\ queue \in Seq(Events) /\ putOff \subseteq Events
           /\ takenDown \subseteq Products /\ removed \subseteq Products
           /\ silent \subseteq Products /\ refilled \in BOOLEAN
      <4>1. <<>> \in Seq(Events) /\ {} \subseteq Events /\ {} \subseteq Products
        OBVIOUS
      <4>2. queue \in Seq(Events)
        BY <3>2, <4>1, Zenon
      <4>3. refilled \in BOOLEAN
        BY <3>2
      <4> QED BY <3>2, <4>1, <4>2, <4>3
    <3>2d. \A p \in Products : version[p] <= changes + 1
      BY <3>1, <3>2
    <3>3. drain = Idle /\ rebuild = AtRest /\ changes = 0 /\ failures = 0 /\ wipes = 0
      BY DEF Init
    <3> QED BY <3>1, <3>2a, <3>2b, <3>2c, <3>2d, <3>3, IdleType, AtRestType DEF TypesOK
  <2>2. DOMAIN queue = {} /\ putOff = {}
    BY DEF Init
  <2>3. TableOK
    BY <2>2 DEF TableOK
  <2>4. DOMAIN drain.batch = {} /\ drain.at = "idle" /\ drain.batch = <<>>
    BY DEF Init, Idle
  <2>5. DrainOK
    BY <2>4 DEF DrainOK, Planning
  <2>6. InOrder
    BY <2>2, <2>4 DEF InOrder
  <2>7. IndexOK
    BY <2>4 DEF Init, IndexOK, Right, Document, Planning, AtRest
  <2> QED BY <2>1, <2>3, <2>5, <2>6, <2>7 DEF SearchInv
<1>2. SearchInv /\ [Next]_vars => SearchInv'
  BY TypesStep, TableStep, DrainStep, OrderStep, IndexStep DEF SearchInv
<1> QED BY <1>1, <1>2, PTL DEF Spec

(* Types, and no event is in the table twice.                              *)
THEOREM SearchTypes == Spec => []SearchTypeOK
<1>1. SearchInv => SearchTypeOK
  <2> SUFFICES ASSUME TypesOK, TableOK PROVE SearchTypeOK
    BY DEF SearchInv
  <2>1. version \in [Products -> 1 .. MaxChanges + 1]
    BY DEF TypesOK, Versions
  <2>2. \A n \in DOMAIN queue : queue[n] \notin putOff
    BY DEF TableOK
  <2>3. drain.at \in {"idle", "due", "read", "upserted", "removed", "failed"}
        /\ drain.batch \in Seq(Events) /\ drain.removals \subseteq Products
        /\ rebuild.at \in {"rest", "called", "read"}
    BY DEF TypesOK
  <2>4. \A n, m \in DOMAIN queue : queue[n].id = queue[m].id => n = m
    BY DEF TableOK
  <2> QED BY <2>1, <2>2, <2>3, <2>4 DEF TypesOK, SearchTypeOK
<1> QED BY <1>1, SearchInvariant, PTL

(* A document that is out of date has an event that will correct it, unless *)
(* the product's last write published none, the engine lost the document,   *)
(* or a failed REMOVE overtook the product's return.                        *)
THEOREM StaleDocumentsAreQueued == Spec => []StaleIsQueued
<1>1. SearchInv => StaleIsQueued
  BY DEF SearchInv, IndexOK, Right, StaleIsQueued
<1> QED BY <1>1, SearchInvariant, PTL

=============================================================================
