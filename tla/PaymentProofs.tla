---------------------------- MODULE PaymentProofs ----------------------------
(***************************************************************************)
(* What holds of the payments for any orders, payments, methods and        *)
(* amounts: unless an answer could not be read, no order is charged twice  *)
(* and a failed payment has no money; always, the books are covered and    *)
(* every change of status is one of the table's.                           *)
(*                                                                         *)
(* The inductive invariant says, beside these, what the service may rely   *)
(* on when it acts on something it read earlier: a payment that was never  *)
(* claimed was never asked for, a grace that is over means a request that  *)
(* is decided, an answer kept in memory is still true when it lands, and   *)
(* an authorization that was listed is still stranded.                     *)
(***************************************************************************)
EXTENDS Payment, TLAPS

Decided(p) == bank[p] \in {"none", "refused", "lost"}

(* What a row says of the request made for it.                             *)
AskedOnlyWhenClaimed ==
    \A p \in Payments :
       /\ ~claimed[p] => bank[p] = "none"
       /\ aged[p] => bank[p] # "sent"
       /\ status[p] = "NONE" => bank[p] = "none"

(* What was read and not yet acted upon is still so.                       *)
ReadIsTrue ==
    \A p \in Payments :
       /\ "approved" \in asked[p] => bank[p] = "charged"
       /\ "declined" \in asked[p] => Decided(p)
       /\ asked[p] # {} => status[p] \notin {"NONE", "READY"}
       /\ p \in abandoned => ~held[OrderOf[p]]

\* A payment that counts as the order's present one.
Alive(p) == status[p] \notin {"NONE", "FAILED"}

(* The rows of an order are its payments, each once, and one is alive.     *)
RowsAreTheOrders ==
    \A o \in Orders :
       /\ \A i \in DOMAIN rows[o] :
             OrderOf[rows[o][i]] = o /\ status[rows[o][i]] # "NONE"
       /\ \A i, j \in DOMAIN rows[o] : rows[o][i] = rows[o][j] => i = j

OneAlive ==
    \A p, q \in Payments :
       /\ status[p] # "NONE" => \E i \in DOMAIN rows[OrderOf[p]] : rows[OrderOf[p]][i] = p
       /\ OrderOf[p] = OrderOf[q] /\ Alive(p) /\ Alive(q) => p = q

BooksClosed ==
    \A p \in Payments :
       status[p] \notin {"PARTIAL_CANCELED", "CANCELED"} => canceled[p] = 0

IInv ==
    /\ PaymentTypeOK
    /\ AskedOnlyWhenClaimed
    /\ ReadIsTrue
    /\ FailedHoldsNoMoney
    /\ BooksAreCovered
    /\ BooksClosed
    /\ RowsAreTheOrders
    /\ OneAlive

-----------------------------------------------------------------------------
LEMMA InitIsSound == Init => IInv
<1> SUFFICES ASSUME Init PROVE IInv
  OBVIOUS
<1>1. PaymentTypeOK
  BY PaymentAssumption DEF Init, PaymentTypeOK, Statuses
<1>2. AskedOnlyWhenClaimed /\ ReadIsTrue /\ FailedHoldsNoMoney
  BY PaymentAssumption DEF Init, AskedOnlyWhenClaimed, ReadIsTrue, FailedHoldsNoMoney
<1>3. BooksAreCovered /\ BooksClosed
  BY PaymentAssumption DEF Init, BooksAreCovered, BooksClosed
<1>4. RowsAreTheOrders /\ OneAlive
  BY PaymentAssumption DEF Init, RowsAreTheOrders, OneAlive, Alive
<1> QED BY <1>1, <1>2, <1>3, <1>4 DEF IInv

(* A step that leaves the rows alone and lets no payment come to life      *)
(* keeps what is known of an order's payments.                             *)
LEMMA RowsKept ==
    ASSUME IInv, UNCHANGED rows, status' \in [Payments -> Statuses \cup {"NONE"}],
           \A p \in Payments :
              /\ status[p] = "NONE" <=> status'[p] = "NONE"
              /\ status[p] = "FAILED" => status'[p] = "FAILED"
    PROVE  RowsAreTheOrders' /\ OneAlive'
<1>1. \A o \in Orders : \A i \in DOMAIN rows[o] : rows[o][i] \in Payments
  BY DEF IInv, PaymentTypeOK
<1>2. RowsAreTheOrders'
  BY <1>1 DEF IInv, RowsAreTheOrders
<1>3. OneAlive'
  BY DEF IInv, OneAlive, Alive
<1> QED BY <1>2, <1>3

-----------------------------------------------------------------------------
(* The shopper's steps, and the jobs'.                                     *)

\* A new payment takes the place of one that nobody asked for.
LEMMA StartKeeps ==
    ASSUME IInv, NEW p \in Payments, NEW chosen \in Methods, Start(p, chosen)
    PROVE  IInv'
<1> DEFINE o == OrderOf[p]
           alive == {i \in DOMAIN rows[o] : status[rows[o][i]] # "FAILED"}
<1>0. o \in Orders
  BY PaymentAssumption
<1>1. rows \in [Orders -> Seq(Payments)]
  BY DEF IInv, PaymentTypeOK
<1>2. \A i \in alive, j \in alive : i = j
  BY <1>0, <1>1 DEF IInv, RowsAreTheOrders, OneAlive, Alive
<1>3. \A q \in Payments : OrderOf[q] = o /\ Alive(q) => q \in Previous(o)
  <2> SUFFICES ASSUME NEW q \in Payments, OrderOf[q] = o, Alive(q) PROVE q \in Previous(o)
    OBVIOUS
  <2>1. PICK i \in DOMAIN rows[o] : rows[o][i] = q
    BY DEF IInv, OneAlive, Alive
  <2>2. i \in alive
    BY <2>1 DEF Alive
  <2>3. i \in Nat
    BY <1>0, <1>1
  <2>4. alive = {i}
    BY <1>2, <2>2
  <2>5. (CHOOSE k \in alive : \A j \in alive : j <= k) = i
    BY <2>3, <2>4
  <2> HIDE DEF alive
  <2>6. Previous(o) = {rows[o][CHOOSE k \in alive : \A j \in alive : j <= k]}
    BY <2>2 DEF Previous, alive
  <2> QED BY <2>1, <2>5, <2>6
<1>4. Previous(o) \subseteq Payments /\ p \notin Previous(o)
  <2>1. CASE alive = {}
    BY <2>1 DEF Previous
  <2>2. CASE alive # {}
    <3>1. PICK i \in alive : alive = {i}
      BY <1>2, <2>2
    <3>2. i \in DOMAIN rows[o] /\ i \in Nat
      BY <1>0, <1>1
    <3>3. (CHOOSE k \in alive : \A j \in alive : j <= k) = i
      BY <3>1, <3>2
    <3> HIDE DEF alive
    <3>4. Previous(o) = {rows[o][i]}
      BY <2>2, <3>3 DEF Previous, alive
    <3> QED BY <1>0, <1>1, <3>2, <3>4 DEF IInv, RowsAreTheOrders, Start
  <2> QED BY <2>1, <2>2
<1>5. /\ status[p] = "NONE"
      /\ \A q \in Previous(o) : status[q] = "READY" /\ ~claimed[q]
      /\ status' = [q \in Payments |-> IF q = p THEN "READY"
                        ELSE IF q \in Previous(o) THEN "FAILED" ELSE status[q]]
      /\ rows' = [rows EXCEPT ![o] = Append(@, p)]
  BY DEF Start
<1> HIDE DEF o, alive
<1>6. /\ UNCHANGED <<canceled, claimed, keyed, aged, calling, asked, abandoned, bank, paidBack, lost, misread, shares, held>>
      /\ method' = [method EXCEPT ![p] = chosen]
  BY DEF Start, callVars, moneyVars, orderVars
<1>7. PaymentTypeOK'
  BY <1>0, <1>1, <1>5, <1>6 DEF IInv, PaymentTypeOK, Statuses
<1>8. AskedOnlyWhenClaimed' /\ ReadIsTrue' /\ FailedHoldsNoMoney'
  BY <1>5, <1>6 DEF IInv, AskedOnlyWhenClaimed, ReadIsTrue, FailedHoldsNoMoney, Decided
<1>9. BooksAreCovered' /\ BooksClosed'
  BY <1>5, <1>6, PaymentAssumption DEF IInv, BooksAreCovered, BooksClosed
<1>10. RowsAreTheOrders'
  <2> SUFFICES ASSUME NEW r \in Orders
               PROVE  /\ \A i \in DOMAIN rows'[r] :
                            OrderOf[rows'[r][i]] = r /\ status'[rows'[r][i]] # "NONE"
                      /\ \A i, j \in DOMAIN rows'[r] : rows'[r][i] = rows'[r][j] => i = j
    BY DEF RowsAreTheOrders
  <2>1. /\ \A i \in DOMAIN rows[r] : OrderOf[rows[r][i]] = r /\ status[rows[r][i]] # "NONE"
        /\ \A i, j \in DOMAIN rows[r] : rows[r][i] = rows[r][j] => i = j
    BY DEF IInv, RowsAreTheOrders
  <2>2. \A i \in DOMAIN rows[r] : rows[r][i] \in Payments /\ rows[r][i] # p
    BY <1>1, <1>5, <2>1
  <2>3. CASE r = o
    <3>1. rows'[r] = Append(rows[r], p) /\ rows[r] \in Seq(Payments)
      BY <1>0, <1>1, <1>5, <2>3
    <3>2. /\ DOMAIN rows'[r] = DOMAIN rows[r] \cup {Len(rows[r]) + 1}
          /\ \A i \in DOMAIN rows[r] : rows'[r][i] = rows[r][i]
          /\ rows'[r][Len(rows[r]) + 1] = p
      BY <3>1
    <3> QED BY <1>5, <2>1, <2>2, <2>3, <3>2 DEF o
  <2>4. CASE r # o
    BY <1>5, <2>1, <2>2, <2>4
  <2> QED BY <2>3, <2>4
<1>11. OneAlive'
  <2>1. ASSUME NEW q \in Payments, status'[q] # "NONE"
        PROVE  \E i \in DOMAIN rows'[OrderOf[q]] : rows'[OrderOf[q]][i] = q
    <3> DEFINE r == OrderOf[q]
    <3>1. r \in Orders
      BY PaymentAssumption
    <3>2. CASE q = p
      <4>1. rows'[o] = Append(rows[o], p) /\ rows[o] \in Seq(Payments)
        BY <1>0, <1>1, <1>5
      <4>2. Len(rows[o]) + 1 \in DOMAIN rows'[o] /\ rows'[o][Len(rows[o]) + 1] = p
        BY <4>1
      <4> QED BY <3>2, <4>2 DEF o
    <3>3. CASE q # p
      <4>1. PICK i \in DOMAIN rows[r] : rows[r][i] = q
        BY <1>5, <2>1, <3>3 DEF IInv, OneAlive
      <4>2. rows'[r] = rows[r] \/ rows'[r] = Append(rows[r], p)
        BY <1>1, <1>5, <3>1
      <4>3. rows[r] \in Seq(Payments)
        BY <1>1, <3>1
      <4>4. i \in DOMAIN rows'[r] /\ rows'[r][i] = q
        BY <4>1, <4>2, <4>3
      <4> QED BY <4>4
    <3> QED BY <3>2, <3>3
  <2>2. ASSUME NEW q \in Payments, NEW r \in Payments,
               OrderOf[q] = OrderOf[r], Alive(q)', Alive(r)'
        PROVE  q = r
    <3>1. \A s \in Payments : Alive(s)' => s = p \/ (Alive(s) /\ s \notin Previous(o))
      BY <1>5 DEF Alive
    <3>2. \A s \in Payments : Alive(s)' /\ OrderOf[s] = o => s = p
      BY <1>3, <3>1
    <3>3. CASE OrderOf[q] = o
      BY <2>2, <3>2, <3>3
    <3>4. CASE OrderOf[q] # o
      BY <2>2, <3>1, <3>4 DEF IInv, OneAlive, o
    <3> QED BY <3>3, <3>4
  <2> QED BY <2>1, <2>2 DEF OneAlive
<1> QED BY <1>7, <1>8, <1>9, <1>10, <1>11 DEF IInv

\* The rows of the transition table the steps below ask for.
LEMMA TableRows ==
    ASSUME NEW from \in Statuses \cup {"NONE"}
    PROVE  /\ CanTransition(from, "PAID") => from = "AUTHORIZED"
           /\ CanTransition(from, "PARTIAL_CANCELED") => from \in {"PAID", "PARTIAL_CANCELED"}
BY DEF CanTransition, PaymentTransitions, Statuses

\* A key is bound before the payment is claimed.
LEMMA BindKeyKeeps ==
    ASSUME IInv, NEW p \in Payments, BindKey(p)
    PROVE  IInv'
<1> USE DEF IInv, BindKey, callVars, moneyVars, orderVars, rowVars
<1>1. PaymentTypeOK'
  BY PaymentAssumption DEF PaymentTypeOK, Statuses
<1>2. AskedOnlyWhenClaimed' /\ ReadIsTrue' /\ FailedHoldsNoMoney'
  BY PaymentAssumption DEF PaymentTypeOK, AskedOnlyWhenClaimed, ReadIsTrue, FailedHoldsNoMoney,
     BooksAreCovered, Decided
<1>3. BooksAreCovered' /\ BooksClosed'
  BY PaymentAssumption DEF PaymentTypeOK, BooksAreCovered, BooksClosed, ReadIsTrue
<1>4. RowsAreTheOrders' /\ OneAlive'
  BY <1>1, RowsKept DEF PaymentTypeOK
<1> QED BY <1>1, <1>2, <1>3, <1>4

\* The claim is what a request at the provider follows.
LEMMA ClaimKeeps ==
    ASSUME IInv, NEW p \in Payments, Claim(p)
    PROVE  IInv'
<1> USE DEF IInv, Claim, callVars, moneyVars, orderVars, rowVars
<1>1. PaymentTypeOK'
  BY PaymentAssumption DEF PaymentTypeOK, Statuses
<1>2. AskedOnlyWhenClaimed' /\ ReadIsTrue' /\ FailedHoldsNoMoney'
  BY PaymentAssumption DEF PaymentTypeOK, AskedOnlyWhenClaimed, ReadIsTrue, FailedHoldsNoMoney,
     BooksAreCovered, Decided
<1>3. BooksAreCovered' /\ BooksClosed'
  BY PaymentAssumption DEF PaymentTypeOK, BooksAreCovered, BooksClosed, ReadIsTrue
<1>4. RowsAreTheOrders' /\ OneAlive'
  BY <1>1, RowsKept DEF PaymentTypeOK
<1> QED BY <1>1, <1>2, <1>3, <1>4

\* An answer lands on the row it was asked for, or nowhere.
LEMMA LandKeeps ==
    ASSUME IInv, NEW p \in Payments, NEW outcome \in Outcomes(p), Land(p, outcome)
    PROVE  IInv'
<1> USE DEF IInv, callVars, moneyVars, orderVars, rowVars
<1>0. /\ calling' = [calling EXCEPT ![p] = FALSE]
      /\ UNCHANGED <<canceled, rows, method, claimed, keyed, asked, abandoned,
                     bank, paidBack, lost, shares, held>>
  BY DEF Land
<1>1. aged' \in [Payments -> BOOLEAN] /\ \A q \in Payments : aged'[q] => aged[q]
  <2>1. aged \in [Payments -> BOOLEAN]
    BY DEF PaymentTypeOK
  <2>2. UNCHANGED aged \/ aged' = [aged EXCEPT ![p] = @ /\ outcome # "unknown"]
    BY DEF Land
  <2>3. CASE UNCHANGED aged
    BY <2>1, <2>3
  <2>4. CASE aged' = [aged EXCEPT ![p] = @ /\ outcome # "unknown"]
    BY <2>1, <2>4, Zenon
  <2> QED BY <2>2, <2>3, <2>4
<1>2. \/ UNCHANGED status
      \/ /\ status[p] = "READY"
         /\ \/ status' = [status EXCEPT ![p] = "AUTHORIZED"] /\ bank[p] = "charged"
            \/ status' = [status EXCEPT ![p] = "FAILED"] /\ (Decided(p) \/ p \in misread')
            \/ status' = [status EXCEPT ![p] = "UNRESOLVED"]
  <2>1. outcome \in {"approved", "declined", "unreadable", "unknown"}
    BY DEF Outcomes, PaymentTypeOK
  <2>2. /\ outcome = "approved" => bank[p] = "charged" /\ Landing(outcome) = "AUTHORIZED"
        /\ outcome = "declined" => Decided(p) /\ Landing(outcome) = "FAILED"
        /\ outcome = "unreadable" => Landing(outcome) = "FAILED"
        /\ outcome = "unknown" => Landing(outcome) = "UNRESOLVED"
    BY DEF Outcomes, Landing, PaymentTypeOK, Decided
  <2> QED BY <2>1, <2>2 DEF Land, Move, Misreads
<1>7. misread \subseteq misread' /\ misread' \subseteq Payments
  BY DEF Land, Misreads, PaymentTypeOK
<1>3. PaymentTypeOK'
  <2>1. status' \in [Payments -> Statuses \cup {"NONE"}]
    BY <1>2, ZenonT(40) DEF PaymentTypeOK, Statuses
  <2>2. \A flag \in {claimed', keyed', calling', aged'} : flag \in [Payments -> BOOLEAN]
    BY <1>0, <1>1 DEF PaymentTypeOK
  <2> QED BY <1>0, <1>7, <2>1, <2>2 DEF PaymentTypeOK
<1>4. AskedOnlyWhenClaimed' /\ ReadIsTrue' /\ FailedHoldsNoMoney'
  <2>1. AskedOnlyWhenClaimed'
    BY <1>0, <1>1, <1>2 DEF PaymentTypeOK, AskedOnlyWhenClaimed, Decided
  <2>2. ReadIsTrue'
    BY <1>0, <1>1, <1>2 DEF PaymentTypeOK, ReadIsTrue, Decided
  <2>3. FailedHoldsNoMoney'
    BY <1>0, <1>7, <1>1, <1>2 DEF PaymentTypeOK, FailedHoldsNoMoney, Decided
  <2> QED BY <2>1, <2>2, <2>3
<1>5. BooksAreCovered' /\ BooksClosed'
  BY <1>0, <1>2, ZenonT(40) DEF PaymentTypeOK, BooksAreCovered, BooksClosed
<1>6. RowsAreTheOrders' /\ OneAlive'
  BY <1>0, <1>2, <1>3, RowsKept DEF PaymentTypeOK
<1> QED BY <1>3, <1>4, <1>5, <1>6

\* A capture finds the money there.
LEMMA CaptureKeeps ==
    ASSUME IInv, NEW p \in Payments, Capture(p)
    PROVE  IInv'
<1> USE DEF IInv, callVars, moneyVars, orderVars, rowVars
<1>0. /\ status[p] = "AUTHORIZED" /\ status' = [status EXCEPT ![p] = "PAID"]
      /\ UNCHANGED <<canceled, aged, rows, method, claimed, keyed, calling, asked,
                     abandoned, bank, paidBack, lost, misread, shares, held>>
  BY TableRows DEF Capture, Move, PaymentTypeOK
<1>1. PaymentTypeOK'
  BY <1>0 DEF PaymentTypeOK, Statuses
<1>2. AskedOnlyWhenClaimed' /\ ReadIsTrue' /\ FailedHoldsNoMoney'
  BY <1>0 DEF PaymentTypeOK, AskedOnlyWhenClaimed, ReadIsTrue, FailedHoldsNoMoney, Decided
<1>3. BooksAreCovered' /\ BooksClosed'
  BY <1>0 DEF PaymentTypeOK, BooksAreCovered, BooksClosed
<1>4. RowsAreTheOrders' /\ OneAlive'
  BY <1>0, <1>1, RowsKept DEF PaymentTypeOK
<1> QED BY <1>1, <1>2, <1>3, <1>4

\* An order that is paid has no holds left.
LEMMA MarkPaidKeeps ==
    ASSUME IInv, NEW p \in Payments, MarkPaid(p)
    PROVE  IInv'
<1> USE DEF IInv, MarkPaid, callVars, moneyVars, orderVars, rowVars
<1>1. PaymentTypeOK'
  BY PaymentAssumption DEF PaymentTypeOK, Statuses
<1>2. AskedOnlyWhenClaimed' /\ ReadIsTrue' /\ FailedHoldsNoMoney'
  BY PaymentAssumption DEF PaymentTypeOK, AskedOnlyWhenClaimed, ReadIsTrue, FailedHoldsNoMoney,
     BooksAreCovered, Decided
<1>3. BooksAreCovered' /\ BooksClosed'
  BY PaymentAssumption DEF PaymentTypeOK, BooksAreCovered, BooksClosed, ReadIsTrue
<1>4. RowsAreTheOrders' /\ OneAlive'
  BY <1>1, RowsKept DEF PaymentTypeOK
<1> QED BY <1>1, <1>2, <1>3, <1>4

\* A claim nobody works on any more is asked about.
LEMMA MarkStaleKeeps ==
    ASSUME IInv, NEW p \in Payments, MarkStale(p)
    PROVE  IInv'
<1> USE DEF IInv, MarkStale, callVars, moneyVars, orderVars, rowVars
<1>1. PaymentTypeOK'
  BY PaymentAssumption DEF PaymentTypeOK, Statuses, Move
<1>2. AskedOnlyWhenClaimed' /\ ReadIsTrue' /\ FailedHoldsNoMoney'
  BY PaymentAssumption DEF PaymentTypeOK, AskedOnlyWhenClaimed, ReadIsTrue, FailedHoldsNoMoney,
     BooksAreCovered, Decided, Move
<1>3. BooksAreCovered' /\ BooksClosed'
  BY PaymentAssumption DEF PaymentTypeOK, BooksAreCovered, BooksClosed, ReadIsTrue, Move
<1>4. RowsAreTheOrders' /\ OneAlive'
  BY <1>1, RowsKept DEF PaymentTypeOK, Move
<1> QED BY <1>1, <1>2, <1>3, <1>4

\* What the provider says after the grace stays true.
LEMMA AskKeeps ==
    ASSUME IInv, NEW p \in Payments, Ask(p)
    PROVE  IInv'
<1> USE DEF IInv, callVars, moneyVars, orderVars, rowVars
<1>0. /\ status[p] = "UNRESOLVED" /\ bank[p] # "sent"
      /\ UNCHANGED <<status, canceled, aged, rows, method, claimed, keyed, calling,
                     abandoned, bank, paidBack, lost, misread, shares, held>>
  BY DEF Ask, AskedOnlyWhenClaimed
<1>1. PICK answer \in Recovered(p) : asked' = [asked EXCEPT ![p] = @ \cup {answer}]
  BY DEF Ask
<1>2. /\ answer \in {"approved", "declined", "unreadable"}
      /\ answer = "approved" => bank[p] = "charged"
      /\ answer = "declined" => Decided(p)
  BY <1>0 DEF Recovered, Decided, PaymentTypeOK
<1>3. PaymentTypeOK'
  BY <1>0, <1>1, <1>2 DEF PaymentTypeOK
<1>4. AskedOnlyWhenClaimed' /\ ReadIsTrue' /\ FailedHoldsNoMoney'
  <2>1. ReadIsTrue'
    BY <1>0, <1>1, <1>2 DEF PaymentTypeOK, ReadIsTrue, Decided
  <2> QED BY <1>0, <2>1 DEF AskedOnlyWhenClaimed, FailedHoldsNoMoney
<1>5. BooksAreCovered' /\ BooksClosed'
  BY <1>0 DEF BooksAreCovered, BooksClosed
<1>6. RowsAreTheOrders' /\ OneAlive'
  BY <1>0, <1>3, RowsKept DEF PaymentTypeOK
<1> QED BY <1>3, <1>4, <1>5, <1>6

\* A recovered answer lands if the payment still waits for it.
LEMMA ResolveKeeps ==
    ASSUME IInv, NEW p \in Payments, Resolve(p)
    PROVE  IInv'
<1> USE DEF IInv, callVars, moneyVars, orderVars, rowVars
<1>0. UNCHANGED <<canceled, aged, rows, method, claimed, keyed, calling, abandoned,
                  bank, paidBack, lost, shares, held>>
  BY DEF Resolve
<1>1. PICK answer \in asked[p] :
         /\ \E others \in {{}, {answer}} :
               asked' = [asked EXCEPT ![p] = (@ \ {answer}) \cup others]
         /\ IF status[p] = "UNRESOLVED"
            THEN Move(p, Landing(answer)) /\ Misreads(p, answer)
            ELSE UNCHANGED <<status, misread>>
  BY DEF Resolve
<1>2. /\ answer \in {"approved", "declined", "unreadable"}
      /\ \A q \in Payments : asked'[q] \subseteq asked[q]
      /\ asked' \in [Payments -> SUBSET {"approved", "declined", "unreadable"}]
  BY <1>1 DEF PaymentTypeOK
<1>3. misread \subseteq misread' /\ misread' \subseteq Payments
  BY <1>1 DEF Misreads, PaymentTypeOK
<1>4. \/ UNCHANGED status
      \/ /\ status[p] = "UNRESOLVED"
         /\ \/ status' = [status EXCEPT ![p] = "AUTHORIZED"] /\ bank[p] = "charged"
            \/ status' = [status EXCEPT ![p] = "FAILED"] /\ (Decided(p) \/ p \in misread')
  BY <1>1, <1>2 DEF Move, Misreads, Landing, ReadIsTrue
<1>5. PaymentTypeOK'
  <2>1. status' \in [Payments -> Statuses \cup {"NONE"}]
    BY <1>4, ZenonT(40) DEF PaymentTypeOK, Statuses
  <2> QED BY <1>0, <1>2, <1>3, <2>1 DEF PaymentTypeOK
<1>6. AskedOnlyWhenClaimed' /\ ReadIsTrue' /\ FailedHoldsNoMoney'
  <2>1. AskedOnlyWhenClaimed'
    BY <1>0, <1>4 DEF PaymentTypeOK, AskedOnlyWhenClaimed
  <2>2. ReadIsTrue'
    BY <1>0, <1>2, <1>4 DEF PaymentTypeOK, ReadIsTrue, Decided
  <2>3. FailedHoldsNoMoney'
    BY <1>0, <1>3, <1>4 DEF PaymentTypeOK, FailedHoldsNoMoney, Decided
  <2> QED BY <2>1, <2>2, <2>3
<1>7. BooksAreCovered' /\ BooksClosed'
  BY <1>0, <1>4, ZenonT(40) DEF PaymentTypeOK, BooksAreCovered, BooksClosed
<1>8. RowsAreTheOrders' /\ OneAlive'
  BY <1>0, <1>4, <1>5, RowsKept DEF PaymentTypeOK
<1> QED BY <1>5, <1>6, <1>7, <1>8

\* What is listed is stranded, and stays so.
LEMMA ListAbandonedKeeps ==
    ASSUME IInv, NEW p \in Payments, ListAbandoned(p)
    PROVE  IInv'
<1> USE DEF IInv, ListAbandoned, callVars, moneyVars, orderVars, rowVars
<1>1. PaymentTypeOK'
  BY PaymentAssumption DEF PaymentTypeOK, Statuses
<1>2. AskedOnlyWhenClaimed' /\ ReadIsTrue' /\ FailedHoldsNoMoney'
  BY PaymentAssumption DEF PaymentTypeOK, AskedOnlyWhenClaimed, ReadIsTrue, FailedHoldsNoMoney,
     BooksAreCovered, Decided
<1>3. BooksAreCovered' /\ BooksClosed'
  BY PaymentAssumption DEF PaymentTypeOK, BooksAreCovered, BooksClosed, ReadIsTrue
<1>4. RowsAreTheOrders' /\ OneAlive'
  BY <1>1, RowsKept DEF PaymentTypeOK
<1> QED BY <1>1, <1>2, <1>3, <1>4

\* The provider decides only what is on its way.
LEMMA ProviderKeeps ==
    ASSUME IInv, NEW p \in Payments, Provider(p)
    PROVE  IInv'
<1> USE DEF IInv, Provider, callVars, moneyVars, orderVars, rowVars
<1>1. PaymentTypeOK'
  BY PaymentAssumption DEF PaymentTypeOK, Statuses
<1>2. AskedOnlyWhenClaimed' /\ ReadIsTrue' /\ FailedHoldsNoMoney'
  BY PaymentAssumption DEF PaymentTypeOK, AskedOnlyWhenClaimed, ReadIsTrue, FailedHoldsNoMoney,
     BooksAreCovered, Decided
<1>3. BooksAreCovered' /\ BooksClosed'
  BY PaymentAssumption DEF PaymentTypeOK, BooksAreCovered, BooksClosed, ReadIsTrue
<1>4. RowsAreTheOrders' /\ OneAlive'
  BY <1>1, RowsKept DEF PaymentTypeOK
<1> QED BY <1>1, <1>2, <1>3, <1>4

\* The grace is over only for what is decided.
LEMMA AgeKeeps ==
    ASSUME IInv, NEW p \in Payments, Age(p)
    PROVE  IInv'
<1> USE DEF IInv, Age, callVars, moneyVars, orderVars, rowVars
<1>1. PaymentTypeOK'
  BY PaymentAssumption DEF PaymentTypeOK, Statuses
<1>2. AskedOnlyWhenClaimed' /\ ReadIsTrue' /\ FailedHoldsNoMoney'
  BY PaymentAssumption DEF PaymentTypeOK, AskedOnlyWhenClaimed, ReadIsTrue, FailedHoldsNoMoney,
     BooksAreCovered, Decided
<1>3. BooksAreCovered' /\ BooksClosed'
  BY PaymentAssumption DEF PaymentTypeOK, BooksAreCovered, BooksClosed, ReadIsTrue
<1>4. RowsAreTheOrders' /\ OneAlive'
  BY <1>1, RowsKept DEF PaymentTypeOK
<1> QED BY <1>1, <1>2, <1>3, <1>4

\* A stop forgets what was read.
LEMMA StopKeeps ==
    ASSUME IInv, NEW p \in Payments, Stop(p)
    PROVE  IInv'
<1> USE DEF IInv, Stop, callVars, moneyVars, orderVars, rowVars
<1>1. PaymentTypeOK'
  BY PaymentAssumption DEF PaymentTypeOK, Statuses
<1>2. AskedOnlyWhenClaimed' /\ ReadIsTrue' /\ FailedHoldsNoMoney'
  BY PaymentAssumption DEF PaymentTypeOK, AskedOnlyWhenClaimed, ReadIsTrue, FailedHoldsNoMoney,
     BooksAreCovered, Decided
<1>3. BooksAreCovered' /\ BooksClosed'
  BY PaymentAssumption DEF PaymentTypeOK, BooksAreCovered, BooksClosed, ReadIsTrue
<1>4. RowsAreTheOrders' /\ OneAlive'
  BY <1>1, RowsKept DEF PaymentTypeOK
<1> QED BY <1>1, <1>2, <1>3, <1>4

\* Holds that end do not come back.
LEMMA HoldsEndKeep ==
    ASSUME IInv, NEW o \in Orders, HoldsEnd(o)
    PROVE  IInv'
<1> USE DEF IInv, HoldsEnd, callVars, moneyVars, orderVars, rowVars
<1>1. PaymentTypeOK'
  BY PaymentAssumption DEF PaymentTypeOK, Statuses
<1>2. AskedOnlyWhenClaimed' /\ ReadIsTrue' /\ FailedHoldsNoMoney'
  BY PaymentAssumption DEF PaymentTypeOK, AskedOnlyWhenClaimed, ReadIsTrue, FailedHoldsNoMoney,
     BooksAreCovered, Decided
<1>3. BooksAreCovered' /\ BooksClosed'
  BY PaymentAssumption DEF PaymentTypeOK, BooksAreCovered, BooksClosed, ReadIsTrue
<1>4. RowsAreTheOrders' /\ OneAlive'
  BY <1>1, RowsKept DEF PaymentTypeOK
<1> QED BY <1>1, <1>2, <1>3, <1>4

-----------------------------------------------------------------------------
(* Giving money back.                                                      *)

\* What the provider returned and what is written of it stay in step.
LEMMA GiveBackKeeps ==
    ASSUME IInv, NEW p \in Payments, NEW amount \in 1 .. Amount,
           status[p] \in {"AUTHORIZED", "PAID", "PARTIAL_CANCELED"},
           canceled[p] + amount <= Amount,
           NEW landing \in {"PARTIAL_CANCELED", "CANCELED"},
           landing = "CANCELED" <=> canceled[p] + amount = Amount,
           GiveBack(p, amount, landing),
           abandoned' \subseteq abandoned
    PROVE  IInv'
<1> USE DEF moneyVars, orderVars, rowVars
<1>0. /\ paidBack' = [paidBack EXCEPT ![p] = @ + amount]
      /\ UNCHANGED <<aged, rows, method, claimed, keyed, calling, asked, bank, misread, shares, held>>
  BY DEF GiveBack, Returns
<1>1. \/ /\ status' = [status EXCEPT ![p] = landing]
         /\ canceled' = [canceled EXCEPT ![p] = @ + amount]
         /\ UNCHANGED lost
      \/ /\ lost < MaxLost /\ lost' = lost + 1
         /\ UNCHANGED <<status, canceled>>
  BY DEF GiveBack, Move
<1>2. /\ status \in [Payments -> Statuses \cup {"NONE"}]
      /\ canceled \in [Payments -> 0 .. Amount] /\ Amount \in Nat
      /\ paidBack \in [Payments -> Nat] /\ lost \in 0 .. MaxLost /\ MaxLost \in Nat
  BY PaymentAssumption DEF IInv, PaymentTypeOK
<1>3. PaymentTypeOK'
  <2>1. canceled' \in [Payments -> 0 .. Amount]
    BY <1>1, <1>2
  <2>2. lost' \in 0 .. MaxLost /\ paidBack' \in [Payments -> Nat]
    BY <1>0, <1>1, <1>2
  <2>3. status' \in [Payments -> Statuses \cup {"NONE"}]
    BY <1>1, <1>2 DEF Statuses
  <2> QED BY <1>0, <2>1, <2>2, <2>3 DEF IInv, PaymentTypeOK
<1>4. AskedOnlyWhenClaimed' /\ ReadIsTrue' /\ FailedHoldsNoMoney'
  BY <1>0, <1>1, <1>2 DEF IInv, AskedOnlyWhenClaimed, ReadIsTrue, FailedHoldsNoMoney, Decided
<1>5. BooksAreCovered' /\ BooksClosed'
  <2> SUFFICES ASSUME NEW q \in Payments
               PROVE  /\ status'[q] \in {"AUTHORIZED", "PAID", "PARTIAL_CANCELED"} => bank'[q] = "charged"
                      /\ canceled'[q] <= paidBack'[q]
                      /\ status'[q] = "PARTIAL_CANCELED" => canceled'[q] \in 1 .. Amount - 1
                      /\ status'[q] = "CANCELED" <=> canceled'[q] = Amount
                      /\ status'[q] \notin {"PARTIAL_CANCELED", "CANCELED"} => canceled'[q] = 0
    BY DEF BooksAreCovered, BooksClosed
  <2>1. /\ status[q] \in {"AUTHORIZED", "PAID", "PARTIAL_CANCELED"} => bank[q] = "charged"
        /\ canceled[q] <= paidBack[q]
        /\ status[q] = "PARTIAL_CANCELED" => canceled[q] \in 1 .. Amount - 1
        /\ status[q] = "CANCELED" <=> canceled[q] = Amount
        /\ status[q] \notin {"PARTIAL_CANCELED", "CANCELED"} => canceled[q] = 0
        /\ canceled[q] \in Nat /\ paidBack[q] \in Nat
    BY <1>2 DEF IInv, BooksAreCovered, BooksClosed
  <2> QED BY <1>0, <1>1, <1>2, <2>1
<1>6. RowsAreTheOrders' /\ OneAlive'
  BY <1>0, <1>1, <1>2, <1>3, RowsKept DEF PaymentTypeOK
<1> QED BY <1>3, <1>4, <1>5, <1>6 DEF IInv

\* An authorization is taken back whole.
LEMMA CancelAuthorizationKeeps ==
    ASSUME IInv, NEW p \in Payments, CancelAuthorization(p)
    PROVE  IInv'
<1>1. abandoned' \subseteq abandoned
  BY DEF CancelAuthorization
<1>2. CASE status[p] = "AUTHORIZED"
  <2>1. canceled[p] = 0 /\ Amount \in 1 .. Amount /\ canceled[p] + Amount = Amount
    BY <1>2, PaymentAssumption DEF IInv, BooksClosed
  <2> QED BY <1>1, <1>2, <2>1, GiveBackKeeps DEF CancelAuthorization
<1>3. CASE status[p] # "AUTHORIZED"
  <2> USE <1>3 DEF IInv, CancelAuthorization, moneyVars, orderVars, rowVars
  <2>1. PaymentTypeOK'
    BY DEF PaymentTypeOK
  <2>2. AskedOnlyWhenClaimed' /\ ReadIsTrue' /\ FailedHoldsNoMoney'
    BY DEF AskedOnlyWhenClaimed, ReadIsTrue, FailedHoldsNoMoney, Decided
  <2>3. BooksAreCovered' /\ BooksClosed'
    BY DEF BooksAreCovered, BooksClosed
  <2>4. RowsAreTheOrders' /\ OneAlive'
    BY <2>1, RowsKept DEF PaymentTypeOK
  <2> QED BY <2>1, <2>2, <2>3, <2>4
<1> QED BY <1>2, <1>3

\* A refund takes no more than is left, and says whether anything is.
LEMMA RefundKeeps ==
    ASSUME IInv, NEW p \in Payments, NEW amount \in 1 .. Amount, Refund(p, amount)
    PROVE  IInv'
<1> DEFINE remaining == Amount - canceled[p] - amount
           landing == IF remaining = 0 THEN "CANCELED" ELSE "PARTIAL_CANCELED"
<1>1. status[p] \in {"PAID", "PARTIAL_CANCELED"}
  BY TableRows DEF Refund, IInv, PaymentTypeOK
<1>2. canceled[p] \in 0 .. Amount /\ remaining >= 0
  BY DEF Refund, IInv, PaymentTypeOK
<1>3. /\ canceled[p] + amount <= Amount
      /\ landing \in {"PARTIAL_CANCELED", "CANCELED"}
      /\ landing = "CANCELED" <=> canceled[p] + amount = Amount
  BY <1>2, PaymentAssumption
<1>4. GiveBack(p, amount, landing) /\ abandoned' \subseteq abandoned
  BY DEF Refund
<1> QED BY <1>1, <1>3, <1>4, GiveBackKeeps

-----------------------------------------------------------------------------
LEMMA StepIsSound == IInv /\ [Next]_vars => IInv'
<1> SUFFICES ASSUME IInv, [Next]_vars PROVE IInv'
  OBVIOUS
<1>1. ASSUME NEW p \in Payments, ShopperStep(p) PROVE IInv'
  BY <1>1, StartKeeps, BindKeyKeeps, ClaimKeeps, CaptureKeeps DEF ShopperStep
<1>2. ASSUME NEW p \in Payments, JobStep(p) PROVE IInv'
  <2>1. CASE Answered(p)
    BY <2>1, LandKeeps DEF Answered
  <2>2. CASE MarkPaid(p) \/ MarkStale(p) \/ Ask(p) \/ Resolve(p)
    BY <2>2, MarkPaidKeeps, MarkStaleKeeps, AskKeeps, ResolveKeeps
  <2>3. CASE ListAbandoned(p) \/ CancelAuthorization(p)
    BY <2>3, ListAbandonedKeeps, CancelAuthorizationKeeps
  <2>4. CASE \E amount \in 1 .. Amount : Refund(p, amount)
    BY <2>4, RefundKeeps
  <2> QED BY <1>2, <2>1, <2>2, <2>3, <2>4 DEF JobStep
<1>3. ASSUME NEW p \in Payments, Provider(p) \/ Age(p) \/ Stop(p) PROVE IInv'
  BY <1>3, ProviderKeeps, AgeKeeps, StopKeeps
<1>4. ASSUME NEW o \in Orders, HoldsEnd(o) PROVE IInv'
  BY <1>4, HoldsEndKeep
<1>5. CASE UNCHANGED vars
  <2> USE <1>5 DEF IInv, vars
  <2>1. PaymentTypeOK'
    BY DEF PaymentTypeOK
  <2>2. AskedOnlyWhenClaimed' /\ ReadIsTrue' /\ FailedHoldsNoMoney'
    BY DEF AskedOnlyWhenClaimed, ReadIsTrue, FailedHoldsNoMoney, Decided
  <2>3. BooksAreCovered' /\ BooksClosed'
    BY DEF BooksAreCovered, BooksClosed
  <2>4. RowsAreTheOrders' /\ OneAlive'
    BY <2>1, RowsKept DEF PaymentTypeOK
  <2> QED BY <2>1, <2>2, <2>3, <2>4
<1> QED BY <1>1, <1>2, <1>3, <1>4, <1>5 DEF Next

(* Everything above, in every state of every behaviour of the service.     *)
THEOREM PaymentsAreSound == Spec => []IInv
<1> QED BY InitIsSound, StepIsSound, PTL DEF Spec

(* Every variable keeps its type: no amount canceled is ever beyond what   *)
(* was authorized.                                                         *)
THEOREM PaymentsAreTyped == Spec => []PaymentTypeOK
<1>1. IInv => PaymentTypeOK
  BY DEF IInv
<1> QED BY <1>1, PaymentsAreSound, PTL

(* At most one payment of an order has the shopper's money or may yet take *)
(* it: a new one is begun only where the last was never asked for, and one *)
(* that failed cannot have money, unless it failed by an answer of Toss    *)
(* that said nothing of it, which is the one way the code may charge twice.*)
THEOREM NobodyPaysTwice == Spec => []NoDoubleCharge
<1>1. IInv => NoDoubleCharge
  <2> SUFFICES ASSUME IInv, NEW p \in Payments \ misread, NEW q \in Payments \ misread,
                      OrderOf[p] = OrderOf[q], Outstanding(p), Outstanding(q)
               PROVE  p = q
    BY DEF NoDoubleCharge
  <2>1. Alive(p) /\ Alive(q)
    BY DEF IInv, Outstanding, Alive, FailedHoldsNoMoney, AskedOnlyWhenClaimed
  <2> QED BY <2>1 DEF IInv, OneAlive
<1> QED BY <1>1, PaymentsAreSound, PTL

(* FAILED is never written of a payment that has, or may yet take, money,  *)
(* but by an answer that said nothing of it.                               *)
THEOREM FailureIsAnAnswer == Spec => []FailedHoldsNoMoney
<1>1. IInv => FailedHoldsNoMoney
  BY DEF IInv
<1> QED BY <1>1, PaymentsAreSound, PTL

(* What the books claim, the provider has; what they returned, it gave.    *)
THEOREM BooksStayCovered == Spec => []BooksAreCovered
<1>1. IInv => BooksAreCovered
  BY DEF IInv
<1> QED BY <1>1, PaymentsAreSound, PTL

-----------------------------------------------------------------------------
(* What a step does to the status of a payment.                            *)

\* The arrows a step takes, beside a capture and a return of money.
LEMMA TableHas ==
    /\ CanTransition("NONE", "READY") /\ CanTransition("READY", "FAILED")
    /\ CanTransition("READY", "AUTHORIZED") /\ CanTransition("READY", "UNRESOLVED")
    /\ CanTransition("UNRESOLVED", "AUTHORIZED") /\ CanTransition("UNRESOLVED", "FAILED")
    /\ CanTransition("AUTHORIZED", "CANCELED")
BY DEF CanTransition, PaymentTransitions

\* A return of money moves one payment, or none.
LEMMA GiveBackMoves ==
    ASSUME IInv, NEW p \in Payments, NEW amount, NEW landing, GiveBack(p, amount, landing)
    PROVE  UNCHANGED status \/ (status' = [status EXCEPT ![p] = landing])
BY DEF GiveBack, Move

LEMMA MovesFollow ==
    ASSUME IInv, Next, NEW q \in Payments, status'[q] # status[q]
    PROVE  /\ CanTransition(status[q], status'[q])
           /\ status[q] = "AUTHORIZED" /\ status'[q] = "CANCELED" => ~held[OrderOf[q]]
<1> USE DEF rowVars, callVars, moneyVars, orderVars
<1>0. status \in [Payments -> Statuses \cup {"NONE"}]
  BY DEF IInv, PaymentTypeOK
<1>1. ASSUME NEW p \in Payments, NEW chosen \in Methods, Start(p, chosen)
      PROVE  \/ status[q] = "NONE" /\ status'[q] = "READY"
             \/ status[q] = "READY" /\ status'[q] = "FAILED"
  BY <1>0, <1>1 DEF Start
<1>2. ASSUME NEW p \in Payments, Capture(p)
      PROVE  CanTransition(status[q], status'[q]) /\ status'[q] = "PAID"
  BY <1>0, <1>2 DEF Capture, Move
<1>3. ASSUME NEW p \in Payments, Answered(p) \/ MarkStale(p)
      PROVE  status[q] = "READY" /\ status'[q] \in {"AUTHORIZED", "FAILED", "UNRESOLVED"}
  <2>1. ASSUME NEW outcome \in Outcomes(p), Land(p, outcome)
        PROVE  status[q] = "READY" /\ status'[q] \in {"AUTHORIZED", "FAILED", "UNRESOLVED"}
    <3>1. outcome \in {"approved", "declined", "unreadable", "unknown"}
      BY DEF Outcomes, IInv, PaymentTypeOK
    <3>2. Landing(outcome) \in {"AUTHORIZED", "FAILED", "UNRESOLVED"}
      BY <3>1 DEF Landing
    <3> QED BY <1>0, <2>1, <3>2 DEF Land, Move
  <2>2. CASE MarkStale(p)
    BY <1>0, <2>2 DEF MarkStale, Move
  <2> QED BY <1>3, <2>1, <2>2 DEF Answered
<1>4. ASSUME NEW p \in Payments, Resolve(p)
      PROVE  status[q] = "UNRESOLVED" /\ status'[q] \in {"AUTHORIZED", "FAILED"}
  <2>1. PICK answer \in asked[p] :
           IF status[p] = "UNRESOLVED" THEN Move(p, Landing(answer)) ELSE UNCHANGED status
    BY <1>4 DEF Resolve
  <2>2. answer \in {"approved", "declined", "unreadable"}
    BY DEF IInv, PaymentTypeOK
  <2>3. Landing(answer) \in {"AUTHORIZED", "FAILED"}
    BY <2>2 DEF Landing
  <2> QED BY <1>0, <2>1, <2>3 DEF Move
<1>5. ASSUME NEW p \in Payments, CancelAuthorization(p)
      PROVE  status[q] = "AUTHORIZED" /\ status'[q] = "CANCELED" /\ ~held[OrderOf[q]]
  <2>1. status[p] = "AUTHORIZED" /\ GiveBack(p, Amount, "CANCELED") /\ p \in abandoned
    BY <1>5 DEF CancelAuthorization
  <2>2. status' = [status EXCEPT ![p] = "CANCELED"] /\ q = p
    BY <1>0, <2>1, GiveBackMoves
  <2> QED BY <1>0, <2>1, <2>2 DEF IInv, ReadIsTrue
<1>6. ASSUME NEW p \in Payments, NEW amount \in 1 .. Amount, Refund(p, amount)
      PROVE  /\ CanTransition(status[q], status'[q])
             /\ status[q] # "AUTHORIZED"
  <2>1. PICK landing \in {"PARTIAL_CANCELED", "CANCELED"} :
           GiveBack(p, amount, landing) /\ CanTransition(status[p], landing)
    BY <1>6 DEF Refund
  <2>2. status[p] \in {"PAID", "PARTIAL_CANCELED"}
    BY <1>0, <1>6, TableRows DEF Refund
  <2>3. q = p /\ status'[q] = landing
    BY <1>0, <2>1, GiveBackMoves
  <2> QED BY <2>1, <2>2, <2>3
<1>7. ASSUME NEW p \in Payments,
             \/ BindKey(p) \/ Claim(p) \/ MarkPaid(p) \/ Ask(p) \/ ListAbandoned(p)
             \/ Provider(p) \/ Age(p) \/ Stop(p)
      PROVE  FALSE
  BY <1>7 DEF BindKey, Claim, MarkPaid, Ask, ListAbandoned, Provider, Age, Stop
<1>8. ASSUME NEW o \in Orders, HoldsEnd(o) PROVE FALSE
  BY <1>8 DEF HoldsEnd
<1> QED
  <2>1. CASE \E p \in Payments : ShopperStep(p)
    BY <2>1, <1>1, <1>2, <1>7, TableHas DEF ShopperStep
  <2>2. CASE \E p \in Payments : JobStep(p)
    BY <2>2, <1>3, <1>4, <1>5, <1>6, <1>7, TableHas DEF JobStep
  <2>3. CASE \E p \in Payments : Provider(p) \/ Age(p) \/ Stop(p)
    BY <2>3, <1>7
  <2> QED BY <1>8, <2>1, <2>2, <2>3 DEF Next

(* No late answer, second recovery or cancellation moves a payment against *)
(* the transition table of payment-rules.ts.                               *)
THEOREM TableIsFollowed == Spec => FollowsTable
<1> DEFINE Follows == \A p \in Payments :
              status'[p] # status[p] => CanTransition(status[p], status'[p])
<1>1. IInv /\ [Next]_vars => [Follows]_status
  BY MovesFollow DEF vars
<1> HIDE DEF Follows
<1>2. Spec => [][Follows]_status
  BY <1>1, PaymentsAreSound, PTL DEF Spec
<1> QED BY <1>2 DEF FollowsTable, Follows

(* The straggler job acts on a list it read before, and still takes back   *)
(* no authorization whose order's stock is held.                           *)
THEOREM OnlyStrandedIsCanceled == Spec => CancelsOnlyStranded
<1> DEFINE Stranded == \A p \in Payments :
              status[p] = "AUTHORIZED" /\ status'[p] = "CANCELED" => ~held[OrderOf[p]]
<1>1. IInv /\ [Next]_vars => [Stranded]_status
  BY MovesFollow DEF vars
<1> HIDE DEF Stranded
<1>2. Spec => [][Stranded]_status
  BY <1>1, PaymentsAreSound, PTL DEF Spec
<1> QED BY <1>2 DEF CancelsOnlyStranded, Stranded

=============================================================================
