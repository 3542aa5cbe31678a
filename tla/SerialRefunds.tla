---------------------------- MODULE SerialRefunds ----------------------------
(***************************************************************************)
(* What the refunds of an order promise together, without transactions,    *)
(* locks or a provider: they are made one at a time, each whole and each   *)
(* computed from those made before it.  Only the coupon is not promised:   *)
(* the refund that leaves nothing of what it reached may give it back; and *)
(* a refund may miss points that its share has earned, if none of the      *)
(* share's before it found them.                                           *)
(***************************************************************************)
EXTENDS Integers

CONSTANTS
    Claims,               \* refunds that are due
    ClaimShare,           \* the share each is of
    Captured,             \* what was paid
    OpeningBalance,       \* points of the buyer
    RefundOf(_, _),       \* what a claim comes to after a set of them
    PointsBack(_, _),     \* points it restores after a set of them
    ClawedBack(_, _, _),  \* points it takes back: refunded before, and now
    Shares,               \* shares of the order
    Earnings,             \* points that each of them earns, once
    Whole(_),             \* a set of claims leaves nothing of the coupon's
    Total(_)              \* the sum of what a function gives

VARIABLES status, record, canceled, coupon, balance,
          earned,  \* shares that have earned their points
          spared   \* refunds made that found none to take back

serialVars == <<status, record, canceled, coupon, balance, earned, spared>>

Made == {c \in Claims : status[c] = "REFUNDED"}

MadeOf(s) == {c \in Made : ClaimShare[c] = s}

SerialInit ==
    /\ status = [c \in Claims |-> "APPROVED"]
    /\ record = [c \in Claims |-> [amount |-> 0, points |-> 0, taken |-> 0, short |-> 0]]
    /\ canceled = 0 /\ coupon = "USED" /\ balance = OpeningBalance
    /\ earned = {} /\ spared = {}

\* All that is due, if the points are there; else all of them, or none.
Takes(due, there) == {0, IF due <= there THEN due ELSE there}

\* Whether a refund finds that its share has earned.
Found(c) == {found \in BOOLEAN :
                IF found THEN ClaimShare[c] \in earned ELSE MadeOf(ClaimShare[c]) \subseteq spared}

Due(c, found, amount) ==
    IF found
    THEN ClawedBack(c, Total([d \in MadeOf(ClaimShare[c]) |-> record[d].amount]), amount)
    ELSE 0

RefundNow(c) ==
    LET before == MadeOf(ClaimShare[c])
        amount == RefundOf(before, c)
        points == PointsBack(before, c)
    IN /\ status[c] = "APPROVED"
       /\ amount <= Captured - canceled
       /\ status' = [status EXCEPT ![c] = "REFUNDED"]
       /\ canceled' = canceled + amount
       /\ \E found \in Found(c) :
             LET due == Due(c, found, amount) IN
             /\ spared' = IF found THEN spared ELSE spared \cup {c}
             /\ \E taken \in Takes(due, balance + points) :
                   /\ record' = [record EXCEPT ![c] = [amount |-> amount, points |-> points,
                                                       taken |-> taken, short |-> due - taken]]
                   /\ balance' = balance + points - taken
       /\ coupon' \in {coupon} \cup (IF Whole(Made \cup {c}) THEN {"ISSUED"} ELSE {})
       /\ UNCHANGED earned

SpendPoints ==
    /\ \E n \in 1 .. balance : balance' = balance - n
    /\ UNCHANGED <<status, record, canceled, coupon, earned, spared>>

EarnPoints(s) ==
    /\ s \notin earned
    /\ balance' = balance + Earnings[s]
    /\ earned' = earned \cup {s}
    /\ UNCHANGED <<status, record, canceled, coupon, spared>>

SerialNext ==
    (\E c \in Claims : RefundNow(c)) \/ SpendPoints \/ (\E s \in Shares : EarnPoints(s))

SerialSpec == SerialInit /\ [][SerialNext]_serialVars

=============================================================================
