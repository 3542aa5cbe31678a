CONSTANTS
    s1 = s1
    s2 = s2
    l1 = l1
    l2 = l2
    l3 = l3
    c1 = c1
    c2 = c2
    c3 = c3
    c4 = c4
    none = none
    Shares <- MCShares
    Lines <- TwoLines
    LineShare <- LineShares
    Quantity <- Quantities
    Product <- Products1
    CouponCut <- Coupons1
    PointCut <- Points1
    Charged <- Charged1
    Standard <- Standard1
    Threshold <- Threshold1
    NoThreshold = none
    CouponReach <- MCShares
    EarnRate <- EarnRates1
    Claims <- FourClaims
    ClaimShare <- Claimed1
    Type <- Types1
    ClaimUnits <- Units1
    ReturnShipping <- Returns1
    OpeningBalance = 1
    Room = 15
    MaxLost = 1
SPECIFICATION Spec
INVARIANTS
    RefundsTypeOK
    BooksMatch
    CancelsAddUp
    DiscountsComeBack
PROPERTIES
    RefundsAreSerial
    EveryRefundIsMade
CHECK_DEADLOCK FALSE
