CONSTANTS
    s1 = s1
    s2 = s2
    l1 = l1
    l2 = l2
    l3 = l3
    c1 = c1
    c2 = c2
    c3 = c3
    c4 = c4
    none = none
    Shares <- MCShares
    Lines <- ThreeLines
    LineShare <- LineShares2
    Quantity <- Quantities2
    Product <- Products2
    CouponCut <- NoCuts
    PointCut <- NoCuts
    Charged <- Charged2
    Standard <- Standard2
    Threshold <- Threshold2
    NoThreshold = none
    CouponReach <- MCShares
    EarnRate <- EarnRates2
    Claims <- TwoClaims
    ClaimShare <- Claimed2
    Type <- Types2
    ClaimUnits <- Units2
    ReturnShipping <- Returns2
    OpeningBalance = 2
    Room = 9
    MaxLost = 0
SPECIFICATION Spec
INVARIANT
    CancelsAddUp
CHECK_DEADLOCK FALSE
