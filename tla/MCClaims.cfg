CONSTANTS
    s1 = s1
    v1 = v1
    v2 = v2
    c1 = c1
    c2 = c2
    c3 = c3
    i1 = i1
    i2 = i2
    i3 = i3
    i4 = i4
    i5 = i5
    sale = sale
    none = none
    Shares <- MCShares
    Variants <- MCVariants
    ClaimIds <- MCClaimIds
    ClaimItems <- MCClaimItems
    ShareOf <- MCShareOf
    ItemClaim <- MCItemClaim
    ItemVariant <- MCItemVariant
    ItemQuantity <- MCItemQuantity
    SoldIn <- MCSoldIn
    Ordered <- MCOrdered
    OpeningStock <- MCOpeningStock
    Refs <- MCRefs
    Sale = sale
    MaxClaims = 2
    Refused = {c2}
    RetryBatch = 1
    NoRef = none
    Deltas = {}
    MaxLevel = 2
    MaxEntries = 4
    MaxStops = 1
    Delivered = 3
SPECIFICATION FairSpec
INVARIANTS
    ClaimsTypeOK
    ClaimedOnce
    CancelledShareEnds
    ParcelMatchesShare
    ShelfMatchesClaims
PROPERTIES
    NothingTurnsBack
    ApprovedIsRefunded
    DeliveredIsClosed
CHECK_DEADLOCK FALSE
