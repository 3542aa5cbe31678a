CONSTANTS
    v1 = v1
    v2 = v2
    h1 = h1
    h2 = h2
    h3 = h3
    c1 = c1
    c2 = c2
    none = none
    Variants <- OneVariant
    Holds <- OneHold
    Checkouts <- OneCheckout
    VariantOf <- OneVariantOf
    QuantityOf <- OneQuantityOf
    CheckoutOf <- OneCheckoutOf
    OpeningStock <- OneOpening
    Refs <- OneHold
    NoRef = none
    Deltas = {}
    MaxLevel = 1
    MaxEntries = 1
    TTL = 1
    BatchLimit = 2
SPECIFICATION FairCheckoutSpec
PROPERTIES
    CapturedIsFulfilled
CHECK_DEADLOCK FALSE
