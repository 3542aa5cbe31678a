CONSTANTS
    v1 = v1
    v2 = v2
    h1 = h1
    h2 = h2
    h3 = h3
    c1 = c1
    c2 = c2
    none = none
    Variants <- MCVariants
    Holds <- MCHolds
    Checkouts <- MCCheckouts
    VariantOf <- MCVariantOf
    QuantityOf <- MCQuantityOf
    CheckoutOf <- MCCheckoutOf
    OpeningStock <- MCOpeningStock
    Refs <- MCHolds
    NoRef = none
    Deltas = {}
    MaxLevel = 2
    MaxEntries = 2
    TTL = 1
    BatchLimit = 2
SPECIFICATION CheckoutSpec
PROPERTIES
    SettledIsFinal
CHECK_DEADLOCK FALSE
