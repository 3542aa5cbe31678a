SPECIFICATION Spec
CONSTANTS
  q1 = q1
  s1 = s1
  s2 = s2
  none = none
  Sellers = {q1}
  NoSeller = none
  Shares = {s1, s2}
  SellerOf <- MCSellerOf
  Quantity <- MCQuantity
  Price <- MCPrice
  Charges <- MCCharges
  MaxWeeks = 2
INVARIANT
  OverpaidIsListed
CHECK_DEADLOCK FALSE
