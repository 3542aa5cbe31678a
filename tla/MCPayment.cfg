SPECIFICATION FairSpec
CONSTANTS
  o1 = o1
  p1 = p1
  p2 = p2
  card = card
  card2 = card2
  toss = toss
  none = none
  Orders = {o1}
  Payments = {p1, p2}
  Methods = {card, card2, toss}
  NoMethod = none
  OrderOf <- MCOrderOf
  ProviderOf <- MCProviderOf
  Amount = 2
  MaxLost = 1
INVARIANTS
  PaymentTypeOK
  NoDoubleCharge
  FailedHoldsNoMoney
  BooksAreCovered
PROPERTIES
  FollowsTable
  CancelsOnlyStranded
  AuthorizationsEnd
CHECK_DEADLOCK FALSE
