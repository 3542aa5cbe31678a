SPECIFICATION LocksSpec
CONSTANTS
  s1 = s1
  s2 = s2
  s3 = s3
  Sessions = {s1, s2, s3}
  Sweeper = s1
  VariantIds = {1, 2}
  HoldIds = {1, 2}
  OrderIds = {1}
  SellerOrderIds = {1, 2}
  VariantOf <- MCVariantOf
  OrderOf <- MCOrderOf
  ShareOf <- MCShareOf
INVARIANT NoWaitCycle
PROPERTY TransactionsEnd
