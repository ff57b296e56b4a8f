SPECIFICATION FairSpec
INVARIANT TypeOK
INVARIANT BalanceIsLedger
INVARIANT ActiveIsPaid
INVARIANT FailedIsRefunded
PROPERTY ImplementsLedger
PROPERTY PaidIsCredited
CHECK_DEADLOCK FALSE
CONSTANTS
  t = t
  l1 = l1
  l2 = l2
  d1 = d1
  d2 = d2
  None = None
  Topup = {t}
  Launch = {l1, l2}
  Delivery = {d1, d2}
  Amount <- Refuel
  Price <- Quotes
  MaxFaults = 2
