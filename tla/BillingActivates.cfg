\* Checkout under fairness.
SPECIFICATION FairSpec
CONSTANTS
  None = None  free = free  basic = basic  pro = pro  f1 = f1  f2 = f2
  Plans = {free, basic, pro}
  FirstPlan = free
  Invoices = {i1, i2}
  Refs = {f1, f2}
  Handlers = {h1, h2}
  Prices = {0, 1, 2}
  FirstPrice <- PriceList
  PeriodBound = 1
  Environments <- CheckoutEnvironments
CHECK_DEADLOCK FALSE
PROPERTY WebhookActivates
