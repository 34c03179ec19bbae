\* Renewals that carry the metadata of their subscription.
SPECIFICATION Spec
CONSTANTS
  None = None  free = free  basic = basic  pro = pro  f1 = f1  f2 = f2
  Plans = {free, basic, pro}
  FirstPlan = free
  Invoices = {i1, i2, i3}
  Refs = {f1, f2}
  Handlers = {h1, h2}
  Prices = {0, 1, 2}
  FirstPrice <- PriceList
  PeriodBound = 1
  Environments <- RenewalEnvironments
SYMMETRY BillingSymmetry
CHECK_DEADLOCK FALSE
INVARIANT AllRenewalsMirrored
