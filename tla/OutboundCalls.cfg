\* Two workers dial one campaign of two recipients; one attempt more than
\* max_attempts is allowed by the bound.
SPECIFICATION Spec
CONSTANTS
  c1 = c1  c2 = c2  r1 = r1  r2 = r2  r3 = r3  p1 = p1  p2 = p2
  Campaigns = {c1}
  Recipients = {r1, r2}
  Phones = {p1}
  CampaignOf <- OneCampaign
  PhoneOf <- SharedNumber
  UnknownZone = {}
  Workers = {w1, w2}
  Handlers = {h1}
  Users = {u1}
  MaxConcurrency <- TwoSlots
  CompanyCap = 2
  MaxAttempts = 2
  AttemptBound = 3
  Environments <- CallEnvironments
SYMMETRY FullSymmetry
INVARIANTS OneCallAtATime ReservedOnce QueuedHasWorker CallRowsClosed
PROPERTY CallsKept
