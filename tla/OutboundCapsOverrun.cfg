\* Two workers serve the same campaign: the caps are exceeded.
SPECIFICATION Spec
CONSTANTS
  c1 = c1  c2 = c2  r1 = r1  r2 = r2  r3 = r3  p1 = p1  p2 = p2
  Campaigns = {c1}
  Recipients = {r1, r2, r3}
  Phones = {p1}
  CampaignOf <- OneCampaign
  PhoneOf <- SharedNumber
  UnknownZone = {}
  Workers = {w1, w2}
  Handlers = {h1}
  Users = {}
  MaxConcurrency <- OneSlot
  CompanyCap = 1
  MaxAttempts = 1
  AttemptBound = 1
  Environments <- Parallel
SYMMETRY WorkerSymmetry
INVARIANT CapsRespected
