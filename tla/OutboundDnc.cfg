\* A number is put on the list after its contact was imported.
SPECIFICATION Spec
CONSTANTS
  c1 = c1  c2 = c2  r1 = r1  r2 = r2  r3 = r3  p1 = p1  p2 = p2
  Campaigns = {c1}
  Recipients = {r1}
  Phones = {p1}
  CampaignOf <- OneCampaign
  PhoneOf <- SharedNumber
  UnknownZone = {}
  Workers = {w1}
  Handlers = {h1}
  Users = {}
  MaxConcurrency <- OneSlot
  CompanyCap = 1
  MaxAttempts = 1
  AttemptBound = 1
  Environments <- Listing
PROPERTY DncSuppressed
