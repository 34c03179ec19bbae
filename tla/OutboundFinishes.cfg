\* An undisturbed campaign with two handlers, under fairness.
SPECIFICATION FairSpec
CONSTANTS
  c1 = c1  c2 = c2  r1 = r1  r2 = r2  r3 = r3  p1 = p1  p2 = p2
  Campaigns = {c1}
  Recipients = {r1, r2}
  Phones = {p1}
  CampaignOf <- OneCampaign
  PhoneOf <- SharedNumber
  UnknownZone = {}
  Workers = {w1}
  Handlers = {h1, h2}
  Users = {}
  MaxConcurrency <- TwoSlots
  CompanyCap = 2
  MaxAttempts = 2
  AttemptBound = 2
  Environments <- Undisturbed
PROPERTY RunningCompletes
