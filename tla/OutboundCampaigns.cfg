\* Two campaigns of one company with three contacts and one number.
SPECIFICATION Spec
CONSTANTS
  c1 = c1  c2 = c2  r1 = r1  r2 = r2  r3 = r3  p1 = p1  p2 = p2
  Campaigns = {c1, c2}
  Recipients = {r1, r2, r3}
  Phones = {p1}
  CampaignOf <- TwoCampaigns
  PhoneOf <- SharedNumber
  UnknownZone = {r1}
  Workers = {w1, w2}
  Handlers = {h1, h2}
  Users = {u1}
  MaxConcurrency <- OneSlot
  CompanyCap = 1
  MaxAttempts = 2
  AttemptBound = 2
  Environments <- CampaignEnvironments
SYMMETRY PairSymmetry
INVARIANTS TypeOK CompletedIsDone NoSlotLeak CapsSerial OverrunBounded OptOutListed
PROPERTY SuppressedStays
