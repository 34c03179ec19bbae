\* Two requests of one process and one of another; a plan may allow one or two of a kind.
SPECIFICATION Spec
CONSTANTS
  q1 = q1  q2 = q2  q3 = q3  s1 = s1  s2 = s2  n1 = n1  n2 = n2
  None = None  Unlimited = Unlimited
  Agents = {a1, a2}
  Integrations = {i1, i2}
  Voices = {v1, v2}
  Configs = {k1, k2}
  Requests = {q1, q2, q3}
  Processes = {s1, s2}
  ProcessOf <- TwoProcesses
  Limits = {1, Unlimited}
  Connections = {n1, n2}
  ModeOf <- TwilioAndTrunk
  Trunks = {t1, t2, t3}
  Extensions = {x1}
  Passwords = {w1, w2}
  Names = {d1, d2}
  Environments <- OfficeEnvironments
SYMMETRY OfficeSymmetry
INVARIANTS OfficeTypeOK ConnectedWasTested CacheKnowsImports CleanRollback ReadyIsProvisioned
PROPERTIES PlanKept NeverForgotten RowFollowsEndpoint
