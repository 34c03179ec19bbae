\* As docker-compose.yml runs it: no worker consumes the default queue.
SPECIFICATION FairSpec
CONSTANTS
  None = None
  Requests = {q1, q2}
  Workers = {w1, w2}
  Retries = 1
  Calls = {c1}
  Rows = {r1, r2}
  Docs = {d1, d2, d3}
  Questions = {x1, x2}
  Answers = {y1}
  Documents = {f1, f2}
  External = {f2}
  Backlog = 1
  Users = {u1}
  Tokens = {t1, t2, t3}
  Passwords = {p1, p2}
  MaxFails = 2
  Campaigns = {k1, k2}
  Created = {k1}
  Texts = {s1, s2}
  Numbers = {n1}
  Environments <- ComposeEnvironments
PROPERTIES SyncConsumed
CHECK_DEADLOCK FALSE
