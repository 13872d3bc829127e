SPECIFICATION FairSpec
CONSTANTS
  Users = {u1, u2}
  Browsers = {b1}
  Requests = {r1}
  SessionIds = {s1, s2}
  TokenIds = {t1, t2, t3, t4}
  Lifetime = 2
  None = None
INVARIANT CookiesUsable
PROPERTY DeactivatedSessionsExpire
