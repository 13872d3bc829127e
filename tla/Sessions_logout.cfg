SPECIFICATION Spec
CONSTANTS
  Users = {u1}
  Browsers = {b1}
  Requests = {r1}
  SessionIds = {s1}
  TokenIds = {t1, t2}
  Lifetime = 1
  None = None
PROPERTY LogoutEndsSession
