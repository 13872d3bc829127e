SPECIFICATION Spec
CONSTANTS
  Users = {u1, u2}
  Browsers = {b1}
  Requests = {r1, r2}
  SessionIds = {s1, s2}
  TokenIds = {t1, t2, t3, t4, t5}
  Lifetime = 1
  None = None
SYMMETRY Symmetry
INVARIANTS TypeOK RowsConsistent JarsConsistent
PROPERTIES RenewalsRunOut SessionsAreLeases
