SPECIFICATION Spec
CONSTANTS
  Users = {u1}
  AddressIds = {a1, a2, a3, a4}
  Requests = {r1, r2}
  MaxAddresses = 2
  None = None
SYMMETRY Symmetry
INVARIANT LimitRespected
