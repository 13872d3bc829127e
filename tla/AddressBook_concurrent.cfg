SPECIFICATION Spec
CONSTANTS
  Users = {u1, u2}
  AddressIds = {a1, a2, a3, a4, a5}
  Requests = {r1, r2}
  MaxAddresses = 2
  None = None
SYMMETRY Symmetry
INVARIANTS TypeOK HandlersConsistent OvershootBounded
PROPERTIES WritesStayInNamedBook UpdateKeepsADefault SecondDefaultOnlyByPromotion
