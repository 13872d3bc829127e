SPECIFICATION Spec
CONSTANTS
  CategoryIds = {c1, c2}
  Names = {n1, n2}
  Slugs <- SlugSet
  SlugOf <- SlugFunction
  Keys = {"tree", "select"}
  Requests = {r1, r2}
  Readers = {}
  MaxPosition = 1
  MayFail = TRUE
  EditDeleted = TRUE
  None = None
  n3 = n3
  n4 = n4
SYMMETRY Symmetry
INVARIANTS TypeOK SlugsConsistent LiveNamesUnique PositionsBounded
PROPERTY OrphansExplained
