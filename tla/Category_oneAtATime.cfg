SPECIFICATION Spec
CONSTANTS
  CategoryIds = {c1, c2, c3}
  Names = {n1, n2, n3, n4}
  Slugs <- SlugSet
  SlugOf <- SlugFunction
  Keys = {"tree", "select"}
  Requests = {r1}
  Readers = {}
  MaxPosition = 3
  MayFail = FALSE
  EditDeleted = FALSE
  None = None
  n3 = n3
  n4 = n4
SYMMETRY Symmetry
INVARIANTS PositionsDistinct TreeShowsOpenBranches
PROPERTY SiblingsAreOrdered
CHECK_DEADLOCK FALSE
