SPECIFICATION FairSpec
CONSTANTS
  CategoryIds = {c1}
  Names = {n3}
  Slugs <- SlugSet
  SlugOf <- SlugFunction
  Keys = {"tree", "select"}
  Requests = {r1}
  Readers = {p1, p2}
  MaxPosition = 1
  MayFail = TRUE
  EditDeleted = TRUE
  None = None
  n3 = n3
  n4 = n4
PROPERTY CacheCatchesUp
