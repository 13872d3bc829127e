SPECIFICATION Spec
CONSTANTS
  Bases <- TwoBases
  Slugs <- SlugsOfTwo
  Candidates = 3
  Candidate <- CandidatesOfTwo
  Requests = {r1, r2}
  None = None
SYMMETRY Symmetry
INVARIANTS TypeOK ProbedTaken RefusedOnlyWhenFull NoGaps
PROPERTIES RowsKept CreatesAreAtomic
