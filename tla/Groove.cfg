\* Three files, two builders, two callers, one edit, three calls.
CONSTANTS
  None = None
  c1 = c1
  c2 = c2
  Files = {1, 2, 3}
  Contents = {1, 2, 3}
  Before <- MCBefore
  Declarations <- MCDeclarations
  Scores <- MCScores
  Builders = {b1, b2}
  Callers = {c1, c2}
  Limit = 1
  ListCap = 2
  MaxEdits = 1
  MaxCalls <- MCMaxCalls
  Provided = TRUE
  MaxParents = 2
  Together = FALSE
  Early = {c1}
SYMMETRY MCSymmetry
SPECIFICATION Spec
INVARIANTS OpenedIsWhole PagesCoverRanking RightsNeverElevated AnsweredIsStored
CHECK_DEADLOCK FALSE
