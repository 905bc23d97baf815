\* Two calls for one track or three for one project, two edits by the user, chains of up to three devices.
CONSTANTS
  None = None
  c1 = c1
  c2 = c2
  c3 = c3
  Plans <- MCPlans
  Calls = {c1, c2, c3}
  Chains <- MCChains
  OnAudio = FALSE
  MaxEdits = 2
SYMMETRY MCSymmetry
SPECIFICATION Spec
INVARIANT ProjectOfOneCall
PROPERTY LoadedWhereItGoes
CHECK_DEADLOCK FALSE
