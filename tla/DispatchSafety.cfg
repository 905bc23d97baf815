SPECIFICATION FairSpec
CONSTANTS
  s1 = s1  s2 = s2  t1 = t1  t2 = t2
  Slots = {s1, s2}
  MidiSlots = {s1}
  Tempos = {t1, t2}
  Inputs <- AllInputs
  Retries = 2
  MaxRequests = 2
  MaxEdits = 2
  None = None
INVARIANTS WritesUndoable RepliesTellTheSet AdmissionLasts
PROPERTY RequestEnds
CHECK_DEADLOCK FALSE
