SPECIFICATION GrooveSpec
CONSTANTS
  s1 = s1  s2 = s2  t1 = t1  a1 = a1  a2 = a2
  Slots = {s1, s2}
  MidiSlots = {s1}
  Tempos = {t1}
  Inputs <- GrooveInputs
  Retries = 1
  MaxRequests = 2
  MaxEdits = 0
  None = None
  Appliers = {a1, a2}
  SlotOf <- TwoSlots
  MaxEpoch = 2
  MaxRestarts = 0
INVARIANTS CommittedCompleted
CHECK_DEADLOCK FALSE
