SPECIFICATION GrooveSpec
CONSTANTS
  s1 = s1  s2 = s2  t1 = t1  a1 = a1  a2 = a2
  Slots = {s1}
  MidiSlots = {s1}
  Tempos = {t1}
  Inputs <- GrooveInputs
  Retries = 1
  MaxRequests = 2
  MaxEdits = 1
  None = None
  Appliers = {a1, a2}
  SlotOf <- SameSlot
  MaxEpoch = 7
  MaxRestarts = 1
INVARIANTS RefusedIsFinal PartialIsAClip CommittedIsWritten
CHECK_DEADLOCK FALSE
