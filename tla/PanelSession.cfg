SPECIFICATION Spec
CONSTANTS
  MaxActivations = 2
  MaxOps = 2
  MaxFailures = 2
  MaxCommands = 2
  MaxEdits = 1
  MaxFaults = 1
  Together = FALSE
INVARIANTS AppliedOnce NoUnseenOverwrite TakenIsTold InactiveIsCancelled
CHECK_DEADLOCK FALSE
PROPERTIES MenuGoes PanelCatchesUp
