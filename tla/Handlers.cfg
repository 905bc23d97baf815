SPECIFICATION Spec
CONSTANTS
  Retries = 3
  TrackLimit = 2
  Points = 2
  StepLimit = 4
  Curves <- MCCurves
  Presets <- MCPresets
  RepeatLimit = 2
  Browsers <- MCBrowsers
  Notes <- MCNotes
  Items <- MCItems
  MaxFound = 3
  MaxDepth = 2
  ChildLimit = 2
  VisitLimit = 8
  FadeSteps = 3
  Interval = 3
  TickTime = 2
  Trees <- MCTrees
  MaxActs = 2
  MaxFaults = 1
INVARIANTS OkTellsTheSet RefusedChangesNothing MoveKeepsClip FadeKeepsPace QuitsSaved WritesTheMeant ReadsTellAll
CHECK_DEADLOCK FALSE
