\* The whole baseline, the same with quit named, and five parts of it, with and without the
\* fixtures; two faults.
SPECIFICATION AcceptanceSpec
CONSTANTS
  Selections <- MCSelections
  MaxFaults = 2
INVARIANTS LeftoversAreFailed AllClassified
PROPERTY TracksLast
CHECK_DEADLOCK FALSE
