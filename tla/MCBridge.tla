------------------------------- MODULE MCBridge -------------------------------
(* Small instances of Bridge for TLC. *)
EXTENDS Bridge

CONSTANTS c1, c2, k1

\* One client shared by all callers.
OneClient == [c \in Callers |-> k1]

\* Names as the catalogue spells them.
Plain == [cmd \in Commands |-> cmd]
\* One fault: a connection is reset or Live is restarted.
OneFault == breaks + restarts <= 1
==============================================================================
