-------------------------- MODULE MCRealtimeChannel --------------------------
(* Small instances of RealtimeChannel for TLC. *)
EXTENDS RealtimeChannel

CONSTANTS r1, r2

\* A move of one ref, a move of both, and the stop.
AllBodies == {[op |-> "parameter.set", ref |-> r1],
              [op |-> "xy.set", xRef |-> r1, yRef |-> r2],
              [op |-> "emergency-stop"]}
==============================================================================
