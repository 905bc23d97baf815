---------------------------- MODULE MCGrooveApply -----------------------------
(* Small instances of GrooveApply for TLC. *)
EXTENDS GrooveApply

CONSTANTS s1, s2, t1, a1, a2

\* Two calls for one slot; one for a MIDI track and one for an audio track.
SameSlot == [a \in Appliers |-> s1]
TwoSlots == [a \in Appliers |-> IF a = a1 THEN s1 ELSE s2]
GrooveInputs == {BatchFor(a, sc) : a \in Appliers, sc \in Scripts}
==============================================================================
