----------------------------- MODULE MCCuePoints -----------------------------
(* A small instance of CuePoints for TLC: 1 lies off the grid and is snapped to 0. *)
EXTENDS CuePoints

CONSTANTS a, b

Timeline == 0..2
Snaps == [t \in Timeline |-> IF t = 1 THEN 0 ELSE t]

Request(kind, items) == [kind |-> kind, items |-> items]
Cue(t, name) == [time |-> t, name |-> name]
AllInputs ==
  {Request("create", <<Cue(1, a)>>), Request("delete", <<Cue(1, None)>>),
   Request("bulk", <<Cue(1, a), Cue(0, b)>>), Request("jump", <<Cue(2, None)>>)}
==============================================================================
