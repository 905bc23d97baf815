------------------------------ MODULE MCDispatch ------------------------------
(* Small instances of Dispatch for TLC. *)
EXTENDS Dispatch

CONSTANTS s1, s2, t1, t2

Cmd(name, arg)  == [name |-> name, arg |-> arg, dry |-> "no"]
Dry(name, arg)  == [name |-> name, arg |-> arg, dry |-> "yes"]
Bad(name, arg)  == [name |-> name, arg |-> arg, dry |-> "bad"]
One(c)          == [batch |-> FALSE, pre |-> {}, commands |-> <<c>>]
Batch(pre, cs)  == [batch |-> TRUE, pre |-> pre, commands |-> cs]

Singles ==
  {One(c) : c \in {Cmd(n, s1) : n \in Names \ {"run_batch", "set_tempo"}}
                  \cup {Dry("create_clip", s1), Bad("create_clip", s1),
                        Cmd("set_tempo", t2), Dry("set_tempo", t2)}}

\* A clip and its notes, also on an audio track; the same after a command that waits; mixtures of dry and
\* real commands; a batch that makes two clips in one slot, and malformed ones.
Batches ==
  {Batch({s1}, <<Cmd("create_clip", s1), Cmd("add_notes_to_clip", s1)>>),
   Batch({s1}, <<Cmd("set_tempo", t2), Cmd("create_clip", s1), Cmd("add_notes_to_clip", s1)>>),
   Batch({}, <<Dry("create_clip", s1), Cmd("set_tempo", t2)>>),
   Batch({}, <<Dry("create_clip", s1), Dry("set_tempo", t2)>>),
   Batch({}, <<Cmd("delete_clip", s1), Cmd("create_clip", s1), Cmd("create_clip", s1)>>),
   Batch({s2}, <<Cmd("create_clip", s2), Cmd("add_notes_to_clip", s2)>>),
   Batch({None}, <<Cmd("delete_clip", s1)>>),
   Batch({}, <<Cmd("delete_clip", s1), Cmd("read", s1)>>),
   Batch({}, <<Cmd("run_batch", s1)>>),
   Batch({}, <<Bad("set_tempo", t2)>>),
   Batch({}, <<>>)}

AllInputs == Singles \cup Batches
==============================================================================
