------------------------------- MODULE Dispatch -------------------------------
(***************************************************************************)
(* What Live's thread does with one request after another (dispatch.py):   *)
(* refusals, the admission of a batch by its preconditions                 *)
(* (preconditions.py), the undo step around the request, the commands of a *)
(* batch in order until the first error, and commands that write, wait for *)
(* the next tick and read back (transport.py).                             *)
(*                                                                         *)
(* Live calls update_display once per tick; the user edits the same Set    *)
(* between ticks, so whatever waits for a tick is exposed to the user.     *)
(*                                                                         *)
(* The commands stand for their kinds: clip commands finish in the tick in *)
(* which they begin, set_tempo is confirmed on a later one.                *)
(***************************************************************************)
EXTENDS Integers, Sequences, FiniteSets

CONSTANTS
  Slots,        \* clip slots
  MidiSlots,    \* those on MIDI tracks
  Tempos,       \* tempo values
  Inputs,       \* requests that clients send
  Retries,      \* PLAYHEAD_MOVE_RETRIES
  MaxRequests,  \* bound: requests taken from the queue
  MaxEdits,     \* bound: edits by the user
  None          \* no clip, no request, a precondition that names no slot

Mutations == {"create_clip", "add_notes_to_clip", "delete_clip", "set_tempo", "run_batch"}
DryRunnable == {"create_clip", "set_tempo"}
Refusable == {"read_only", "unavailable"}  \* READ_ONLY_COMMANDS, UNSUPPORTED_CAPABILITIES
Names == Mutations \cup Refusable \cup {"read", "unknown"}

\* dry is the dry_run parameter: absent or false, true, or no boolean.
Commands ==
  [name : Names \ {"set_tempo"}, arg : Slots, dry : {"no", "yes", "bad"}]
    \cup [name : {"set_tempo"}, arg : Tempos, dry : {"no", "yes", "bad"}]
\* A request of one command, or a run_batch with its preconditions.
Requests == [batch : BOOLEAN, pre : SUBSET (Slots \cup {None}), commands : Seq(Commands)]
User == 0
Makers == 0..MaxRequests

ASSUME DispatchAssumption ==
  /\ Inputs \subseteq Requests
  /\ MidiSlots \subseteq Slots
  /\ \A r \in Inputs : ~r.batch => /\ Len(r.commands) = 1 /\ r.commands[1].name # "run_batch"
                                 /\ r.pre = {}
  /\ Retries \in Nat \ {0} /\ MaxRequests \in Nat /\ MaxEdits \in Nat
  /\ None \notin Requests \cup Slots \cup Makers

VARIABLES
  inTick,   \* Live is inside update_display
  hasUndo,  \* the Live version exposes begin_undo_step and end_undo_step
  undo,     \* undo steps that the script has begun and not ended
  taken,    \* number of requests taken from the queue
  active,   \* the request being served
  at,       \* position of the command being run
  attempt,  \* writes of the waiting command, 0 when none waits
  results,  \* how the commands of the active request have ended so far
  replies,  \* the replies given, each with the number of its request
  clip,     \* per slot: who made the clip that is in it
  tempo,    \* the tempo
  edits,    \* edits by the user
  writes    \* history: which command of which request wrote what into the Set

live == <<inTick, hasUndo, undo, taken, active, at, attempt, results, replies, writes>>
set  == <<clip, tempo>>
vars == <<live, set, edits>>

Outcomes == {"ok", "occupied", "no_clip", "wrong_type", "invalid", "unknown", "unverified", "exception"}

Replies == [no : Makers, req : Requests, refused : BOOLEAN, results : Seq(Outcomes)]
Writes  == [req : Makers, index : Nat, undo : Nat, into : Makers \cup {None}]

TypeOK ==
  /\ inTick \in BOOLEAN /\ hasUndo \in BOOLEAN
  /\ undo \in 0..1
  /\ taken \in 0..MaxRequests
  /\ active \in Requests \cup {None}
  /\ at \in Nat /\ attempt \in 0..Retries
  /\ results \in Seq(Outcomes)
  /\ replies \subseteq Replies
  /\ clip \in [Slots -> Makers \cup {None}]
  /\ tempo \in Tempos
  /\ edits \in 0..MaxEdits
  /\ writes \subseteq Writes
------------------------------------------------------------------------------
Init ==
  /\ inTick = FALSE /\ hasUndo \in BOOLEAN
  /\ undo = 0 /\ taken = 0 /\ active = None /\ at = 0 /\ attempt = 0
  /\ results = <<>> /\ replies = {}
  /\ clip \in [Slots -> {None, User}]
  /\ tempo \in Tempos
  /\ edits = 0 /\ writes = {}

(*************************** what a request is *****************************)
BadDry(c) == c.name \in DryRunnable /\ c.dry = "bad"

\* Mutant: a batch is taken for a dry run when any command of it is one.
DryRunOnlyAny(r) ==
  \E i \in DOMAIN r.commands :
    r.commands[i].name \in DryRunnable /\ r.commands[i].dry = "yes"

\* _is_dry_run_only: nothing of the request can write.
DryRunOnly(r) ==
  /\ r.commands # <<>>
  /\ \A i \in DOMAIN r.commands :
       r.commands[i].name \in DryRunnable /\ r.commands[i].dry = "yes"

OwnsUndo(r) == (r.batch \/ r.commands[1].name \in Mutations) /\ ~DryRunOnly(r)

\* _admit_batch: every precondition is well formed and every slot empty.
Admitted(r) == r.batch => \A s \in r.pre : s # None /\ clip[s] = None

\* Requests that are answered before an undo step is begun.
Refused(r) ==
  \/ ~Admitted(r)
  \/ ~r.batch /\ (r.commands[1].name \in Refusable \/ BadDry(r.commands[1]))
  \/ OwnsUndo(r) /\ ~hasUndo
------------------------------------------------------------------------------
(*************************** Live's thread *********************************)
TickBegins ==
  /\ ~inTick /\ (active # None \/ taken < MaxRequests)
  /\ inTick' = TRUE
  /\ UNCHANGED <<hasUndo, undo, taken, active, at, attempt, results, replies, writes, set, edits>>

TickEnds ==
  /\ inTick /\ active = None
  /\ inTick' = FALSE
  /\ UNCHANGED <<hasUndo, undo, taken, active, at, attempt, results, replies, writes, set, edits>>

\* Mutant: Live gets a tick between the admission and the first command.
TakeYields(r) ==
  /\ inTick /\ active = None /\ taken < MaxRequests
  /\ taken' = taken + 1
  /\ results' = <<>> /\ attempt' = 0
  /\ IF Refused(r)
     THEN /\ replies' = replies \cup {[no |-> taken + 1, req |-> r, refused |-> TRUE, results |-> <<>>]}
          /\ UNCHANGED <<active, at, undo, inTick>>
     ELSE /\ active' = r /\ at' = 1
          /\ undo' = undo + IF OwnsUndo(r) THEN 1 ELSE 0
          /\ inTick' = FALSE
          /\ UNCHANGED replies
  /\ UNCHANGED <<hasUndo, writes, set, edits>>

\* The oldest request is taken from the queue and begins.
Take(r) ==
  /\ inTick /\ active = None /\ taken < MaxRequests
  /\ taken' = taken + 1
  /\ results' = <<>> /\ attempt' = 0
  /\ IF Refused(r)
     THEN /\ replies' = replies \cup {[no |-> taken + 1, req |-> r, refused |-> TRUE, results |-> <<>>]}
          /\ UNCHANGED <<active, at, undo>>
     ELSE /\ active' = r /\ at' = 1
          /\ undo' = undo + IF OwnsUndo(r) THEN 1 ELSE 0
          /\ UNCHANGED replies
  /\ UNCHANGED <<inTick, hasUndo, writes, set, edits>>

\* The reply is given and, whatever it says, the undo step ended (finally).
Finish(rs) ==
  /\ replies' = replies \cup {[no |-> taken, req |-> active, refused |-> FALSE, results |-> rs]}
  /\ undo' = undo - IF OwnsUndo(active) THEN 1 ELSE 0
  /\ active' = None /\ at' = 0

\* Mutant: the batch goes on after an error.
CommandEndsGoesOn(outcome) ==
  /\ results' = Append(results, outcome)
  /\ attempt' = 0
  /\ IF at < Len(active.commands)
     THEN at' = at + 1 /\ UNCHANGED <<active, undo, replies>>
     ELSE Finish(Append(results, outcome))

\* A command ends; the first error ends the batch, and what was written stays.
CommandEnds(outcome) ==
  /\ results' = Append(results, outcome)
  /\ attempt' = 0
  /\ IF outcome = "ok" /\ at < Len(active.commands)
     THEN at' = at + 1 /\ UNCHANGED <<active, undo, replies>>
     ELSE Finish(Append(results, outcome))

\* A batch without commands ends in an error, inside its undo step.
EmptyBatch ==
  /\ inTick /\ active # None /\ active.commands = <<>>
  /\ Finish(<<"invalid">>)
  /\ results' = <<"invalid">> /\ attempt' = 0
  /\ UNCHANGED <<inTick, hasUndo, taken, writes, set, edits>>

Running == inTick /\ active # None /\ at \in DOMAIN active.commands
Current == active.commands[at]

\* _validated_batch_command, and the check of dry_run that follows it.
InvalidInBatch(c) == active.batch /\ (c.name \notin Mutations \ {"run_batch"} \/ BadDry(c))
Runnable(name) == Running /\ Current.name = name /\ ~InvalidInBatch(Current)

RejectCommand ==
  /\ Running /\ InvalidInBatch(Current)
  /\ CommandEnds("invalid")
  /\ UNCHANGED <<inTick, hasUndo, taken, writes, set, edits>>

Written(into) ==
  writes' = writes \cup {[req |-> taken, index |-> at, undo |-> undo, into |-> into]}

CreateClip ==
  /\ Runnable("create_clip")
  /\ LET s == Current.arg IN
     IF s \notin MidiSlots \/ clip[s] # None
     THEN /\ CommandEnds(IF s \notin MidiSlots THEN "wrong_type" ELSE "occupied")
          /\ UNCHANGED <<clip, writes>>
     ELSE /\ CommandEnds("ok")
          /\ IF Current.dry = "yes"
             THEN UNCHANGED <<clip, writes>>
             ELSE clip' = [clip EXCEPT ![s] = taken] /\ Written(taken)
  /\ UNCHANGED <<inTick, hasUndo, taken, tempo, edits>>

AddNotes ==
  /\ Runnable("add_notes_to_clip")
  /\ IF clip[Current.arg] = None \/ Current.arg \notin MidiSlots
     THEN CommandEnds("wrong_type") /\ UNCHANGED writes
     ELSE CommandEnds("ok") /\ Written(clip[Current.arg])
  /\ UNCHANGED <<inTick, hasUndo, taken, set, edits>>

DeleteClip ==
  /\ Runnable("delete_clip")
  /\ LET s == Current.arg IN
     IF clip[s] = None
     THEN CommandEnds("no_clip") /\ UNCHANGED <<clip, writes>>
     ELSE CommandEnds("ok") /\ clip' = [clip EXCEPT ![s] = None] /\ Written(clip[s])
  /\ UNCHANGED <<inTick, hasUndo, taken, tempo, edits>>

DryTempo ==
  /\ Runnable("set_tempo") /\ Current.dry = "yes"
  /\ CommandEnds("ok")
  /\ UNCHANGED <<inTick, hasUndo, taken, writes, set, edits>>

\* Live may ignore the write; the command waits for the next tick to find out.
WriteTempo ==
  /\ Runnable("set_tempo") /\ Current.dry # "yes" /\ attempt = 0
  /\ tempo' \in {tempo, Current.arg}
  /\ Written(None)
  /\ attempt' = 1
  /\ inTick' = FALSE
  /\ UNCHANGED <<hasUndo, undo, taken, active, at, results, replies, clip, edits>>

\* Mutant: the attempts are not counted.
ReadBackForever ==
  /\ Runnable("set_tempo") /\ Current.dry # "yes" /\ attempt > 0
  /\ IF tempo = Current.arg
     THEN CommandEnds("ok") /\ UNCHANGED <<inTick, tempo, writes>>
     ELSE /\ tempo' \in {tempo, Current.arg}
          /\ Written(None)
          /\ inTick' = FALSE
          /\ UNCHANGED <<undo, active, at, attempt, results, replies>>
  /\ UNCHANGED <<hasUndo, taken, clip, edits>>

\* One tick later: confirmed, or written again, or given up.
ReadBack ==
  /\ Runnable("set_tempo") /\ Current.dry # "yes" /\ attempt > 0
  /\ IF tempo = Current.arg
     THEN CommandEnds("ok") /\ UNCHANGED <<inTick, tempo, writes>>
     ELSE IF attempt < Retries
          THEN /\ tempo' \in {tempo, Current.arg}
               /\ Written(None)
               /\ attempt' = attempt + 1
               /\ inTick' = FALSE
               /\ UNCHANGED <<undo, active, at, results, replies>>
          ELSE CommandEnds("unverified") /\ UNCHANGED <<inTick, tempo, writes>>
  /\ UNCHANGED <<hasUndo, taken, clip, edits>>

\* A read, or a name that nothing handles.
NoMutation ==
  /\ Running /\ ~active.batch /\ Current.name \in {"read", "unknown"}
  /\ CommandEnds(IF Current.name = "read" THEN "ok" ELSE "unknown")
  /\ UNCHANGED <<inTick, hasUndo, taken, writes, set, edits>>

\* The Live API raises an exception instead of doing anything.
LiveRaises ==
  /\ Running /\ ~InvalidInBatch(Current)
  /\ CommandEnds("exception")
  /\ UNCHANGED <<inTick, hasUndo, taken, writes, set, edits>>

(*************************** the user **************************************)
UserEdit ==
  /\ ~inTick /\ edits < MaxEdits
  /\ edits' = edits + 1
  /\ \/ \E s \in Slots : /\ clip' = [clip EXCEPT ![s] = IF @ = None THEN User ELSE None]
                         /\ UNCHANGED tempo
     \/ tempo' \in Tempos /\ UNCHANGED clip
  /\ UNCHANGED live

Serve ==
  \/ TickBegins
  \/ \E r \in Inputs : Take(r)
  \/ EmptyBatch \/ RejectCommand
  \/ CreateClip \/ AddNotes \/ DeleteClip
  \/ DryTempo \/ WriteTempo \/ ReadBack
  \/ NoMutation \/ LiveRaises

Next == Serve \/ TickEnds \/ UserEdit

Spec == Init /\ [][Next]_vars
\* Live goes on calling update_display, and update_display returns.
FairSpec == Spec /\ WF_vars(Serve)
------------------------------------------------------------------------------
\* Nothing is written outside an undo step, so the user can take every change
\* back, although the decision to begin one is made on the whole request before
\* its commands decide for themselves whether they write. (dispatch.py, owns_undo)
WritesUndoable == \A w \in writes : w.undo = 1

\* An undo step is open exactly while a request that owns one is served, however
\* it ends and however many ticks it takes, and batches open no second one.
UndoBalanced == undo = IF active # None /\ OwnsUndo(active) THEN 1 ELSE 0

\* A reply tells what has become of each command: nothing of a refused request or
\* after the first error was written, and everything reported done was.
RepliesTellTheSet ==
  \A rep \in replies :
    LET rs == rep.results
        Wrote(i) == \E w \in writes : w.req = rep.no /\ w.index = i
    IN \A i \in DOMAIN rep.req.commands :
         LET c == rep.req.commands[i] IN
         /\ rep.refused \/ i > Len(rs) \/ (c.dry = "yes" /\ c.name \in DryRunnable) => ~Wrote(i)
         /\ i \in DOMAIN rs =>
              /\ rs[i] = "ok" /\ c.name \in Mutations /\ c.dry = "no" => Wrote(i)
              /\ rs[i] # "ok" => i = Len(rs)

Waits(c) == c.name = "set_tempo" /\ c.dry = "no"

\* A precondition holds until the batch itself waits for Live: a clip is in the way
\* of an admitted batch only if an earlier command waited, or made it.
AdmissionLasts ==
  \A rep \in replies :
    LET cs == rep.req.commands IN
    \A i \in DOMAIN rep.results :
      rep.results[i] = "occupied" /\ cs[i].arg \in rep.req.pre =>
        \E j \in 1..(i - 1) :
          Waits(cs[j]) \/ (cs[j].name = "create_clip" /\ cs[j].arg = cs[i].arg)

\* Every request that is begun is answered: the retries of a command are counted.
RequestEnds == active # None ~> active = None
==============================================================================
