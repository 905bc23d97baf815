------------------------------- MODULE CuePoints -------------------------------
(***************************************************************************)
(* Locators (cues.py) and verified moves of the playhead (transport.py).   *)
(*                                                                         *)
(* Live has one call for locators: toggle one at the playhead.  To create  *)
(* or delete one, a request moves the playhead, toggles once, watches what *)
(* becomes of the locators on later ticks, reverses a toggle that Live has *)
(* snapped to its grid, and finally puts the playhead back.  Between two   *)
(* ticks Live applies the toggle, or not, and the user edits the same Set. *)
(***************************************************************************)
EXTENDS Integers, Sequences, FiniteSets

CONSTANTS
  Times,        \* places on the timeline, farther apart than CUE_TIME_TOLERANCE
  Grid,         \* where Live's editing grid snaps each of them to
  Starts,       \* bound: where the playhead is in the beginning
  Inputs,       \* requests that clients send
  Names,        \* names of locators
  Own,          \* a name that the user gives
  AutoName,     \* the name that Live gives to a new locator
  Ticks,        \* CUE_OPERATION_VERIFY_TICKS
  Retries,      \* PLAYHEAD_MOVE_RETRIES
  MaxRequests,  \* bound: requests served
  MaxEdits,     \* bound: what the user does
  None          \* no locator, no request

\* A request and its items: only those that make locators name them, and only a bulk
\* request has more than one.
Items == [time : Times, name : Names \cup {None}]
Requests == [kind : {"create", "bulk", "delete", "jump"}, items : Seq(Items) \ {<<>>}]

ASSUME CueAssumption ==
  /\ Inputs \subseteq Requests /\ None \notin Inputs
  /\ \A r \in Inputs :
       /\ r.kind # "bulk" => Len(r.items) = 1
       /\ r.kind \in {"create", "bulk"} => \A i \in DOMAIN r.items : r.items[i].name # None
  /\ Grid \in [Times -> Times] /\ \A t \in Times : Grid[Grid[t]] = Grid[t]
  /\ Starts \subseteq Times /\ {Own, AutoName} \subseteq Names /\ None \notin Names
  /\ Ticks \in Nat \ {0} /\ Retries \in Nat \ {0}

VARIABLES
  inTick,    \* Live is inside update_display
  cues,      \* per place: the name of the locator that is there
  playhead,  \* current_song_time
  quant,     \* clip_trigger_quantization: the user's or none
  pending,   \* toggles that Live has not applied: where, and whether the wait for it is over
  req,       \* the request being served
  job,       \* how far it is
  edits,     \* what the user has done so far
  taken,     \* number of requests served
  replies    \* history: each reply, with the Set before and after
song == <<cues, playhead, quant, pending>>
env  == <<edits, taken, replies>>
vars == <<inTick, song, req, job, env>>

\* How the handling of one item ends.
Done   == {"created", "renamed", "deleted", "absent", "moved"}
Failed == {"snapped", "not_moved", "unavailable", "unexpected", "unnamed", "exception"}
Phases == {"item", "position", "toggle", "wait", "rename", "jump", "finish"}

TypeOK ==
  /\ inTick \in BOOLEAN
  /\ cues \in [Times -> Names \cup {None}] /\ playhead \in Times
  /\ quant \in {"users", "none"}
  /\ req # None =>
       /\ job.pc \in Phases /\ job.at \in 1..(Len(req.items) + 1)
       /\ job.attempt \in 0..(IF Ticks > Retries THEN Ticks ELSE Retries)
       /\ \A i \in DOMAIN job.results : job.results[i] \in Done \cup Failed
       /\ Len(job.results) < job.at
------------------------------------------------------------------------------
Idle == [pc |-> "item"]

Init ==
  /\ inTick = FALSE
  /\ cues \in [Times -> {None, Own}] /\ playhead \in Starts
  /\ quant = "users" /\ pending = <<>>
  /\ req = None /\ job = Idle
  /\ edits = 0 /\ taken = 0 /\ replies = {}

Present(snapshot) == {t \in Times : snapshot[t] # None}
Item == req.items[job.at]
At(phase) == inTick /\ req # None /\ job.pc = phase

\* The wait for a toggle is over, whether or not Live has applied it.
GivenUp == [i \in DOMAIN pending |-> [pending[i] EXCEPT !.late = TRUE]]

Reply(j, restored) ==
  /\ replies' = replies \cup
       {[req |-> req, results |-> j.results, restored |-> restored, touched |-> j.touched,
         began |-> j.began, ended |-> cues, moved |-> playhead # j.from]}
  /\ req' = None /\ job' = Idle

Travel(j, t, then) == [j EXCEPT !.pc = "position", !.then = then, !.aim = t, !.attempt = 0]
ItemEnds(j, outcome) ==
  [j EXCEPT !.pc = "item", !.at = @ + 1, !.results = Append(@, outcome), !.attempt = 0]
\* Anything but a typed error also ends the items that follow.
Abort(j) == [ItemEnds(j, "exception") EXCEPT !.at = Len(req.items) + 1]
NextTick(j) == inTick' = FALSE /\ job' = [j EXCEPT !.attempt = @ + 1]
------------------------------------------------------------------------------
TickBegins ==
  /\ ~inTick /\ (req # None \/ taken < MaxRequests)
  /\ inTick' = TRUE
  /\ UNCHANGED <<song, req, job, env>>

TickEnds ==
  /\ inTick /\ req = None
  /\ inTick' = FALSE
  /\ UNCHANGED <<song, req, job, env>>

\* The playhead and the quantization are saved, and the quantization suspended.
Begin(r) ==
  /\ inTick /\ req = None /\ taken < MaxRequests
  /\ taken' = taken + 1
  /\ req' = r
  /\ job' = [pc |-> IF r.kind = "jump" THEN "jump" ELSE "item",
             at |-> 1, results |-> <<>>, attempt |-> 0, then |-> "toggle", aim |-> playhead,
             from |-> playhead, users |-> quant, before |-> cues, began |-> cues,
             undoes |-> FALSE, held |-> None, name |-> AutoName, outcome |-> "absent", touched |-> <<>>]
  /\ quant' = IF r.kind = "delete" /\ cues[r.items[1].time] = None THEN quant ELSE "none"
  /\ UNCHANGED <<inTick, cues, playhead, pending, edits, replies>>

\* No locator to delete: the reply is given before anything is touched.
DeleteAbsent ==
  /\ At("item") /\ job.at = 1 /\ req.kind = "delete" /\ cues[Item.time] = None
  /\ Reply([job EXCEPT !.results = <<"absent">>], TRUE)
  /\ UNCHANGED <<inTick, song, edits, taken>>

\* A locator that is there is renamed; otherwise the locators are listed and
\* the playhead sent to the place.
StartItem ==
  /\ At("item") /\ job.at \in DOMAIN req.items
  /\ LET t == Item.time
         j == [job EXCEPT !.undoes = FALSE, !.attempt = 0, !.name = Item.name, !.before = cues]
     IN IF req.kind = "delete"
        THEN cues[t] # None /\ job' = Travel([j EXCEPT !.outcome = "deleted"], t, "toggle")
        ELSE job' = IF cues[t] # None
                    THEN [j EXCEPT !.outcome = "renamed", !.pc = "rename", !.held = t]
                    ELSE Travel([j EXCEPT !.outcome = "created"], t, "toggle")
  /\ UNCHANGED <<inTick, song, req, env>>

\* Mutant: the playhead is sent back on success only (else instead of finally).
GoBackOnSuccess ==
  /\ At("item") /\ job.at > Len(req.items)
  /\ job' = IF \A i \in DOMAIN job.results : job.results[i] \in Done
            THEN Travel(job, job.from, "finish") ELSE [job EXCEPT !.pc = "finish"]
  /\ UNCHANGED <<inTick, song, req, env>>

\* finally: the playhead is sent back.
GoBack ==
  /\ At("item") /\ job.at > Len(req.items)
  /\ job' = Travel(job, job.from, "finish")
  /\ UNCHANGED <<inTick, song, req, env>>

\* _verified_cue_position_steps: it is there; written again; or given up, in
\* which case the finally block ends here and the quantization stays suspended.
Position ==
  /\ At("position")
  /\ IF playhead = job.aim
     THEN /\ job' = [job EXCEPT !.pc = job.then, !.attempt = 0]
          /\ UNCHANGED <<inTick, req, playhead, replies>>
     ELSE IF job.attempt < Retries
     THEN NextTick(job) /\ playhead' \in {playhead, job.aim} /\ UNCHANGED <<req, replies>>
     ELSE /\ UNCHANGED <<inTick, playhead>>
          /\ IF job.then = "finish"
             THEN Reply([job EXCEPT !.results = Append(@, "not_moved")], FALSE)
             ELSE job' = ItemEnds(job, "not_moved") /\ UNCHANGED <<req, replies>>
  /\ UNCHANGED <<cues, quant, pending, edits, taken>>

\* song.set_or_delete_cue(): Live is asked, and gets a tick to do it.
Toggle ==
  /\ At("toggle")
  /\ pending' = Append(pending, [at |-> playhead, late |-> FALSE])
  /\ job' = [job EXCEPT !.pc = "wait", !.attempt = 1]
  /\ inTick' = FALSE
  /\ UNCHANGED <<cues, playhead, quant, req, env>>

\* What has become of the locators since they were listed.
Added   == Present(cues) \ Present(job.before)
Removed == Present(job.before) \ Present(cues)
OneAdded   == Cardinality(Added) = 1 /\ Removed = {}
OneRemoved == Cardinality(Removed) = 1 /\ Added = {}

\* Mutant: the restored locator keeps the name that Live gives to a new one.
AsWishedUnnamed ==
  IF job.undoes THEN ItemEnds(job, "snapped")
  ELSE IF req.kind = "delete" THEN ItemEnds(job, "deleted")
       ELSE [job EXCEPT !.pc = "rename", !.held = job.aim, !.attempt = 0]

\* The toggle did what it was for: go on.  A locator that a snapped toggle had
\* removed is there again and gets its name back.
AsWished ==
  IF job.undoes
  THEN IF job.before[job.aim] = None
       THEN ItemEnds(job, "snapped")
       ELSE [job EXCEPT !.pc = "rename", !.held = job.aim, !.name = job.before[job.aim], !.attempt = 0]
  ELSE IF req.kind = "delete" THEN ItemEnds(job, "deleted")
       ELSE [job EXCEPT !.pc = "rename", !.held = job.aim, !.attempt = 0]

\* A reversal waits for one place only.  Of a deletion, nothing else may have changed.
Wished ==
  IF job.undoes THEN (cues[job.aim] # None) = (job.before[job.aim] # None)
  ELSE IF req.kind = "delete" THEN cues[job.aim] = None
       ELSE cues[job.aim] # None

\* One tick after the toggle, and every tick until something has happened.
Observe ==
  /\ At("wait")
  /\ IF Wished
     THEN /\ job' = IF req.kind = "delete" /\ ~job.undoes /\ ~(Added = {} /\ Removed \subseteq {job.aim})
                    THEN ItemEnds(job, "unexpected") ELSE AsWished
          /\ pending' = GivenUp /\ UNCHANGED inTick
     ELSE IF ~job.undoes /\ (Added # {} \/ Removed # {})
     THEN /\ job' = IF OneAdded \/ OneRemoved
                    THEN Travel([job EXCEPT !.undoes = TRUE], CHOOSE t \in Added \cup Removed : TRUE, "toggle")
                    ELSE ItemEnds(job, "unexpected")
          /\ pending' = GivenUp /\ UNCHANGED inTick
     ELSE IF job.attempt < Ticks
     THEN NextTick(job) /\ UNCHANGED pending
     ELSE job' = ItemEnds(job, "unavailable") /\ pending' = GivenUp /\ UNCHANGED inTick
  /\ UNCHANGED <<cues, playhead, quant, req, env>>

Named(j) == ItemEnds(j, IF j.undoes THEN "snapped" ELSE j.outcome)

\* _verified_cue_name_steps.  Live may ignore the write, and the locator may be
\* gone: then the write raises.
Rename ==
  /\ At("rename")
  /\ IF job.attempt > 0 /\ job.held # None /\ cues[job.held] = job.name
     THEN job' = Named(job) /\ UNCHANGED <<inTick, cues>>
     ELSE IF job.held = None
     THEN job' = Abort(job) /\ UNCHANGED <<inTick, cues>>
     ELSE /\ cues' \in {cues, [cues EXCEPT ![job.held] = job.name]}
          /\ IF job.attempt = 0 /\ cues'[job.held] = job.name
             THEN job' = Named(job) /\ UNCHANGED inTick
             ELSE IF job.attempt < Ticks
             THEN NextTick(job)
             ELSE job' = ItemEnds(job, "unnamed") /\ UNCHANGED inTick
  /\ UNCHANGED <<playhead, quant, pending, req, env>>

\* The playhead is back: the quantization as well, and the reply is given.
Finish ==
  /\ At("finish")
  /\ quant' = job.users
  /\ Reply(job, TRUE)
  /\ UNCHANGED <<inTick, cues, playhead, pending, edits, taken>>

\* _verified_playhead_steps: written first, then looked at; the quantization is
\* restored however it ends.
Jump ==
  /\ At("jump")
  /\ LET t == req.items[1].time
         Ends(outcome) == /\ quant' = job.users
                          /\ Reply([job EXCEPT !.results = <<outcome>>], TRUE)
                          /\ UNCHANGED <<inTick, playhead>>
     IN IF job.attempt > 0 /\ playhead = t THEN Ends("moved")
        ELSE IF job.attempt = Retries THEN Ends("not_moved")
        ELSE NextTick(job) /\ playhead' \in {playhead, t} /\ UNCHANGED <<quant, req, replies>>
  /\ UNCHANGED <<cues, pending, edits, taken>>

\* An exception out of a call into Live is no RemoteError, so it ends the items that
\* follow as well. The finally block runs, unless it is the one that fails: then its
\* exception is the reply, and the quantization stays suspended.
LiveRaises ==
  /\ inTick /\ req # None /\ job.pc # "jump"
  /\ job.pc = "item" => job.at \in DOMAIN req.items
  /\ pending' = IF job.pc = "wait" THEN GivenUp ELSE pending
  /\ IF job.pc = "finish" \/ (job.pc = "position" /\ job.then = "finish")
     THEN Reply([job EXCEPT !.results = Append(@, "exception")], FALSE)
     ELSE job' = Abort(job) /\ UNCHANGED <<req, replies>>
  /\ UNCHANGED <<inTick, cues, playhead, quant, edits, taken>>

\* The same in a jump, or in its finally block.
JumpRaises ==
  /\ At("jump")
  /\ \E restored \in BOOLEAN :
       /\ quant' = IF restored THEN job.users ELSE quant
       /\ Reply([job EXCEPT !.results = <<"exception">>], restored)
  /\ UNCHANGED <<inTick, cues, playhead, pending, edits, taken>>
------------------------------------------------------------------------------
(*********************** Live and the user, between ticks ******************)
\* The locator object that a request holds is dead once its locator is deleted.
Touch(t, name, byRequest) ==
  /\ cues' = [cues EXCEPT ![t] = name]
  /\ job' = IF req = None THEN job
            ELSE [job EXCEPT !.touched = IF byRequest THEN @ ELSE Append(@, t),
                             !.held = IF name = None /\ @ = t THEN None ELSE @]

\* Live applies the oldest toggle where it was asked to or at the grid, or drops it.
LiveToggles ==
  /\ ~inTick /\ pending # <<>>
  /\ pending' = Tail(pending)
  /\ \/ \E t \in {Head(pending).at, Grid[Head(pending).at]} :
          Touch(t, IF cues[t] = None THEN AutoName ELSE None, ~Head(pending).late)
     \/ UNCHANGED <<cues, job>>
  /\ UNCHANGED <<inTick, playhead, quant, req, env>>

\* The user adds, renames or deletes a locator, or moves the playhead, while a
\* request is served: before it, any Set is an initial state.
UserEdit ==
  /\ ~inTick /\ req # None /\ edits < MaxEdits
  /\ edits' = edits + 1
  /\ \/ \E t \in Times, name \in {None, Own} : Touch(t, name, FALSE) /\ UNCHANGED playhead
     \/ playhead' \in Times /\ UNCHANGED <<cues, job>>
  /\ UNCHANGED <<inTick, quant, pending, req, taken, replies>>

Serve ==
  \/ TickBegins \/ (\E r \in Inputs : Begin(r))
  \/ DeleteAbsent \/ StartItem \/ GoBack
  \/ Position \/ Toggle \/ Observe \/ Rename \/ Finish \/ Jump
Next == Serve \/ LiveRaises \/ JumpRaises \/ TickEnds \/ LiveToggles \/ UserEdit

\* Live goes on calling update_display, and update_display returns.
Spec == Init /\ [][Next]_vars /\ WF_vars(Serve)
------------------------------------------------------------------------------
\* What the reply says of the locator at a place: what the last item that succeeded
\* there has made of it, otherwise that it is as it was.
Told(rep, t) ==
  LET there == {i \in DOMAIN rep.req.items :
                  rep.req.items[i].time = t /\ rep.results[i] \in {"created", "renamed", "deleted"}}
  IN IF there = {} THEN rep.began[t]
     ELSE LET last == CHOOSE i \in there : \A k \in there : k <= i
          IN IF rep.results[last] = "deleted" THEN None ELSE rep.req.items[last].name

\* A reply of successes and snapped toggles tells the whole truth about the
\* locators: every one is as told, and those that a toggle had hit by mistake are
\* back under their names.  That holds also if meanwhile the user, or a toggle that
\* Live applied when the wait for it was over, has been at one other place, which
\* is left out of the promise. (cues.py, the reversal of snapped toggles)
RepliesTellTheLocators ==
  \A rep \in replies :
    /\ rep.restored /\ \A i \in DOMAIN rep.results : rep.results[i] \in Done \cup {"snapped"}
    /\ Len(rep.touched) <= 1
    => \A t \in Times : LET others == {rep.touched[i] : i \in DOMAIN rep.touched} IN
         others \cap {rep.req.items[i].time : i \in DOMAIN rep.req.items} = {} /\ t \notin others
         => rep.ended[t] = Told(rep, t)

\* However an item fails, exceptions of Live included, and after whatever the user did,
\* the playhead is where it was when the reply is given, or the reply is the error that
\* kept it from being put back; and only in that case may the quantization stay
\* suspended. (cues.py, finally)
PutBack ==
  /\ \A rep \in replies : rep.restored /\ rep.req.kind # "jump" => ~rep.moved
  /\ req = None /\ quant = "none" => \E rep \in replies : ~rep.restored

==============================================================================
