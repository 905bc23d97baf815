------------------------------ MODULE Handlers ------------------------------
(***************************************************************************)
(* The commands of the Remote Script that edit tracks, clips, devices,     *)
(* envelopes, the transport and the Arrangement (tracks.py, clips.py,      *)
(* devices.py, automation.py, arrangement.py, lifecycle.py, dispatch.py),  *)
(* one of them in a run.                                                   *)
(*                                                                         *)
(* A handler is a generator: it checks, writes, waits for a tick of Live   *)
(* and reads back.  `todo' is what is left of it.  A property that is set, *)
(* or a clip that is copied or deleted, shows at once, from the next tick  *)
(* on, or not at all; a call may raise; and the user edits the same Set    *)
(* between two ticks.                                                      *)
(***************************************************************************)
EXTENDS Parameters, Reads

CONSTANTS
  Retries,     \* writes of a verified property (PLAYHEAD_MOVE_RETRIES)
  TrackLimit,  \* _MAX_TRACKS
  Points,      \* points of an envelope
  StepLimit,   \* steps a curve may come to (500)
  Curves,      \* the times of the control points of a curve, in steps of its resolution
  Presets,     \* names of the presets of the plugin
  Browsers,    \* trees of the browser, a root for each category
  Notes,       \* sequences of notes a clip may have
  RepeatLimit, \* times a pattern may be repeated (128)
  FadeSteps,   \* steps of a fade
  Interval,    \* the clock between two of them
  TickTime,    \* the clock between two ticks
  Trees,       \* device chains the track may have
  MaxActs,     \* bound: edits by the user
  MaxFaults    \* bound: calls that raise

ASSUME HandlersAssumption ==
  /\ {Retries, TrackLimit, Points, StepLimit, RepeatLimit, FadeSteps, Interval, TickTime}
       \subseteq Nat \ {0}
  /\ \A times \in Curves :  \* sorted by time
       /\ times \in Seq(Nat) /\ Len(times) > 1
       /\ \A i, j \in 1..Len(times) : i <= j => times[i] <= times[j]
  /\ Presets \in Seq(STRING \ {""})  \* "" stands for a name that is not given
  /\ Trees \subseteq Seq([params : Seq(STRING), chains : Seq([inner : Seq(Seq(STRING))])])
  /\ MaxActs \in Nat /\ MaxFaults \in Nat

\* Live's uris are stable, and a note has a length.
ASSUME BrowsersAssumption ==
  /\ Browsers \subseteq Seq(Items) \ {<<>>}
  /\ \A b \in Browsers, k \in 0..1 :
       UrisAreUnique(Selected([browser |-> b, category |-> k]), MaxDepth + 1)
  /\ Notes \subseteq Seq([pitch : Int, start : Int, length : Nat \ {0}])

\* Values: what was there, what the command asks for, what the user sets; from Cleared
\* on, an envelope without points and with some, or a fade on its way.
Old == 0  Asked == 1  Users == 2  Cleared == 3
Beats == 0..3
Original == 1
Fields == {"mute", "color", "param", "preset", "trackName", "clipName", "notes", "envelope",
           "placedName", "placedMuted", "volume", "loopStart", "loopEnd", "saved", "quit",
           "tempo", "playing", "songLoop", "songLoopStart", "songLoopLength",
           "clipFired", "sceneFired"}

\* What a command of the transport writes.
Transport == [set_tempo |-> "tempo", start_playback |-> "playing", stop_playback |-> "playing",
              set_loop |-> "songLoop", set_loop_start |-> "songLoopStart",
              set_loop_length |-> "songLoopLength"]

Plain == {"set_track_property", "set_track_color", "set_clip_color", "rename_track",
          "clear_clip_notes", "duplicate", "delete", "move", "hierarchy"}
           \cup (DOMAIN Transport \ {"set_tempo"})
EnvelopeOps == {"create_clip_automation", "create_clip_automation_curve"}
Addressed == {"set_parameter_value"} \cup EnvelopeOps
Creating  == {"create_midi_track", "create_audio_track"}
Commands ==
  [op : Plain]
    \cup [op : {"set_clip_properties"}, start : Beats \cup {-1}, end : Beats \cup {-1}, name : BOOLEAN]
    \cup [op : {"set_arrangement_clip"}, name : BOOLEAN, muted : {"none", "boolean", "other"}]
    \cup [op : Creating, index : -1..2]
    \cup [op : {"save_set"}, api : BOOLEAN]
    \cup [op : {"quit_ableton"}, save : BOOLEAN, force : BOOLEAN, api : BOOLEAN]
    \cup [op : Addressed \ {"create_clip_automation_curve"}, name : {"macro", "own", "volume"},
          dev : 0..2, chain : 0..1, inner : 0..1, inRange : BOOLEAN]
    \cup [op : {"create_clip_automation_curve"}, name : {"own"}, dev : {None}, chain : {None},
          inner : {None}, inRange : BOOLEAN, times : Curves, hold : BOOLEAN]
    \cup [op : {"fire_clip", "fire_scene"}, there : BOOLEAN]
    \cup [op : {"set_tempo"}, dry : BOOLEAN]
    \cup [op : {"set_plugin_preset"}, index : -1..Len(Presets), name : ToSet(Presets) \cup {"", "other"}]
    \cup [op : {"add_notes_pattern"}, cell : {<<>>, <<"note">>, <<"note", "late">>, <<"malformed">>},
          repeats : 1..(RepeatLimit + 1)]
    \cup [op : {"search_browser"}, browser : Browsers, limit : {0, 2, MaxFound + 1},
          depth : 0..(MaxDepth + 1), category : 0..1]
    \cup [op : {"diagnose_midi_clip"}, notes : Notes]
    \cup [op : {"live_fade"}, seconds : -1..2, over : BOOLEAN, allow : BOOLEAN]

VARIABLES
  cmd,     \* the command
  tree,    \* the devices of the track
  todo,    \* what is left of its handler
  answer,  \* none, ok, refused, failed (not observed), rejected (by Live) or raised
  set,     \* the properties
  late,    \* what Live has accepted and shows from the next tick on
  lane,    \* the Arrangement clips
  counts,  \* count_before and len(after_copy)
  tracks,  \* the regular tracks
  target,  \* the parameter that is written
  fade,    \* the clock, the deadline of the next step, when each step was written
  touched, \* what the user has edited since the command began
  acts, faults
vars == <<cmd, tree, todo, answer, set, late, lane, counts, tracks, target, fade,
          touched, acts, faults>>

(*********************** the handlers **************************************)
Stmt(do, f, v, n) == [do |-> do, field |-> f, value |-> v, tries |-> n]
Write(f, v)  == Stmt("write", f, v, 0)  \* a property is set
Call(f, v)   == Stmt("call", f, v, 0)   \* a method of Live, done unless it raises
See(f, v, n) == Stmt("see", f, v, n)    \* n more writes if it does not show
Lane(do)     == Stmt(do, "lane", 0, 0)
Wait         == Lane("wait")

\* _verified_attribute_*_steps, and its likes in tracks.py and devices.py.
Verified(f, v, n) == <<Write(f, v), Wait, See(f, v, n - 1)>>

\* Mutant: the name is looked at, and refused, when it is its turn.
ClipPropertiesLateName(c) ==
  (IF c.start = -1 THEN <<>> ELSE Verified("loopStart", c.start, Retries))
    \o (IF c.name THEN <<Lane("refuse")>> ELSE <<>>)

\* The end is moved first if the new start is behind the old end.
ClipProperties(c) ==
  LET start == IF c.start = -1 THEN <<>> ELSE Verified("loopStart", c.start, Retries)
      end   == IF c.end = -1 THEN <<>> ELSE Verified("loopEnd", c.end, Retries)
      name  == IF c.name THEN Verified("clipName", Asked, Retries) ELSE <<>>
  IN (IF c.start # -1 /\ c.end # -1 /\ c.start >= set["loopEnd"] THEN end \o start ELSE start \o end)
       \o name

\* The name is written before what is to be written to `muted' has been looked at.
PlacedProperties(c) ==
  LET Both(name, muted) == (IF c.name THEN <<name>> ELSE <<>>) \o
                           (IF c.muted = "boolean" THEN <<muted>> ELSE <<>>)
  IN (IF c.name THEN <<Write("placedName", Asked)>> ELSE <<>>)
       \o (IF c.muted = "other" THEN <<Lane("refuse")>> ELSE <<>>)
       \o (IF c.muted = "boolean" THEN <<Write("placedMuted", Asked)>> ELSE <<>>)
       \o <<Wait>> \o Both(See("placedName", Asked, 0), See("placedMuted", Asked, 0))

\* The steps a curve comes to, each the k-th of an interval between two of its points: one
\* for each interval of a held curve, one for each unit of the resolution otherwise, and
\* the last point.  Points of the same time make none.
Expanded(times, hold) ==
  LET Span(i) == times[i + 1] - times[i] IN
  {<<Len(times), 1>>} \cup
    UNION {{<<i, k>> : k \in 1..(IF hold /\ Span(i) > 0 THEN 1 ELSE Span(i))} : i \in 1..(Len(times) - 1)}

\* How many points are written to an envelope.
PointsOf(c) ==
  IF c.op = "create_clip_automation_curve" THEN Cardinality(Expanded(c.times, c.hold)) ELSE Points

\* All of them are in the range of the parameter, which is looked at before the envelope
\* is cleared.
PointsValid(c) == PointsOf(c) <= StepLimit /\ c.inRange

\* The envelope is cleared, made if there is none, and filled point by point.
Automation(n) == <<Call("envelope", Cleared), Lane("obtain")>>
                   \o [i \in 1..n |-> Call("envelope", Cleared + i)] \o <<Wait, Lane("has_envelopes")>>

\* The preset an index or a name, but not both, means: one, or the command is refused.
PresetsMeant(c) ==
  IF (c.index = -1) = (c.name = "") THEN {}
  ELSE IF c.name = "" THEN {c.index + 1} \cap DOMAIN Presets
  ELSE Positions(Presets, c.name)
Preset(c) == CHOOSE i \in PresetsMeant(c) : TRUE

\* Every note of every repeat is made before the one call that adds them; a note that is
\* late in its cell is out of range when it is repeated.
PatternValid(c) ==
  /\ c.cell # <<>> /\ c.repeats <= RepeatLimit
  /\ \A i \in DOMAIN c.cell : c.cell[i] = "note" \/ (c.cell[i] = "late" /\ c.repeats = 1)

FadeValue(k) == IF k = FadeSteps THEN Asked ELSE Cleared + k
\* At most LIVE_FADE_MAX_DURATION, and above unity only if that is allowed.
FadeValid(c) == c.seconds \in 0..1 /\ (c.over => c.allow)

\* Three statements for each step: its deadline, the wait for it, the write.
Fade == [i \in 1..(3 * FadeSteps) |->
           CASE i % 3 = 1 -> Lane("step") [] i % 3 = 2 -> Lane("until")
             [] OTHER -> Write("volume", FadeValue(i \div 3))]

\* Mutant: a caller who insists has the Set not saved at all.
QuitForced(c) == <<Wait>> \o (IF c.save /\ c.api /\ ~c.force THEN <<Call("saved", Asked)>> ELSE <<>>)
                          \o (IF c.save /\ ~c.api /\ ~c.force THEN <<>> ELSE <<Call("quit", Asked)>>)

\* The dispatcher waits for a tick before it calls the handler.
Quit(c) == <<Wait>> \o (IF c.save /\ c.api THEN <<Call("saved", Asked)>> ELSE <<>>)
                    \o (IF c.save /\ ~c.api /\ ~c.force THEN <<>> ELSE <<Call("quit", Asked)>>)

\* A slot with a clip, or a scene, is launched; Live starts it at its own time.
FireClip(c)  == IF c.there THEN <<Call("clipFired", Asked)>> ELSE <<Lane("refuse")>>
FireScene(c) == IF c.there THEN <<Call("sceneFired", Asked)>> ELSE <<Lane("refuse")>>

SaveSet(c) == IF c.api THEN <<Call("saved", Asked)>> ELSE <<>>

\* A dry run of the tempo answers without a write.
SetTempo(c) == IF c.dry THEN <<>> ELSE Verified("tempo", Asked, Retries)

Handler(c) ==
  CASE c.op = "set_track_property"     -> Verified("mute", Asked, Retries)
    [] c.op = "set_track_color"        -> Verified("color", Asked, 1)
    [] c.op = "set_clip_color"         -> Verified("color", Asked, 1)
    [] c.op = "set_plugin_preset"      -> Verified("preset", Preset(c), 2)
    [] c.op = "set_parameter_value"    -> Verified("param", Asked, 2)
    [] c.op = "rename_track"           -> <<Write("trackName", Asked)>>
    [] c.op = "clear_clip_notes"       -> <<Call("notes", Asked), Wait>>
    [] c.op = "set_clip_properties"    -> ClipProperties(c)
    [] c.op = "set_arrangement_clip"   -> PlacedProperties(c)
    [] c.op \in EnvelopeOps            -> Automation(PointsOf(c))
    [] c.op = "live_fade"              -> IF c.seconds = 0 THEN <<Write("volume", Asked), Wait>> ELSE Fade
    [] c.op = "add_notes_pattern"      -> <<Call("notes", Asked)>>
    [] c.op = "fire_clip"              -> FireClip(c)
    [] c.op = "fire_scene"             -> FireScene(c)
    [] c.op = "set_tempo"              -> SetTempo(c)
    [] c.op \in DOMAIN Transport \ {"set_tempo"} -> Verified(Transport[c.op], Asked, Retries)
    [] c.op = "duplicate"              -> <<Lane("copy"), Lane("copied")>>
    [] c.op = "delete"                 -> <<Lane("remove"), Lane("removed")>>
    [] c.op = "move"                   -> <<Lane("copy"), Lane("copied"), Lane("remove"), Lane("removed")>>
    [] c.op = "hierarchy"              -> <<Lane("refuse")>>
    [] c.op \in {"search_browser", "diagnose_midi_clip"} -> <<>>  \* reads
    [] c.op \in Creating               -> <<Lane("create"), Lane("name")>>
    [] c.op = "save_set"               -> SaveSet(c)
    [] c.op = "quit_ableton"           -> Quit(c)

\* The parameter an address means, of the commands that have one.
TargetOf(c) == CASE c.op = "set_parameter_value"    -> ForValue(tree, c)
                 [] c.op \in EnvelopeOps            -> ForEnvelope(tree, c)
                 [] OTHER -> Nowhere

\* What is checked before anything is written, beyond the form of the parameters.
Valid(c) ==
  /\ c.op \in Addressed => TargetOf(c) # Nowhere /\ c.inRange
  /\ c.op \in EnvelopeOps => PointsValid(c)
  /\ c.op = "set_plugin_preset" => Cardinality(PresetsMeant(c)) = 1
  /\ c.op = "add_notes_pattern" => PatternValid(c)
  /\ c.op = "search_browser" => DepthIsValid(c)
  /\ c.op = "live_fade" => FadeValid(c)
  /\ c.op = "create_midi_track" => Len(tracks) < TrackLimit
  /\ c.op = "set_arrangement_clip" => c.name \/ c.muted # "none"
  /\ c.op = "set_clip_properties" =>
       /\ c.start # -1 \/ c.end # -1 \/ c.name
       /\ (IF c.start # -1 THEN c.start ELSE set["loopStart"])
            < (IF c.end # -1 THEN c.end ELSE set["loopEnd"])

Init ==
  /\ cmd \in Commands
  /\ tree \in IF cmd.op \in Addressed THEN Trees ELSE {<<>>}
  /\ todo = <<Lane("begin")>> /\ answer = "none"
  /\ set = [f \in Fields |-> CASE f = "loopStart" -> 1 [] f = "loopEnd" -> 2 [] OTHER -> Old]
  /\ late = {}
  /\ lane = {[id |-> Original, of |-> "mine"], [id |-> 2, of |-> "other"]}
  /\ counts = [before |-> 0, copied |-> 0]
  /\ tracks \in IF cmd.op \in Creating THEN {<<"a">>, <<"a", "b">>} ELSE {<<"a">>}
  /\ target = Nowhere
  /\ fade = [clock |-> 0, deadline |-> 0, written |-> <<>>]
  /\ touched = {} /\ acts = 0 /\ faults = 0

(*********************** steps *********************************************)
Doing(do) == answer = "none" /\ todo # <<>> /\ Head(todo).do = do
This == Head(todo)
Proceed == todo' = Tail(todo) /\ UNCHANGED answer
Answered(a) == answer' = a /\ todo' = <<>>
Where == <<cmd, tree, target>>
Set  == <<set, late, lane, tracks>>
Memo == <<counts, fade>>
User == <<touched, acts>>

\* What `arrangement_clips' lists now.
Listed == Cardinality(lane) - (IF <<"copy", 0>> \in late THEN 1 ELSE 0)
                            + (IF <<"remove", 0>> \in late THEN 1 ELSE 0)

\* The parameters are parsed and looked up; any of that may refuse the command.
Begin ==
  /\ Doing("begin")
  /\ \/ Answered("refused") /\ UNCHANGED <<counts, target>>
     \/ /\ Valid(cmd)
        /\ todo' = Handler(cmd) /\ target' = TargetOf(cmd)
        /\ counts' = [counts EXCEPT !.before = IF cmd.op \in Creating THEN Len(tracks) ELSE Listed]
        /\ UNCHANGED answer
  /\ UNCHANGED <<cmd, tree, Set, fade, User, faults>>

\* CAPABILITY_UNAVAILABLE of the hierarchy commands; INVALID_PARAMS of `muted'.
RefuseNow ==
  /\ Doing("refuse") /\ Answered("refused")
  /\ UNCHANGED <<Where, Set, Memo, User, faults>>

\* Live keeps a loop a loop.
Fits(f, v) == /\ f = "loopStart" => v < set["loopEnd"]
              /\ f = "loopEnd" => v > set["loopStart"]

WriteProperty ==
  /\ Doing("write")
  /\ IF ~Fits(This.field, This.value) THEN Answered("rejected") /\ UNCHANGED <<set, late>>
     ELSE /\ Proceed
          /\ \/ set' = [set EXCEPT ![This.field] = This.value] /\ UNCHANGED late
             \/ late' = late \cup {<<This.field, This.value>>} /\ UNCHANGED set
             \/ UNCHANGED <<set, late>>
  /\ fade' = IF This.field = "volume" THEN [fade EXCEPT !.written = Append(@, fade.clock)] ELSE fade
  /\ UNCHANGED <<Where, lane, tracks, counts, User, faults>>

CallMethod ==
  /\ Doing("call") /\ Proceed
  /\ set' = [set EXCEPT ![This.field] = This.value]
  /\ UNCHANGED <<Where, late, lane, tracks, Memo, User, faults>>

\* The envelope is got or made; the host may give none.
Obtain ==
  /\ Doing("obtain") /\ (Proceed \/ Answered("failed"))
  /\ UNCHANGED <<Where, Set, Memo, User, faults>>

HasEnvelopes ==
  /\ Doing("has_envelopes")
  /\ IF set["envelope"] # Users THEN Proceed ELSE Answered("failed")
  /\ UNCHANGED <<Where, Set, Memo, User, faults>>

\* Mutant: the last write is not read back.
ReadBackTrusts ==
  /\ Doing("see")
  /\ IF set[This.field] = This.value \/ This.tries = 0 THEN Proceed
     ELSE todo' = Verified(This.field, This.value, This.tries) \o Tail(todo) /\ UNCHANGED answer
  /\ UNCHANGED <<Where, Set, Memo, User, faults>>

\* Mutant: the writes are not counted.
ReadBackForever ==
  /\ Doing("see")
  /\ IF set[This.field] = This.value THEN Proceed
     ELSE /\ todo' = Verified(This.field, This.value, This.tries + 1) \o Tail(todo)
          /\ UNCHANGED answer
  /\ UNCHANGED <<Where, Set, Memo, User, faults>>

ReadBack ==
  /\ Doing("see")
  /\ IF set[This.field] = This.value THEN Proceed
     ELSE IF This.tries > 0
       THEN todo' = Verified(This.field, This.value, This.tries) \o Tail(todo) /\ UNCHANGED answer
     ELSE Answered("failed")
  /\ UNCHANGED <<Where, Set, Memo, User, faults>>

Copy(of) == [id |-> 3, of |-> of]

CopyClip ==
  /\ Doing("copy") /\ Proceed
  /\ LET copy == Copy(IF cmd.op = "move" THEN "mine" ELSE "source") IN
     \/ lane' = lane \cup {copy} /\ UNCHANGED late
     \/ lane' = lane \cup {copy} /\ late' = late \cup {<<"copy", 0>>}
     \/ UNCHANGED <<lane, late>>
  /\ UNCHANGED <<Where, set, tracks, Memo, User, faults>>

\* Mutant: the copy is taken for done after a tick.
CopiedTrusts ==
  /\ Doing("copied")
  /\ IF Listed > counts.before \/ This.tries = 1
       THEN Proceed /\ counts' = [counts EXCEPT !.copied = Listed]
     ELSE /\ todo' = <<Wait, [This EXCEPT !.tries = 1]>> \o Tail(todo)
          /\ UNCHANGED <<answer, counts>>
  /\ UNCHANGED <<Where, Set, fade, User, faults>>

\* Read in the tick of the copy, and once more in the next if the lane has not grown.
Copied ==
  /\ Doing("copied")
  /\ IF Listed > counts.before
       THEN Proceed /\ counts' = [counts EXCEPT !.copied = Listed]
     ELSE IF This.tries = 0
       THEN /\ todo' = <<Wait, [This EXCEPT !.tries = 1]>> \o Tail(todo)
            /\ UNCHANGED <<answer, counts>>
     ELSE Answered("failed") /\ UNCHANGED counts
  /\ UNCHANGED <<Where, Set, fade, User, faults>>

RemoveClip ==
  /\ Doing("remove")
  /\ IF \A c \in lane : c.id # Original  \* the user has deleted it
       THEN Answered("raised") /\ UNCHANGED <<lane, late>>
     ELSE /\ Proceed
          /\ \/ lane' = {c \in lane : c.id # Original} /\ UNCHANGED late
             \/ lane' = {c \in lane : c.id # Original} /\ late' = late \cup {<<"remove", 0>>}
             \/ UNCHANGED <<lane, late>>
  /\ UNCHANGED <<Where, set, tracks, Memo, User, faults>>

Removed ==
  /\ Doing("removed")
  /\ IF Listed < (IF cmd.op = "move" THEN counts.copied ELSE counts.before) \/ This.tries = 1
       THEN IF IF cmd.op = "move" THEN Listed = counts.before ELSE Listed < counts.before
              THEN Proceed ELSE Answered("failed")
     ELSE todo' = <<Wait, [This EXCEPT !.tries = 1]>> \o Tail(todo) /\ UNCHANGED answer
  /\ UNCHANGED <<Where, Set, Memo, User, faults>>

\* Live takes no index behind the last track; -1 appends.
CreateTrack ==
  /\ Doing("create")
  /\ IF cmd.index > Len(tracks) THEN Answered("raised") /\ UNCHANGED tracks
     ELSE /\ Proceed
          /\ tracks' = InsertAt(tracks, IF cmd.index = -1 THEN Len(tracks) + 1 ELSE cmd.index + 1, "new")
  /\ UNCHANGED <<Where, set, late, lane, Memo, User, faults>>

NameTrack ==
  /\ Doing("name")
  /\ IF cmd.op = "create_audio_track" /\ Len(tracks) # counts.before + 1
       THEN Answered("failed") /\ UNCHANGED tracks
     ELSE /\ Proceed
          /\ tracks' = [tracks EXCEPT ![IF cmd.index = -1 THEN Len(tracks) ELSE cmd.index + 1] = "named"]
  /\ UNCHANGED <<Where, set, late, lane, Memo, User, faults>>

\* The deadline of a step of the fade counts from the write before it.
FadeStep ==
  /\ Doing("step") /\ Proceed
  /\ fade' = [fade EXCEPT !.deadline = fade.clock + Interval]
  /\ UNCHANGED <<Where, Set, counts, User, faults>>

\* Mutant: a tick is taken for the interval.
FadeUntilTick ==
  /\ Doing("until")
  /\ IF fade.clock < fade.deadline
       THEN todo' = <<Wait>> \o Tail(todo) /\ UNCHANGED answer
       ELSE Proceed
  /\ UNCHANGED <<Where, Set, Memo, User, faults>>

FadeUntil ==
  /\ Doing("until")
  /\ IF fade.clock < fade.deadline
       THEN todo' = <<Wait>> \o todo /\ UNCHANGED answer
       ELSE Proceed
  /\ UNCHANGED <<Where, Set, Memo, User, faults>>

Reply ==
  /\ answer = "none" /\ todo = <<>> /\ answer' = "ok"
  /\ UNCHANGED <<Where, todo, Set, Memo, User, faults>>

\* A call raises, and has done nothing.
Raises ==
  /\ \E do \in {"write", "call", "copy", "remove", "create", "name"} : Doing(do)
  /\ faults < MaxFaults /\ faults' = faults + 1
  /\ Answered("raised")
  /\ UNCHANGED <<Where, Set, Memo, User>>

\* Live goes on to the next tick.
TickPasses ==
  /\ Doing("wait") /\ Proceed
  /\ LET Shown(f) == {w[2] : w \in {l \in late : l[1] = f /\ Fits(f, l[2])}} IN
     set' = [f \in Fields |-> IF Shown(f) = {} THEN set[f] ELSE CHOOSE v \in Shown(f) : TRUE]
  /\ late' = {}
  /\ fade' = IF cmd.op = "live_fade" /\ cmd.seconds > 0 THEN [fade EXCEPT !.clock = @ + TickTime] ELSE fade
  /\ UNCHANGED <<Where, lane, tracks, counts, User, faults>>

\* Live quits some ticks after it was asked to.
Quits ==
  /\ answer # "none" /\ set["quit"] = Asked /\ set' = [set EXCEPT !["quit"] = Users]
  /\ UNCHANGED <<Where, todo, answer, late, lane, tracks, Memo, User, faults>>

\* Only what the command writes is worth an edit of the user's.
Concerned == {todo[i].field : i \in DOMAIN todo} \cap (Fields \ {"saved", "quit"})
UserEdits ==
  /\ Doing("wait") /\ acts < MaxActs /\ acts' = acts + 1
  /\ \/ \E f \in Concerned \ {"loopStart", "loopEnd"} :
          set' = [set EXCEPT ![f] = Users] /\ touched' = touched \cup {f} /\ UNCHANGED lane
     \/ /\ Concerned \cap {"loopStart", "loopEnd"} # {}
        /\ \E s, e \in Beats : s < e /\ set' = [set EXCEPT !["loopStart"] = s, !["loopEnd"] = e]
        /\ touched' = touched \cup {"loopStart", "loopEnd"} /\ UNCHANGED lane
     \/ /\ cmd.op \in {"duplicate", "delete", "move"} /\ UNCHANGED set
        /\ \/ lane' = lane \cup {[id |-> 4 + acts, of |-> "users"]} /\ touched' = touched \cup {"added"}
           \/ \E c \in lane : (c.id = 3 => late = {}) /\ lane' = lane \ {c} /\ touched' = touched \cup {"deleted"}
  /\ UNCHANGED <<Where, todo, answer, late, tracks, Memo, faults>>

Step == \/ Begin \/ RefuseNow \/ WriteProperty \/ CallMethod \/ Obtain \/ HasEnvelopes \/ ReadBack
        \/ CopyClip \/ Copied \/ RemoveClip \/ Removed \/ CreateTrack \/ NameTrack
        \/ FadeStep \/ FadeUntil \/ Reply \/ TickPasses
Next == Step \/ Raises \/ UserEdits \/ Quits

\* Live goes on ticking, and a handler runs until it waits for a tick.
Spec == Init /\ [][Next]_vars /\ WF_vars(Step)

(*********************** properties ****************************************)
Answers == {"none", "ok", "refused", "failed", "rejected", "raised"}

\* Every variable stays in its range; the loop of the clip stays a loop, the lane keeps
\* the other clip unless the user deletes it, and the answer ends the handler.
TypeOK ==
  /\ answer \in Answers /\ (answer # "none" => todo = <<>>)
  /\ set \in [Fields -> Nat] /\ set["loopStart"] < set["loopEnd"]
  /\ lane \subseteq [id : Nat, of : {"mine", "other", "source", "users"}]
  /\ counts \in [before : Nat, copied : Nat]
  /\ tracks \in Seq({"a", "b", "new", "named"})
  /\ fade \in [clock : Nat, deadline : Nat, written : Seq(Nat)]
  /\ touched \subseteq Fields \cup {"added", "deleted"}
  /\ "deleted" \notin touched => [id |-> 2, of |-> "other"] \in lane

\* What a command that reads back has asked for.
Wanted ==
  CASE cmd.op = "set_track_property"  -> {<<"mute", Asked>>}
    [] cmd.op \in {"set_track_color", "set_clip_color"} -> {<<"color", Asked>>}
    [] cmd.op = "set_plugin_preset"   ->
         {<<"preset", i>> : i \in {j \in DOMAIN Presets : j = cmd.index + 1 \/ Presets[j] = cmd.name}}
    [] cmd.op = "set_parameter_value" -> {<<"param", Asked>>}
    [] cmd.op = "create_clip_automation" -> {<<"envelope", Cleared + Points>>}
    [] cmd.op = "create_clip_automation_curve" ->  \* a point at each time of the curve
         {<<"envelope", Cleared + Cardinality(IF cmd.hold THEN ToSet(cmd.times)
                                              ELSE cmd.times[1]..Last(cmd.times))>>}
    [] cmd.op = "add_notes_pattern" -> {<<"notes", Asked>>}
    [] cmd.op = "set_tempo" -> IF cmd.dry THEN {} ELSE {<<"tempo", Asked>>}
    [] cmd.op \in DOMAIN Transport \ {"set_tempo"} -> {<<Transport[cmd.op], Asked>>}
    [] cmd.op = "set_arrangement_clip" ->
         (IF cmd.name THEN {<<"placedName", Asked>>} ELSE {})
           \cup (IF cmd.muted = "boolean" THEN {<<"placedMuted", Asked>>} ELSE {})
    [] cmd.op = "set_clip_properties" ->
         {w \in {<<"loopStart", cmd.start>>, <<"loopEnd", cmd.end>>} : w[2] # -1}
           \cup (IF cmd.name THEN {<<"clipName", Asked>>} ELSE {})
    [] OTHER -> {}

\* A success that was read back is one: all that was asked for is in the Set, unless the
\* user has edited it since, although Live may ignore or delay any write
\* (tracks.py _verified_colour_write_steps, transport.py, devices.py).
OkTellsTheSet ==
  answer = "ok" => \A w \in Wanted : set[w[1]] = w[2] \/ w[1] \in touched

\* A refusal of the parameters has changed nothing.  set_arrangement_clip_properties is
\* left out: it looks at `muted' after it has written the name (arrangement.py:277-283).
RefusedChangesNothing ==
  answer = "refused" /\ cmd.op # "set_arrangement_clip" =>
    /\ \A f \in Fields \ touched : set[f] = CASE f = "loopStart" -> 1 [] f = "loopEnd" -> 2 [] OTHER -> Old
    /\ late = {} /\ "new" \notin ToSet(tracks) /\ "named" \notin ToSet(tracks)
    /\ Cardinality(lane) = 2

\* A move, a copy and a deletion, loses no clip and leaves none twice if it succeeds,
\* unless the user edits the lane meanwhile (arrangement.py:217-271).
MoveKeepsClip ==
  cmd.op = "move" /\ touched = {} =>
    /\ \E c \in lane : c.of = "mine"
    /\ answer = "ok" => /\ \E c \in lane : c.of = "mine" /\ c.id # Original
                        /\ Cardinality({c \in lane : c.of = "mine"}) = 1

\* No step of a fade is early (lifecycle.py:217-230), and they go from the first to the last.
FadeKeepsPace ==
  cmd.op = "live_fade" /\ cmd.seconds > 0 =>
    /\ \A k \in DOMAIN fade.written : fade.written[k] >= k * Interval
    /\ answer = "ok" => Len(fade.written) = FadeSteps

\* Live quits only a Set that was saved, unless it was not to be, or could not be and
\* the caller insisted (lifecycle.py:84-99).
QuitsSaved ==
  set["quit"] # Old /\ cmd.save => set["saved"] = Asked \/ (cmd.force /\ ~cmd.api)

\* All parameters of the track, with their names.
Parameter(name, place) == [name |-> name, place |-> place]
AllParameters ==
  {Parameter(Mixer[i], Place(None, None, None, i)) : i \in DOMAIN Mixer} \cup
  UNION {{Parameter(tree[d].params[i], Place(d, None, None, i)) : i \in DOMAIN tree[d].params}
           \cup UNION {{Parameter(Mixer[i], Place(d, c, None, i)) : i \in DOMAIN Mixer}
             \cup UNION {{Parameter(tree[d].chains[c].inner[n][i], Place(d, c, n, i)) :
                            i \in DOMAIN tree[d].chains[c].inner[n]} : n \in DOMAIN tree[d].chains[c].inner} :
             c \in DOMAIN tree[d].chains} : d \in DOMAIN tree}
\* Those an address may mean: at its device and chain, or anywhere on the track if it
\* names no device (docs/TOOL_REFERENCE.md, "Chain addressing", "Parameter addressing").
Meant == {p \in AllParameters :
            /\ p.name = cmd.name
            /\ cmd.dev # None => p.place.dev = cmd.dev
            /\ p.place.chain = cmd.chain
            /\ cmd.chain # None => p.place.inner = cmd.inner}

\* Both resolvers find one that is meant, and the envelope commands the only one, unless
\* the name is one of the mixer's (devices.py:243-285, automation.py:332-352).
WritesTheMeant ==
  target # Nowhere /\ (cmd.op \in EnvelopeOps => cmd.name # "volume") =>
    /\ \E p \in Meant : p.place = target
    /\ cmd.op \in EnvelopeOps /\ cmd.chain = None => Cardinality(Meant) = 1

\* What the two reads that compute say is all there is to say (see Reads).
ReadsTellAll ==
  /\ cmd.op = "search_browser" /\ answer = "ok" => SearchComplete(Selected(cmd), LimitOf(cmd), cmd.depth)
  /\ cmd.op = "diagnose_midi_clip" => OverlapsSeen(cmd.notes)

=============================================================================
