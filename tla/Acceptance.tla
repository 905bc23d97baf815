------------------------------ MODULE Acceptance ------------------------------
(***************************************************************************)
(* The acceptance runner (acceptance/runner.py): it reads what can be      *)
(* read, tries every mutation on an open, disposable Set, reads each one   *)
(* back, restores the Set from a baseline, and certifies a release only if *)
(* each tool has a row and no row speaks against it.                       *)
(*                                                                         *)
(* A probe is a sequence of calls; the first that fails, or is answered    *)
(* otherwise than expected, fails the row of its tool and ends the probe.  *)
(* A call that raises has had no effect, or has been done with its answer  *)
(* lost.  It is done before the next call in any case: Live serves the     *)
(* requests of the bridge in order (Bridge).                               *)
(***************************************************************************)
EXTENDS Integers, Sequences, FiniteSets

CONSTANTS
  Selections,  \* of each run: the groups of probes that it selects, or all of them, and
               \* the fixtures that its environment lacks
  MaxFaults    \* bound: calls that fail, one before the mutations counting for two

Groups == {"offline", "composed", "tcp_reads", "websocket_reads", "capability", "mutations", "quit"}
Profiles == Groups \cup {"baseline"}
Live == {"tcp_reads", "websocket_reads", "capability", "mutations"}
\* What a Set need not hold and a host need not have.  "parameter" is a device
\* parameter, "occupied" a clip, "saveApi" a Live that can be told to save.
Fixtures == {"node", "plugin", "parameter", "rack", "occupied", "saveApi"}
ASSUME SelectionsTyped == Selections \subseteq (SUBSET Profiles) \X (SUBSET Fixtures)

\* What the run changes.  "old" is the baseline: of cues, clips, tracks and
\* devices that the run makes, their absence.  Notes, name and colour of the
\* run's own clip go with it.
Fields == {"cue", "bulk", "tempo", "time", "loop", "loopStart", "loopLength", "clip",
           "playing", "mute", "color", "name", "placed", "moved", "param", "volume",
           "warp", "audioTrack", "midiTrack", "device"}
Structural == {"audioTrack", "midiTrack", "device"}

(*********************** calls and probes **********************************)
Call(op, field, value) == [op |-> op, field |-> field, value |-> value]
Write(f, v)   == Call("write", f, v)
Create(f)     == Call("create", f, "new")   \* refused if there is one
Delete(f)     == Call("remove", f, "old")   \* refused if there is none
Expect(f, v)  == Call("expect", f, v)       \* a readback
Read(f)       == Call("read", f, "old")
Batch         == Call("batch", "clip", "new")
Refused       == Call("refused", "tempo", "old")   \* what Live's API cannot do
Owe(f)        == Call("owe", f, "old")      \* no call: remembered, if it is there
Settle(f)     == Call("settle", f, "old")   \* no call: forgotten again

\* needs: what must have passed or be remembered.  An unmet need fails the row, or
\* blames the environment if it is a fixture.
Probe(tool, needs, calls) ==
  [tool |-> tool, needs |-> needs, calls |-> calls, onFail |-> "next", group |-> "mutations"]
In(group, probes) == [i \in DOMAIN probes |-> [probes[i] EXCEPT !.group = group]]
\* A row for each tool, by one call that changes nothing.
Reading(tools) == [i \in DOMAIN tools |-> Probe(tools[i], "none", <<Read("tempo")>>)]
Tried(tool, f) == Probe(tool, "none", <<Write(f, "new"), Expect(f, "new")>>)
\* Calls outside of any probe whose failure is swallowed.
Silent(calls) == Probe("none", "none", calls)
\* Calls whose failure refuses the run, or ends the probes.
Vital(onFail, calls) == [Silent(calls) EXCEPT !.onFail = onFail]

\* What needs no Live: the four groove tools fail together without their seed, and
\* what was scaffolded is built if there is a node.
GrooveTools == <<"groove_search", "groove_evidence", "groove_generate", "groove_compare">>
Offline == In("offline",
  Reading(<<"analyze_audio", "find_frequency_masking", "analyze_mix", "extract_single_cycle">>)
  \o Reading(<<"music_generate_drum_groove", "music_generate_bass", "music_plan_production", "plan_user_journey">>)
  \o <<Silent(<<Read("tempo"), Owe("seed")>>)>>
  \o [i \in DOMAIN GrooveTools |-> Probe(GrooveTools[i], "seed", <<Read("tempo")>>)])
OfflineTools == In("offline",
  Reading(<<"groove_apply", "get_ableton_logs", "diff_snapshots_tool", "scaffold_extension">>)
  \o <<Silent(<<Owe("node")>>), Probe("build_extension", "node", <<Expect("name", "old")>>)>>)
Composed == In("composed", Reading(<<"get_bridge_status", "get_session_overview">>))

\* The project's name, an empty undo history and the whole baseline are read before
\* anything else; then it is looked for a clip, a rack and a parameter to try.
Confirmed == Vital("refuse", <<Expect("name", "old")>>)
Baseline == Vital("refuse", <<Read("tempo"), Read("loop")>>)
Preflight == In("live", <<Confirmed, Baseline>>)
Discovery == In("live",
  <<Silent(<<Read("clip"), Owe("occupied"), Read("device"), Owe("rack")>>),
    Silent(<<Read("param"), Owe("parameter")>>)>>)

\* A tool that Live's API cannot provide passes by its refusal.
HierarchyTools == <<"move_track", "reorder_tracks", "move_track_to_group", "ungroup_track", "merge_groups">>
Capability == In("capability",
  <<Vital("refuse", <<Read("name")>>)>>
  \o [i \in DOMAIN HierarchyTools |-> Probe(HierarchyTools[i], "none", <<Refused>>)])

\* The categories, the track to find and the id of a track are read between two rows.
SessionReads == In("tcp_reads",
  Reading(<<"get_project_metadata", "get_session_info", "get_track_list", "diagnose_clip_targets",
            "get_arrangement_clips">>)
  \o <<Probe("get_device_chains", "rack", <<Read("device")>>)>>
  \o Reading(<<"get_midi_chain_report", "describe_instrument">>)
  \o <<Probe("get_clip_automation", "occupied", <<Read("clip")>>)>>)
StateReads == In("tcp_reads",
  Reading(<<"get_track_state", "get_locators", "take_snapshot", "get_control_surfaces", "get_scenes",
            "get_scene_state", "get_loop_settings", "get_selected_context", "get_clip_summary",
            "get_clip_notes", "get_clip_info", "get_device_list">>)
  \o <<Probe("get_parameter_value", "parameter", <<Read("param")>>)>>
  \o Reading(<<"get_routing", "get_browser_categories">>))
FindReads == In("tcp_reads",
  <<Vital("refuse", <<Read("device")>>)>> \o Reading(<<"search_browser", "get_song_length">>)
  \o <<Vital("refuse", <<Read("name")>>)>> \o Reading(<<"live_find_track", "live_find_device", "live_find_clip">>)
  \o <<Vital("refuse", <<Read("name")>>)>>
  \o Reading(<<"list_device_params", "get_composition_structure", "diagnose_midi_clip", "lifecycle_status">>)
  \o <<Silent(<<Read("device"), Owe("plugin")>>), Probe("get_plugin_presets", "plugin", <<Read("device")>>)>>)

\* The name has been read in any case.
Unread == In("unread", <<Probe("get_project_metadata", "none", <<>>)>>)
WebsocketReads == In("websocket_reads", Reading(<<"get_warp_state">>))
\* Never called: it would end Live.
QuitRow == Probe("quit_ableton", "none", <<>>)

Reads == Offline \o OfflineTools \o Composed \o Preflight \o Discovery \o Capability
           \o SessionReads \o StateReads \o FindReads \o Unread \o WebsocketReads
           \o In("quitNamed", <<QuitRow>>)

\* The slot for the clip has to be empty.
BeforeMutations == <<Vital("refuse", <<Expect("clip", "old")>>), Silent(<<Read("warp"), Owe("warp")>>)>>
SaveSet == <<Probe("save_set", "none", <<Read("name"), Read("name")>>)>>

Cues == <<Probe("create_cue_point", "none", <<Write("cue", "new"), Expect("cue", "new"), Owe("cue")>>),
          Tried("bulk_create_cue_points", "bulk"),
          Probe("delete_cue_point", "none", <<Delete("cue"), Expect("cue", "old"), Delete("bulk")>>),
          Silent(<<Settle("cue")>>)>>

Transport == <<Tried("set_tempo", "tempo"), Tried("set_current_song_time", "time"),
               Tried("set_loop_start", "loopStart"), Tried("set_loop_length", "loopLength"),
               Tried("set_loop", "loop")>>

CreateClip == Probe("create_clip", "none", <<Create("clip"), Expect("clip", "new")>>)
\* clip_contents stands for the probes that change the run's own clip only:
\* add_notes_to_clip, clear_clip_notes, set_clip_properties, set_clip_color,
\* create_clip_automation, add_notes_pattern and create_clip_automation_curve.
ClipContents == Probe("clip_contents", "create_clip", <<Expect("clip", "new")>>)

\* Playing is tried in three ways; the batch is one whose third command, another
\* clip in the same slot, has to be refused.
Playback == <<Tried("start_playback", "playing"),
              Probe("stop_playback", "none", <<Write("playing", "old"), Expect("playing", "old")>>),
              Probe("run_batch", "none", <<Batch>>),
              Probe("fire_clip", "create_clip", <<Write("playing", "new"), Expect("playing", "new")>>),
              [Silent(<<Write("playing", "old")>>) EXCEPT !.needs = "create_clip"],
              Tried("fire_scene", "playing"),
              Silent(<<Write("playing", "old")>>)>>

\* Each is put back at once, unverified.
Tracks == <<Tried("set_track_property", "mute"), Silent(<<Write("mute", "old")>>),
            Tried("set_track_color", "color"), Silent(<<Write("color", "old")>>),
            Tried("rename_track", "name"), Silent(<<Write("name", "old")>>)>>

\* A clip is placed far behind the end of the Set, moved, which is a copy and a
\* deletion, and deleted.
Arrangement ==
  <<Probe("duplicate_session_clip_to_arrangement", "create_clip",
          <<Write("placed", "new"), Expect("placed", "new")>>),
    Probe("set_arrangement_clip_properties", "create_clip", <<Expect("placed", "new"), Read("placed")>>),
    Probe("move_arrangement_clip", "create_clip",
          <<Expect("placed", "new"), Write("moved", "new"), Delete("placed"),
            Expect("placed", "old"), Expect("moved", "new")>>),
    Probe("delete_arrangement_clip", "create_clip",
          <<Expect("moved", "new"), Delete("moved"), Expect("moved", "old")>>)>>
DeleteClip == Probe("delete_clip", "create_clip", <<Delete("clip"), Expect("clip", "old")>>)

\* What is there is read and remembered first.
SetParameter == Probe("set_parameter_value", "parameter",
  <<Read("param"), Owe("param"), Write("param", "new"), Expect("param", "new")>>)
\* The list of the presets of a plug-in is read outside of any probe: a failure ends
\* the probes.  The preset that is there is selected again.
PluginPresets ==
  <<Silent(<<Read("device"), Owe("plugin")>>), [Vital("abort", <<Read("param")>>) EXCEPT !.needs = "plugin"],
    Probe("set_plugin_preset", "plugin", <<Read("param")>>)>>
LiveFade == Probe("live_fade", "none",
  <<Read("volume"), Owe("volume"), Write("volume", "other"), Expect("volume", "other"),
    Write("volume", "new"), Expect("volume", "new")>>)
SetWarp == Probe("set_warp_state", "warp", <<Write("warp", "new"), Expect("warp", "new")>>)

Probes == BeforeMutations \o SaveSet \o Cues \o Transport \o <<CreateClip, ClipContents>> \o Playback
            \o Tracks \o Arrangement \o <<DeleteClip, SetParameter>> \o PluginPresets
            \o <<LiveFade, SetWarp>> \o In("quitUnnamed", <<QuitRow>>)

(*********************** the cleanup ***************************************)
Restored(tool, f) == Probe(tool, "none", <<Write(f, "old"), Expect(f, "old")>>)
\* Only what is remembered.
Remembered(tool, f) == [Restored(tool, f) EXCEPT !.needs = f]

RestoreTransport == <<Restored("stop_playback", "playing"), Restored("set_loop", "loop"),
                      Restored("set_loop_start", "loopStart"), Restored("set_loop_length", "loopLength"),
                      Restored("set_tempo", "tempo"), Restored("set_current_song_time", "time"),
                      Remembered("delete_cue_point", "cue"), Remembered("set_warp_state", "warp")>>
\* The baseline has the colour of every track; a track without one would be left alone.
RestoreTracks == <<Restored("set_track_property", "mute"), Restored("set_track_color", "color")>>
RestoreDevices == <<Remembered("live_fade", "volume"), Remembered("set_parameter_value", "param")>>

Restores == RestoreTransport \o RestoreTracks \o RestoreDevices

LoadDevice == Probe("load_device_to_track", "create_midi_track",
                    <<Write("device", "new"), Expect("device", "new")>>)
\* Two tracks are added and devices are loaded, and stay.
Additions ==
  <<Tried("create_audio_track", "audioTrack"), Tried("create_midi_track", "midiTrack"), LoadDevice>>

Programme(p) ==
  CASE p = "reads" -> Reads [] p = "probes" -> Probes [] p = "cleanup" -> Restores [] OTHER -> Additions
ToolsOf(probes, group) == {probes[i].tool : i \in {j \in DOMAIN probes : probes[j].group = group}} \ {"none"}
Structurals == ToolsOf(Additions, "mutations")
\* BASELINE_PROBE_GROUPS
Rows(group) == CASE group = "mutations" -> ToolsOf(Probes, group) \cup Structurals
                 [] group = "quit" -> {"quit_ableton"} [] OTHER -> ToolsOf(Reads, group)
Tools == UNION {Rows(g) : g \in Groups}
\* Whose fixture an environment need not have.
Optional == {"build_extension", "get_plugin_presets", "set_plugin_preset"}

VARIABLES
  set,       \* the Set
  profiles,  \* what the run is asked for: groups, or all of them as "baseline"
  lacks,     \* the fixtures that are not there
  phase,     \* reads, probes, cleanup, additions, report; done, refused or unreported
  turn,      \* which probe of the phase
  step,      \* which call of the probe
  row,       \* the status of each tool
  owed,      \* what is remembered: fixtures, and what the cleanup is to restore
  broken,    \* tools whose restoration failed
  aborted,   \* an exception between two probes has ended the reads or the probes
  faults     \* calls that have failed
acceptanceVars == <<set, profiles, lacks, phase, turn, step, row, owed, broken, aborted, faults>>

AcceptanceInit ==
  /\ set = [f \in Fields |-> "old"]
  /\ \E s \in Selections : profiles = s[1] /\ lacks = s[2]
  /\ phase = "reads" /\ turn = 1 /\ step = 1
  /\ row = [t \in Tools |-> "none"] /\ owed = {} /\ broken = {}
  /\ aborted = FALSE /\ faults = 0
------------------------------------------------------------------------------
Current == Programme(phase)[turn]
Running == phase \in {"reads", "probes", "cleanup", "additions"} /\ turn <= Len(Programme(phase))
Passed == {t \in Tools : row[t] = "passed"}
Met(p) == p.needs = "none" \/ p.needs \in owed \cup Passed

\* The groups that are selected.
expanded == IF "baseline" \in profiles THEN Groups ELSE profiles
\* "baseline" selects all groups without naming one.
QuitNamed == "quit" \in profiles
Selected(group) ==
  CASE group \in Groups -> group \in expanded
    [] group = "live" -> expanded \cap Live # {}
    [] group = "unread" -> expanded \cap Live # {} /\ "tcp_reads" \notin expanded
    [] group = "quitNamed" -> QuitNamed /\ "mutations" \notin expanded
    [] OTHER -> ~QuitNamed

\* What a call does to the Set.
Effect(c, s) ==
  LET t == IF c.op = "batch" THEN [s EXCEPT !.tempo = "other", !.loop = "new", !.clip = "new"]
           ELSE IF c.op \in {"write", "create", "remove"} THEN [s EXCEPT ![c.field] = c.value]
           ELSE s
  IN IF t.playing = "new" THEN [t EXCEPT !.time = "other"] ELSE t

\* Whether its answer is the expected one; a refused call has no effect.
Answered(c) ==
  \/ c.op \notin {"create", "remove", "expect", "batch"}
  \/ c.op = "create" /\ set[c.field] = "old"
  \/ c.op \in {"remove", "batch"} /\ set[c.field] # "old"
  \/ c.op = "expect" /\ set[c.field] = c.value

Done(c) == IF Answered(c) \/ c.op = "batch" THEN Effect(c, set) ELSE set

\* What a row without an exception is recorded as.
Success(tool) ==
  IF tool = "quit_ableton" \/ (tool = "save_set" /\ "saveApi" \in lacks) THEN "manual" ELSE "passed"
Records(p, status) ==
  IF p.tool = "none" \/ phase = "cleanup" THEN row ELSE [row EXCEPT ![p.tool] = status]
\* The rows of tools that have none fail.
Failing(tools) == [t \in Tools |-> IF row[t] = "none" /\ t \in tools THEN "failed" ELSE row[t]]
\* What an exception outside of any probe leaves, before the probes: rows of reads that
\* were not reached are not recorded.
Outer ==
  [Failing(Rows("mutations") \cup Rows("websocket_reads")) EXCEPT
     !["quit_ableton"] = IF @ = "none" /\ ~QuitNamed THEN "manual" ELSE @]

Goes(p, status) == turn' = turn + 1 /\ row' = Records(p, status) /\ UNCHANGED <<phase, aborted>>
\* Mutant: the rows that an abort leaves without a record stay so.
StopsUnmarked(p, how) ==
  /\ turn' = 1 /\ aborted' = TRUE /\ UNCHANGED row
  /\ phase' = IF p.onFail = "abort" THEN "cleanup" ELSE IF how = "failed" THEN "refused" ELSE "report"
\* An exception between two probes: an unsafe Set refuses the run.
Stops(p, how) ==
  /\ turn' = 1 /\ aborted' = TRUE
  /\ phase' = IF p.onFail = "abort" THEN "cleanup" ELSE IF how = "failed" THEN "refused" ELSE "report"
  /\ row' = IF p.onFail = "abort" THEN Failing(Rows("mutations")) ELSE Outer

\* The row of a probe is recorded; a failed restoration is noted.
Ends(p, how) ==
  /\ step' = 1
  /\ broken' = IF phase = "cleanup" /\ how # "passed" THEN broken \cup {p.tool} ELSE broken
  /\ IF how = "passed" THEN Goes(p, Success(p.tool))
     ELSE IF p.onFail = "next" THEN Goes(p, IF how = "host" THEN "host" ELSE "failed")
     ELSE Stops(p, how)

\* A call is made and answered.
Do ==
  /\ Running /\ Selected(Current.group) /\ Met(Current) /\ step <= Len(Current.calls)
  /\ LET c == Current.calls[step] IN
     /\ set' = Done(c)
     /\ owed' = IF c.op = "owe" THEN owed \cup ({c.field} \ lacks)
                ELSE owed \ (IF c.op = "settle" THEN {c.field} ELSE {})
     /\ IF Answered(c)
        THEN step' = step + 1 /\ UNCHANGED <<phase, turn, row, broken, aborted>>
        ELSE Ends(Current, "failed")
  /\ UNCHANGED <<profiles, lacks, faults>>

\* A call raises: refused, for lack of a capability or otherwise, or done with its answer lost.
Fault ==
  /\ Running /\ Selected(Current.group) /\ Met(Current) /\ step <= Len(Current.calls)
  /\ faults' = faults + (IF phase = "reads" THEN 2 ELSE 1) /\ faults' <= MaxFaults
  /\ LET c == Current.calls[step] IN
     /\ c.op \notin {"owe", "settle"}
     /\ \/ c.op # "refused" /\ UNCHANGED set /\ Ends(Current, "host")
        \/ set' \in {set, Done(c)} /\ Ends(Current, "raised")
  /\ UNCHANGED <<profiles, lacks, owed>>

\* Every call of the probe was answered as expected, or it is not made.
EndProbe ==
  /\ Running
  /\ \/ /\ Selected(Current.group) /\ Met(Current) /\ step > Len(Current.calls)
        /\ Ends(Current, "passed")
     \/ /\ Selected(Current.group) /\ ~Met(Current)
        /\ step' = 1 /\ UNCHANGED broken
        /\ Goes(Current, IF Current.needs \in Fixtures THEN "environment" ELSE "failed")
     \/ /\ ~Selected(Current.group) /\ turn' = turn + 1
        /\ UNCHANGED <<step, phase, row, broken, aborted>>
  /\ UNCHANGED <<set, profiles, lacks, owed, faults>>

StartMutations ==
  /\ phase = "reads" /\ turn > Len(Reads)
  /\ phase' = IF "mutations" \in expanded THEN "probes" ELSE "report"
  /\ turn' = 1
  /\ UNCHANGED <<set, profiles, lacks, step, row, owed, broken, aborted, faults>>

StartCleanup ==
  /\ phase = "probes" /\ turn > Len(Probes)
  /\ phase' = "cleanup" /\ turn' = 1
  /\ UNCHANGED <<set, profiles, lacks, step, row, owed, broken, aborted, faults>>

\* Rows that passed and could not be restored.
Downgraded == [t \in Tools |-> IF t \in broken /\ row[t] = "passed" THEN "failed" ELSE row[t]]

\* Mutant: what could not be restored is not held against the tool.
EndCleanupLenient ==
  /\ phase = "cleanup" /\ turn > Len(Restores)
  /\ phase' = "additions" /\ turn' = 1
  /\ UNCHANGED <<set, profiles, lacks, step, row, owed, broken, aborted, faults>>

\* Mutant: tracks are added although something could not be restored.
EndCleanupGoesOn ==
  /\ phase = "cleanup" /\ turn > Len(Restores)
  /\ phase' = "additions" /\ turn' = 1 /\ row' = Downgraded
  /\ UNCHANGED <<set, profiles, lacks, step, owed, broken, aborted, faults>>

\* The rows of what could not be restored fail; tracks are added only when
\* everything could, and the probes came to their end.
EndCleanup ==
  /\ phase = "cleanup" /\ turn > Len(Restores)
  /\ IF broken = {} /\ ~aborted
     THEN phase' = "additions" /\ UNCHANGED row
     ELSE /\ phase' = "report"
          /\ row' = [t \in Tools |-> IF t \in Structurals THEN "failed" ELSE Downgraded[t]]
  /\ turn' = 1
  /\ UNCHANGED <<set, profiles, lacks, step, owed, broken, aborted, faults>>

EndAdditions ==
  /\ phase = "additions" /\ turn > Len(Additions) /\ phase' = "report"
  /\ UNCHANGED <<set, profiles, lacks, turn, step, row, owed, broken, aborted, faults>>

\* Tools outside of the selection are recorded as not covered; with a row missing
\* there is no report.
Finish ==
  /\ phase = "report"
  /\ LET selected == UNION {Rows(g) : g \in expanded} IN
       row' = [t \in Tools |-> IF row[t] = "none" /\ t \notin selected THEN "environment" ELSE row[t]]
  /\ phase' = IF \A t \in Tools : row'[t] # "none" THEN "done" ELSE "unreported"
  /\ UNCHANGED <<set, profiles, lacks, turn, step, owed, broken, aborted, faults>>

\* release_ready; the clip is fired (--fire-clip).
Ready ==
  /\ phase = "done" /\ expanded = Groups
  /\ \A t \in Tools :
       \/ row[t] = "passed"
       \/ row[t] = "environment" /\ t \in Optional
       \/ row[t] = "manual" /\ t \in {"quit_ableton", "save_set"}

Advance ==
  Do \/ EndProbe \/ StartMutations \/ StartCleanup \/ EndCleanup \/ EndAdditions \/ Finish
AcceptanceNext == Advance \/ Fault

\* Every call of the client returns or raises.
AcceptanceSpec ==
  AcceptanceInit /\ [][AcceptanceNext]_acceptanceVars /\ WF_acceptanceVars(Advance)
------------------------------------------------------------------------------
\* Which tools have been tried on a field.
TriedOn(f) ==
  {Probes[i].tool : i \in {j \in DOMAIN Probes : \E k \in DOMAIN Probes[j].calls : Probes[j].calls[k].field = f}}

Ended == phase \in {"done", "refused", "unreported"}

\* Nothing is left behind unnoticed: whatever differs from the baseline in the end
\* has a row that failed, or that the host could not serve, among the tools that were
\* tried on it, and no release is certified.  Not so the name of the track, which is
\* put back once, by its probe, and never by the cleanup.
LeftoversAreFailed ==
  Ended => \A f \in Fields \ (Structural \cup {"name"}) :
    set[f] # "old" => ~Ready /\ \E t \in TriedOn(f) \ {"none"} : row[t] \in {"failed", "host"}

\* Every mutation that is selected is classified however the run ends, and a report is
\* withheld for a row that is missing only when an exception has cut the reads or the
\* probes short, or when quit was named and the mutations are selected: nothing records
\* quit_ableton then.
AllClassified ==
  Ended =>
    /\ "mutations" \in expanded => \A t \in Rows("mutations") : row[t] # "none"
    /\ phase = "unreported" => aborted \/ (QuitNamed /\ "mutations" \in expanded)

\* "Track creation happens last so we can restore everything else": when a track is
\* added, whatever the cleanup restores is as it was, in any case or as remembered by a
\* probe.  Not so a cue whose creation has failed after all, which nothing remembers.
TracksLast ==
  [][set'.audioTrack # set.audioTrack =>
       \A i \in DOMAIN Restores :
         Restores[i].needs # "cue" => set[Restores[i].calls[1].field] = "old"]_acceptanceVars

==============================================================================
