----------------------------- MODULE ExtensionTools -----------------------------
(***************************************************************************)
(* The tools of server.py that are more than one request to the Remote     *)
(* Script.  load_device_to_track asks the script for the role of a device  *)
(* and for the chain of the track, and then the extension, over its own    *)
(* bridge, to insert at a position (device_insert.py, ws_client.py, and    *)
(* src/index.ts of the extension).  scaffold_extension writes a project    *)
(* directory and build_extension runs npm in it.                           *)
(*                                                                         *)
(* Calls run concurrently, of one server or several; the user edits the    *)
(* chain and removes the project meanwhile.  The extension goes on with an *)
(* insertion that the server no longer waits for.                          *)
(***************************************************************************)
EXTENDS Integers, Sequences, FiniteSets, SequencesExt

CONSTANTS
  Calls,      \* each calls one tool once
  Plans,      \* what the calls may be for: "load", "project" or nothing, "done"
  Chains,     \* the device chains the track may have at the start
  OnAudio,    \* whether it is an audio, return or main track
  MaxEdits,
  None        \* nothing

Roles == {"midi_effect", "instrument", "audio_effect"}
\* What the extension answers, and what a tool returns.
Answers == {"invalid_params", "loaded", "refused"}
Outcomes == Answers \cup
  {"bridge_error", "bad_input", "unavailable", "exists", "error", "raised", "scaffolded",
   "no_package", "built"}
\* What becomes of a request at the extension.
Handled == {"received", "inserting", "answered"}
\* The files of a project in the order in which they are written.
FileOrder == <<"vendor", "package.json", "manifest.json", "src">>
ProjectFiles == ToSet(FileOrder)

ASSUME ToolsAssumption ==
  /\ Plans \subseteq [Calls -> {"load", "project", "done"}] /\ Chains \subseteq Seq(Roles)
  /\ OnAudio \in BOOLEAN /\ MaxEdits \in Nat
  /\ None \notin Calls \cup Roles \cup Outcomes \cup Handled \cup Nat
  /\ None \notin [ProjectFiles -> Calls \cup {None}]

VARIABLES
  at,        \* where each call is
  role,      \* of each: the role of its device, None for a name the browser has not
  read,      \* of each: the chain as it was read
  place,     \* of each: the index it asks for
  handling,  \* of each: where the extension is with its request
  reply,     \* of each: what the extension answers
  outcome,   \* of each: what the tool returns
  chain,     \* the devices of the track, by role
  typed,     \* whether the Remote Script tells the type of a device
  edits,
  written,   \* of each: how many files it has written
  project,   \* whose each file of the project is; None without a directory
  bundle,    \* dist/extension.js: whose files it is made from
  disturbed  \* the calls during which the user has removed the project
device  == <<role, read, place, handling, reply, chain, typed>>
files   == <<written, project, bundle, disturbed>>
vars    == <<at, device, outcome, edits, files>>

On(c, where) == at[c] = where
Steps(c, where) == at' = [at EXCEPT ![c] = where]
Returns(c, what) == Steps(c, "done") /\ outcome' = [outcome EXCEPT ![c] = what]

(*********************** where a device goes ********************************)
\* Live keeps the chain in this order, with one instrument.
Rank == [r \in Roles |-> CASE r = "midi_effect" -> 1 [] r = "instrument" -> 2 [] OTHER -> 3]
Ordered(devices) ==
  \A i, j \in DOMAIN devices : i < j =>
    /\ Rank[devices[i]] <= Rank[devices[j]]
    /\ ~(devices[i] = "instrument" /\ devices[j] = "instrument")
Allows(devices, kind, index) ==
  /\ kind # None /\ index \in 0..Len(devices)
  /\ OnAudio => kind = "audio_effect"
  /\ Ordered(InsertAt(devices, index + 1, kind))

\* What get_device_list tells of the chain.
Types(devices) == IF typed THEN devices ELSE [i \in DOMAIN devices |-> "undefined"]
\* The position of the first of types that is one of kinds.
FirstOf(types, kinds) ==
  LET at_ == {i \in DOMAIN types : types[i] \in kinds} IN
    IF at_ = {} THEN Len(types) ELSE (CHOOSE i \in at_ : \A j \in at_ : i <= j) - 1

\* Mutant: a MIDI effect goes to the end.
InsertIndexAppends(kind, types) ==
  IF kind = "instrument" THEN FirstOf(types, {"audio_effect"}) ELSE Len(types)
InsertIndex(kind, types) ==
  CASE kind = "audio_effect" -> Len(types)
    [] kind = "midi_effect" -> FirstOf(types, {"instrument", "audio_effect", "undefined"})
    [] OTHER -> FirstOf(types, {"audio_effect"})

(*********************** load_device_to_track *******************************)
\* A call of the Remote Script may fail in any of its ways.
ScriptFails(c) == Returns(c, "bridge_error")

AsksBrowser(c) ==
  /\ On(c, "load")
  /\ \E r \in Roles \cup {None} :
       /\ role' = [role EXCEPT ![c] = r]
       /\ \/ Steps(c, IF r = None THEN "send" ELSE "chain") /\ UNCHANGED outcome
          \/ ScriptFails(c)
  /\ UNCHANGED <<read, place, handling, reply, chain, typed, edits, files>>

ReadsChain(c) ==
  /\ On(c, "chain") /\ read' = [read EXCEPT ![c] = chain]
  /\ \/ ScriptFails(c) /\ UNCHANGED place
     \/ /\ role[c] = "instrument" /\ "instrument" \in ToSet(Types(chain))
        /\ Returns(c, "bad_input") /\ UNCHANGED place
     \/ /\ role[c] # "instrument" \/ "instrument" \notin ToSet(Types(chain))
        /\ place' = [place EXCEPT ![c] = InsertIndex(role[c], Types(chain))]
        /\ Steps(c, "send") /\ UNCHANGED outcome
  /\ UNCHANGED <<role, handling, reply, chain, typed, edits, files>>

\* A connection of its own for each call.
Sends(c) ==
  /\ On(c, "send")
  /\ \/ Returns(c, "unavailable") /\ UNCHANGED handling
     \/ Steps(c, "waiting") /\ handling' = [handling EXCEPT ![c] = "received"] /\ UNCHANGED outcome
  /\ UNCHANGED <<role, read, place, reply, chain, typed, edits, files>>

Replies(c, what) ==
  /\ reply' = [reply EXCEPT ![c] = what] /\ handling' = [handling EXCEPT ![c] = "answered"]

\* The extension takes the end of the chain when no index is given.
HandlerChecks(c) ==
  /\ handling[c] = "received"
  /\ LET index == IF place[c] = None THEN Len(chain) ELSE place[c] IN
       /\ place' = [place EXCEPT ![c] = index]
       /\ IF index > Len(chain) THEN Replies(c, "invalid_params")
          ELSE handling' = [handling EXCEPT ![c] = "inserting"] /\ UNCHANGED reply
  /\ UNCHANGED <<at, role, read, chain, typed, outcome, edits, files>>

LiveInserts(c) ==
  /\ handling[c] = "inserting"
  /\ IF Allows(chain, role[c], place[c])
       THEN chain' = InsertAt(chain, place[c] + 1, role[c]) /\ Replies(c, "loaded")
       ELSE Replies(c, "refused") /\ UNCHANGED chain
  /\ UNCHANGED <<at, role, read, place, typed, outcome, edits, files>>

Receives(c) ==
  /\ On(c, "waiting") /\ reply[c] # None /\ Returns(c, reply[c])
  /\ UNCHANGED <<device, edits, files>>

\* Ten seconds without an answer look like an extension that is not there.
GivesUp(c) ==
  /\ On(c, "waiting") /\ Returns(c, "unavailable")
  /\ UNCHANGED <<device, edits, files>>

UserEditsChain ==
  /\ edits < MaxEdits /\ edits' = edits + 1
  /\ \/ \E k \in DOMAIN chain : chain' = RemoveAt(chain, k)
     \/ \E r \in Roles, i \in 0..Len(chain) :
          Allows(chain, r, i) /\ chain' = InsertAt(chain, i + 1, r)
  /\ UNCHANGED <<at, role, read, place, handling, reply, typed, outcome, files>>

(*********************** scaffold_extension *********************************)
NoFiles == [f \in ProjectFiles |-> None]

\* Mutant: a directory that is there is used.
MakesDirectoryAnyhow(c) ==
  project' = (IF project = None THEN NoFiles ELSE project) /\ Steps(c, "write") /\ UNCHANGED outcome
\* mkdir with exist_ok=False lets one of several through.
MakesDirectory(c) ==
  IF project = None THEN project' = NoFiles /\ Steps(c, "write") /\ UNCHANGED outcome
  ELSE Returns(c, "exists") /\ UNCHANGED project

\* Without the vendored tarballs, or where no directory can be made, nothing is written.
Scaffolds(c) ==
  /\ On(c, "project")
  /\ \/ Returns(c, "error") /\ UNCHANGED project
     \/ MakesDirectory(c)
  /\ UNCHANGED <<device, edits, written, bundle, disturbed>>

\* The next file, in the order of FileOrder; writing it may raise, and is not caught.
Writes(c) ==
  /\ On(c, "write")
  /\ \/ Returns(c, "raised") /\ UNCHANGED <<project, written>>
     \/ /\ project # None /\ written' = [written EXCEPT ![c] = @ + 1]
        /\ project' = [project EXCEPT ![FileOrder[written'[c]]] = c]
        /\ IF written'[c] = Len(FileOrder) THEN Returns(c, "scaffolded") ELSE UNCHANGED <<at, outcome>>
  /\ UNCHANGED <<device, edits, bundle, disturbed>>

UserRemovesProject ==
  /\ edits < MaxEdits /\ edits' = edits + 1
  /\ project # None /\ project' = None /\ bundle' = None
  /\ disturbed' = disturbed \cup {c \in Calls : at[c] \in {"write", "install", "build"}}
  /\ UNCHANGED <<at, device, outcome, written>>

(*********************** build_extension ************************************)
Entry == IF project = None THEN None ELSE project["package.json"]

\* Without package.json there is nothing to build.
BuildBegins(c) ==
  /\ On(c, "project")
  /\ IF Entry = None THEN Returns(c, "no_package") ELSE Steps(c, "install") /\ UNCHANGED outcome
  /\ UNCHANGED <<device, edits, files>>

\* npm install needs what is vendored; it may fail, or take too long and raise.
Installs(c) ==
  /\ On(c, "install")
  /\ \/ Returns(c, "error")
     \/ Returns(c, "raised")
     \/ Entry # None /\ project["vendor"] # None /\ Steps(c, "build") /\ UNCHANGED outcome
  /\ UNCHANGED <<device, edits, files>>

\* npm run build: the bundle is made from what is in the directory; the step may fail, or
\* take too long, after that as well as before.
Builds(c) ==
  /\ On(c, "build")
  /\ \/ /\ project # None /\ \A f \in ProjectFiles : project[f] # None
        /\ bundle' = {project[f] : f \in ProjectFiles}
        /\ \E how \in {"built", "error", "raised"} : Returns(c, how)
     \/ UNCHANGED bundle /\ \E how \in {"error", "raised"} : Returns(c, how)
  /\ UNCHANGED <<device, edits, written, project, disturbed>>

(*********************** specification **************************************)
Init ==
  /\ at \in Plans /\ outcome = [c \in Calls |-> None]
  /\ role = [c \in Calls |-> None] /\ read = [c \in Calls |-> None]
  /\ place = [c \in Calls |-> None] /\ handling = [c \in Calls |-> None]
  /\ reply = [c \in Calls |-> None]
  /\ chain \in Chains /\ typed \in BOOLEAN /\ edits = 0
  /\ written = [c \in Calls |-> 0] /\ project = None /\ bundle = None /\ disturbed = {}

LoadStep(c) ==
  \/ AsksBrowser(c) \/ ReadsChain(c) \/ Sends(c) \/ HandlerChecks(c) \/ LiveInserts(c)
  \/ Receives(c) \/ GivesUp(c)
ProjectStep(c) == Scaffolds(c) \/ Writes(c) \/ BuildBegins(c) \/ Installs(c) \/ Builds(c)

Next ==
  \/ \E c \in Calls : LoadStep(c) \/ ProjectStep(c)
  \/ UserEditsChain \/ UserRemovesProject
Spec == Init /\ [][Next]_vars

(*********************** properties *****************************************)
\* Where Live allows a device.
Places(devices, kind) == {i \in 0..Len(devices) : Allows(devices, kind, i)}
LoadsWell(c) ==
  /\ outcome'[c] # outcome[c] /\ outcome'[c] = "bad_input" => Places(chain, role[c]) = {}
  /\ LiveInserts(c) /\ chain = read[c] /\ (typed \/ role[c] # "instrument") =>
       LET places == Places(chain, role[c]) IN
         IF reply'[c] = "loaded"
           THEN place[c] \in places /\ (typed => \A i \in places : i <= place[c])
           ELSE places = {}
\* A device goes to the last place of the chain that Live allows it, and is refused, by the
\* server or by Live, only when there is no such place: as long as the chain into which
\* Live inserts is the one that was read, and with a script that tells the types.  Without
\* the types an effect still gets a place (device_insert.py insert_params).
LoadedWhereItGoes == [][\A c \in Calls : LoadsWell(c)]_vars

\* A project that was scaffolded has all its files from one call, and so has a bundle that
\* was built, however calls for the same directory fall together (server.py
\* scaffold_extension); removing the directory under a call is up to the user.
ProjectOfOneCall ==
  disturbed = {} =>
    /\ project # None => Cardinality({project[f] : f \in ProjectFiles} \ {None}) <= 1
    /\ bundle # None => Cardinality(bundle) = 1
    /\ \A c \in Calls : outcome[c] = "scaffolded" /\ project # None =>
         \/ \A f \in ProjectFiles : project[f] = c
         \/ edits > 0
===============================================================================
