---------------------------- MODULE PanelSession ----------------------------
(***************************************************************************)
(* The Groove Brain panel: the extension inside Live opens a modal, which  *)
(* hands over to a page on a phone, and serves that page through a helper  *)
(* process until the session is over (AbletonMCPServer_Extension/          *)
(* groove-brain-gate0).                                                    *)
(*                                                                         *)
(* The extension is one thread of callbacks: what stands between two       *)
(* awaits is one action.  activeInvocation is global to the module, while  *)
(* the lifecycle and the operation belong to an activation, and an         *)
(* operation may outlive its activation.  The helper keeps one snapshot    *)
(* and one command; the Set is one clip slot, which the user edits too.    *)
(***************************************************************************)
EXTENDS Integers, FiniteSets

CONSTANTS
  MaxActivations,  \* bound: times the host activates the extension
  MaxOps,          \* bound: times the user opens the modal
  MaxFailures,     \* MAX_CONSECUTIVE_FAILURES
  MaxCommands,     \* bound: taps on the panel
  MaxEdits,        \* bound: edits of the slot by the user
  MaxFaults,       \* bound: requests and calls that fail, helpers that crash or hang, the host's end
  Together         \* bound: may a second operation or activation meet taps and edits

ASSUME PanelAssumption ==
  /\ {MaxActivations, MaxOps, MaxFailures, MaxCommands, MaxEdits, MaxFaults} \subseteq Nat
  /\ MaxFailures > 0 /\ Together \in BOOLEAN

Activations == 1..MaxActivations
Ops == 1..MaxOps
Commands == 1..MaxCommands
None == 0
Open == -1  \* deactivate was not called, or is done

\* What a slot holds: nothing, a clip of the user's, the clip of a command without its
\* notes, or with them.
Empty     == <<"empty", 0>>
Own       == <<"user", 0>>
Bare(c)   == <<"bare", c>>
Groove(c) == <<"groove", c>>
Unseen    == <<"unseen", 0>>  \* no snapshot yet

NoRelay == [snapshot |-> Unseen, command |-> None]
NoLoop == [snapshot |-> Unseen, published |-> Unseen, failures |-> 0, command |-> None]

VARIABLES
  lifecycle,         \* the activation that is active, or None
  activations,       \* how many there have been
  menu,              \* registration of the context menu action, of each
  operation,         \* state.operation, of each
  closing,           \* of each: the helper deactivate waits for, None when it is gone
  activeInvocation,
  pc, of,            \* of each operation: where it is, and its activation
  cancelled, known,  \* invocation.cancelled, and whether invocation.helper is set
  releasing,         \* the invocation an operation is stopping
  process, asked,    \* the helper of each operation; shutdown or end of input has reached it
  relay,             \* the snapshot and the command the helper holds
  loop,              \* of each operation: snapshot, published, failures, command in hand
  slot,              \* the Set
  panel,             \* the helper the page belongs to, and the slot as it shows it
  tapped,            \* the slot as it was shown at each tap
  told,              \* commands with a receipt or a reported failure
  lost,              \* commands gone with the answer that carried them, or with the helper
  applied,           \* how often each command has made a clip
  deleted,           \* the commands that have deleted a clip
  edits, faults
ext  == <<lifecycle, activations, menu, operation, closing, activeInvocation>>
inv  == <<pc, of, cancelled, known, releasing>>
proc == <<process, asked>>
live == <<slot, applied, deleted>>
page == <<panel, tapped>>
log  == <<told, lost>>
vars == <<ext, inv, proc, relay, loop, live, page, log, edits, faults>>

Init ==
  /\ lifecycle = None /\ activations = 0
  /\ menu = [a \in Activations |-> "none"]
  /\ operation = [a \in Activations |-> None]
  /\ closing = [a \in Activations |-> Open]
  /\ activeInvocation = None
  /\ pc = [o \in Ops |-> "unused"] /\ of = [o \in Ops |-> None]
  /\ cancelled = [o \in Ops |-> FALSE] /\ known = [o \in Ops |-> FALSE]
  /\ releasing = [o \in Ops |-> None]
  /\ process = [o \in Ops |-> "none"] /\ asked = [o \in Ops |-> FALSE]
  /\ relay = [o \in Ops |-> NoRelay]
  /\ loop = [o \in Ops |-> NoLoop]
  /\ slot \in {Empty, Own}
  /\ panel = [helper |-> None, shown |-> Unseen]
  /\ tapped = [c \in Commands |-> Unseen]
  /\ told = {} /\ lost = {} /\ applied = [c \in Commands |-> 0] /\ deleted = {}
  /\ edits = 0 /\ faults = 0

Fault == faults < MaxFaults /\ faults' = faults + 1
Alone == Together \/ (activations = 1 /\ Cardinality({o \in Ops : pc[o] # "unused"}) = 1)
Quiet == Together \/ (\A c \in Commands : tapped[c] = Unseen /\ edits = 0)
Go(o, where) == pc' = [pc EXCEPT ![o] = where]

(*********************** activation ****************************************)
Activate ==
  /\ lifecycle = None /\ activations < MaxActivations /\ Quiet
  /\ activations' = activations + 1 /\ lifecycle' = activations + 1
  /\ menu' = [menu EXCEPT ![activations + 1] = "pending"]
  /\ UNCHANGED <<operation, closing, activeInvocation, inv, proc, relay, loop, live, page,
                 log, edits, faults>>

Menu(a, state) ==
  /\ menu' = [menu EXCEPT ![a] = state]
  /\ UNCHANGED <<lifecycle, activations, operation, activeInvocation, inv, proc, relay,
                 loop, live, page, log, edits>>

\* The host has registered the menu action; if too late, it is taken back.
Registered(a) ==
  /\ menu[a] = "pending"
  /\ Menu(a, IF lifecycle = a THEN "registered" ELSE "gone")
  /\ UNCHANGED <<closing, faults>>

RegistrationFails(a) == menu[a] = "pending" /\ Fault /\ Menu(a, "gone") /\ UNCHANGED closing

\* Mutant: the helper is stopped, the invocation not marked.
DeactivateUnmarked ==
  /\ lifecycle # None /\ lifecycle' = None
  /\ closing' = [closing EXCEPT ![lifecycle] = activeInvocation]
  /\ UNCHANGED <<activations, menu, operation, activeInvocation, inv, proc, relay, loop, live,
                 page, log, edits, faults>>

\* Whatever invocation there is is marked, and its helper stopped.
Deactivate ==
  /\ lifecycle # None /\ lifecycle' = None
  /\ cancelled' = [o \in Ops |-> cancelled[o] \/ o = activeInvocation]
  /\ closing' = [closing EXCEPT ![lifecycle] = activeInvocation]
  /\ UNCHANGED <<activations, menu, operation, activeInvocation, pc, of, known, releasing, proc,
                 relay, loop, live, page, log, edits, faults>>

\* Mutant: a registration that the host has yet to answer is forgotten.
UnregisterKnown(a) ==
  /\ closing[a] = None
  /\ closing' = [closing EXCEPT ![a] = Open]
  /\ Menu(a, IF menu[a] = "pending" THEN "registered" ELSE "gone") /\ UNCHANGED faults

\* Then the menu action goes, once it is known whether there is one.
Unregister(a) ==
  /\ closing[a] = None /\ menu[a] # "pending"
  /\ closing' = [closing EXCEPT ![a] = Open]
  /\ Menu(a, "gone") /\ UNCHANGED faults

(*********************** the invocation ************************************)
\* The user picks the menu action.  An invocation of another activation is in the way.
OpenModal(a, o) ==
  /\ menu[a] = "registered" /\ lifecycle = a /\ operation[a] = None
  /\ pc[o] = "unused" /\ \A p \in Ops : p < o => pc[p] # "unused"
  /\ o = 1 \/ Quiet
  /\ operation' = [operation EXCEPT ![a] = o] /\ of' = [of EXCEPT ![o] = a]
  /\ IF activeInvocation # None
       THEN Go(o, "release") /\ UNCHANGED <<activeInvocation, process>>
       ELSE /\ activeInvocation' = o /\ Go(o, "starting")
            /\ process' = [process EXCEPT ![o] = "spawned"]
  /\ UNCHANGED <<lifecycle, activations, menu, closing, cancelled, known, releasing, asked, relay,
                 loop, live, page, log, edits, faults>>

\* Between two awaits of an operation.
Moves(o, where) ==
  /\ Go(o, where)
  /\ UNCHANGED <<ext, of, cancelled, releasing, proc, relay, live, log, edits>>

\* The ready line has come; deactivate may have come first.
Started(o) ==
  /\ pc[o] = "starting" /\ process[o] = "ready"
  /\ known' = [known EXCEPT ![o] = TRUE]
  /\ Moves(o, IF cancelled[o] THEN "leave" ELSE "health")
  /\ UNCHANGED <<loop, page, faults>>

\* No ready line in time, the wrong one, or the process has exited: it is terminated, and
\* may outlive that too; the start is rejected either way.
StartFails(o) ==
  /\ pc[o] = "starting" /\ process[o] # "ready"
  /\ IF process[o] = "exited"
       THEN UNCHANGED <<faults, process>>
       ELSE Fault /\ \E left \in {"exited", "stuck"} : process' = [process EXCEPT ![o] = left]
  /\ Go(o, "leave")
  /\ UNCHANGED <<ext, of, cancelled, known, releasing, asked, relay, loop, live, page, log, edits>>

\* A request to the helper: it is served; its answer does not arrive; it is not served.
Serves(o)  == process[o] = "ready"
Unserved(o) == IF Serves(o) THEN Fault ELSE UNCHANGED faults

AssertHealthy(o) ==
  /\ pc[o] = "health"
  /\ \/ Serves(o) /\ UNCHANGED faults /\ Moves(o, IF cancelled[o] THEN "leave" ELSE "modal")
     \/ Unserved(o) /\ Moves(o, "leave")
  /\ UNCHANGED <<known, loop, page>>

\* The user closes the modal: on the phone, or not at all.
CloseModal(o) ==
  /\ pc[o] = "modal"
  /\ \/ Moves(o, "leave") /\ UNCHANGED page
     \/ /\ ~cancelled[o]
        /\ Moves(o, IF lifecycle = of[o] THEN "head" ELSE "release")
        /\ panel' = [helper |-> o, shown |-> Unseen] /\ UNCHANGED tapped
  /\ UNCHANGED <<known, loop, faults>>

\* releaseGate0Helper, called by openGate0Modal unless it hands over, and again at the
\* end of the operation: whatever invocation there is.
Release(o) ==
  /\ pc[o] \in {"leave", "release"}
  /\ activeInvocation' = None
  /\ IF activeInvocation = None
       THEN /\ Go(o, IF pc[o] = "leave" THEN "release" ELSE "done") /\ UNCHANGED releasing
            /\ operation' = [operation EXCEPT ![of[o]] = IF pc[o] = "release" THEN None ELSE @]
       ELSE /\ releasing' = [releasing EXCEPT ![o] = activeInvocation]
            /\ Go(o, IF pc[o] = "leave" THEN "leaving" ELSE "releasing") /\ UNCHANGED operation
  /\ UNCHANGED <<lifecycle, activations, menu, closing, of, cancelled, known, proc, relay, loop,
                 live, page, log, edits, faults>>

Stoppers(o) == {p \in Ops : pc[p] \in {"leaving", "releasing"} /\ releasing[p] = o}
\* There is nothing to stop: the start has failed, or the helper is gone.
Stopped(o) == pc[o] # "starting" /\ (process[o] \in {"none", "exited"} \/ ~known[o])
\* A stop has raised: stop hands its promise to every later caller, who gets the same
\* error, even when the process has gone since.
Raised(o) == known[o] /\ process[o] \in {"stuck", "killed"}

\* stop: the shutdown line is written, when the start has succeeded.
AskToStop(o) ==
  /\ known[o] /\ process[o] = "ready" /\ ~asked[o]
  /\ Stoppers(o) # {} \/ \E a \in Activations : closing[a] = o
  /\ asked' = [asked EXCEPT ![o] = TRUE]
  /\ UNCHANGED <<ext, inv, process, relay, loop, live, page, log, edits, faults>>

\* The operation goes on; at its end, the next one may be opened, unless the stop raised.
ReleaseEnds(o) ==
  /\ pc[o] \in {"leaving", "releasing"}
  /\ Stopped(releasing[o]) \/ Raised(releasing[o])
  /\ Go(o, IF pc[o] = "leaving" THEN "release" ELSE "done")
  /\ operation' = [operation EXCEPT
       ![of[o]] = IF pc[o] = "releasing" /\ Stopped(releasing[o]) THEN None ELSE @]
  /\ UNCHANGED <<lifecycle, activations, menu, closing, activeInvocation, of, cancelled, known,
                 releasing, proc, relay, loop, live, page, log, edits, faults>>

ShutdownEnds(a) ==
  /\ closing[a] \in Ops
  /\ Stopped(closing[a]) \/ Raised(closing[a])
  /\ closing' = [closing EXCEPT ![a] = IF Stopped(closing[a]) THEN None ELSE Open]
  /\ Menu(a, menu[a]) /\ UNCHANGED faults

\* The helper outlives its termination by more than the two seconds: stop raises, in a
\* finally.  The operation is never cleared, or the menu action stays.
StopFails(o) ==
  /\ asked[o] /\ process[o] = "ready" /\ Fault
  /\ process' = [process EXCEPT ![o] = "stuck"]
  /\ pc' = [p \in Ops |-> IF p \notin Stoppers(o) THEN pc[p]
                          ELSE IF pc[p] = "leaving" THEN "release" ELSE "done"]
  /\ closing' = [a \in Activations |-> IF closing[a] = o THEN Open ELSE closing[a]]
  /\ UNCHANGED <<lifecycle, activations, menu, operation, activeInvocation, of, cancelled, known,
                 releasing, asked, relay, loop, live, page, log, edits>>

(*********************** the helper ****************************************)
\* It has read its first line, the assets and the catalogue, and bound its port.
BecomesReady(o) ==
  /\ process[o] = "spawned" /\ ~asked[o]
  /\ process' = [process EXCEPT ![o] = "ready"]
  /\ UNCHANGED <<ext, inv, asked, relay, loop, live, page, log, edits, faults>>

Exit(o) ==
  /\ process' = [process EXCEPT ![o] = IF Raised(o) THEN "killed" ELSE "exited"]
  /\ relay' = [relay EXCEPT ![o] = NoRelay]
  /\ lost' = lost \cup ({relay[o].command} \ {None})
  /\ UNCHANGED <<ext, inv, asked, loop, live, page, told, edits>>

\* The watcher of its input has raised the flag, or it is killed.
Exits(o) ==
  /\ process[o] = "stuck" \/ (asked[o] /\ process[o] \in {"spawned", "ready"})
  /\ Exit(o) /\ UNCHANGED faults
Crashes(o) == process[o] = "ready" /\ Fault /\ Exit(o)

(*********************** serveSession **************************************)
Loop(o, where, values) ==
  /\ loop' = [loop EXCEPT ![o] = values]
  /\ Go(o, where)
  /\ UNCHANGED <<ext, of, cancelled, known, releasing, proc, page, edits>>

\* The catch of the loop.  Only the first failure of a run is reported.
Fails(o) ==
  /\ Loop(o, "head", [loop[o] EXCEPT !.failures = @ + 1, !.command = None])
  /\ told' = IF loop[o].failures = 0 THEN told \cup ({loop[o].command} \ {None}) ELSE told

\* A turn: the Set is published if it has changed.
Turn(o) ==
  /\ pc[o] = "head"
  /\ LET l == loop[o] IN
     IF lifecycle # of[o] \/ l.failures >= MaxFailures THEN Loop(o, "release", NoLoop)
     ELSE IF slot # l.published THEN Loop(o, "publish", [l EXCEPT !.snapshot = slot])
     ELSE Loop(o, "take", l)
  /\ UNCHANGED <<relay, live, log, faults>>

\* Half an hour is over.
SessionExpires(o) ==
  /\ pc[o] = "head" /\ Loop(o, "release", NoLoop)
  /\ UNCHANGED <<relay, live, log, faults>>

PublishSnapshot(o) ==
  /\ pc[o] = "publish"
  /\ \/ /\ Serves(o) /\ relay' = [relay EXCEPT ![o].snapshot = loop[o].snapshot]
        /\ \/ /\ Loop(o, "take", [loop[o] EXCEPT !.published = loop[o].snapshot])
              /\ UNCHANGED <<told, faults>>
           \/ Fault /\ Fails(o)
     \/ Unserved(o) /\ Fails(o) /\ UNCHANGED relay
  /\ UNCHANGED <<live, lost>>

\* Mutant: the command is read and stays.
TakeCommandReads(o) ==
  /\ pc[o] = "take"
  /\ \/ /\ Serves(o) /\ UNCHANGED <<relay, lost, told, faults>>
        /\ LET c == relay[o].command IN
           Loop(o, IF c = None THEN "head" ELSE "fetch", [loop[o] EXCEPT !.failures = 0, !.command = c])
     \/ Unserved(o) /\ Fails(o) /\ UNCHANGED <<relay, lost>>
  /\ UNCHANGED live

\* Mutant: the failures are counted on until a command is done.
TakeCommandCounts(o) ==
  /\ pc[o] = "take"
  /\ \/ /\ Serves(o) /\ relay' = [relay EXCEPT ![o].command = None]
        /\ LET c == relay[o].command IN
           /\ Loop(o, IF c = None THEN "head" ELSE "fetch", [loop[o] EXCEPT !.command = c])
           /\ UNCHANGED <<told, lost, faults>>
     \/ Unserved(o) /\ Fails(o) /\ UNCHANGED <<relay, lost>>
  /\ UNCHANGED live

\* The command is taken from the mailbox, and lost if the answer is.
TakeCommand(o) ==
  /\ pc[o] = "take"
  /\ LET c == relay[o].command IN
     \/ /\ Serves(o) /\ relay' = [relay EXCEPT ![o].command = None]
        /\ \/ /\ Loop(o, IF c = None THEN "head" ELSE "fetch", [loop[o] EXCEPT !.failures = 0, !.command = c])
              /\ UNCHANGED <<told, lost, faults>>
           \/ Fault /\ Fails(o) /\ lost' = lost \cup ({c} \ {None})
     \/ Unserved(o) /\ Fails(o) /\ UNCHANGED <<relay, lost>>
  /\ UNCHANGED live

FetchGroove(o) ==
  /\ pc[o] = "fetch"
  /\ \/ Serves(o) /\ Loop(o, "apply", loop[o]) /\ UNCHANGED <<told, faults>>
     \/ Unserved(o) /\ Fails(o)
  /\ UNCHANGED <<relay, live, lost>>

\* A receipt: the Set is published again.
Receipt(o) ==
  /\ Loop(o, "head", [loop[o] EXCEPT !.published = Unseen, !.command = None])
  /\ told' = told \cup {loop[o].command}

\* What the panel saw when the command was tapped says whether a clip is to be replaced.
Replaces(c) == tapped[c] # Empty

\* Mutant: a filled slot is always replaced.
ApplyAnyway(o) ==
  /\ pc[o] = "apply"
  /\ Loop(o, IF slot = Empty THEN "create" ELSE "delete", loop[o]) /\ UNCHANGED told
  /\ UNCHANGED <<relay, live, lost, faults>>

\* applyCommand up to its first await: refused, or the old clip is deleted first.
ApplyCommand(o) ==
  /\ pc[o] = "apply"
  /\ \/ (slot # Empty => Replaces(loop[o].command))
        /\ Loop(o, IF slot = Empty THEN "create" ELSE "delete", loop[o]) /\ UNCHANGED told
     \/ Receipt(o)  \* SLOT_NOT_EMPTY, or NOTHING_AUDIBLE, or no such slot
  /\ UNCHANGED <<relay, live, lost, faults>>

DeleteClip(o) ==
  /\ pc[o] = "delete"
  /\ \/ /\ slot # Empty /\ slot' = Empty /\ deleted' = deleted \cup {loop[o].command}
        /\ Loop(o, "create", loop[o]) /\ UNCHANGED <<told, faults>>
     \/ (IF slot = Empty THEN UNCHANGED faults ELSE Fault) /\ Fails(o) /\ UNCHANGED <<slot, deleted>>
  /\ UNCHANGED <<relay, lost, applied>>

CreateMidiClip(o) ==
  /\ pc[o] = "create"
  /\ \/ /\ slot = Empty /\ slot' = Bare(loop[o].command)
        /\ applied' = [applied EXCEPT ![loop[o].command] = @ + 1]
        /\ Loop(o, "write", loop[o]) /\ UNCHANGED <<told, faults>>
     \/ (IF slot # Empty THEN UNCHANGED faults ELSE Fault) /\ Fails(o) /\ UNCHANGED <<slot, applied>>
  /\ UNCHANGED <<relay, lost, deleted>>

\* The notes go to the clip, if the user has left it.
WriteNotes(o) ==
  /\ pc[o] = "write"
  /\ \/ slot = Bare(loop[o].command) /\ slot' = Groove(loop[o].command) /\ Receipt(o) /\ UNCHANGED faults
     \/ (IF slot = Bare(loop[o].command) THEN Fault ELSE UNCHANGED faults) /\ Fails(o) /\ UNCHANGED slot
  /\ UNCHANGED <<relay, lost, applied, deleted>>

(*********************** the page, the user, the host **********************)
Page(helper) == Serves(helper) /\ UNCHANGED <<ext, inv, proc, loop, live, log, edits>>

\* Mutant: the page keeps the first snapshot it got.
RefreshOnce ==
  /\ panel.helper # None /\ Page(panel.helper) /\ panel.shown = Unseen
  /\ panel' = [panel EXCEPT !.shown = relay[panel.helper].snapshot] /\ UNCHANGED <<tapped, relay, faults>>

Refresh ==
  /\ panel.helper # None /\ Page(panel.helper) /\ panel.shown # relay[panel.helper].snapshot
  /\ panel' = [panel EXCEPT !.shown = relay[panel.helper].snapshot] /\ UNCHANGED <<tapped, relay, faults>>

\* Any request that fails hides the controls for good.
PageFails ==
  /\ panel.helper # None /\ Page(panel.helper) /\ Fault
  /\ panel' = [helper |-> None, shown |-> Unseen] /\ UNCHANGED <<tapped, relay>>

\* A newer command replaces one that was not taken yet.
Tap(c) ==
  /\ Alone /\ panel.helper # None /\ Page(panel.helper) /\ panel.shown # Unseen
  /\ tapped[c] = Unseen /\ \A d \in Commands : d < c => tapped[d] # Unseen
  /\ tapped' = [tapped EXCEPT ![c] = panel.shown]
  /\ relay' = [relay EXCEPT ![panel.helper].command = c] /\ UNCHANGED <<panel, faults>>

UserEdits ==
  /\ Alone /\ edits < MaxEdits /\ edits' = edits + 1
  /\ slot' = IF slot = Empty THEN Own ELSE Empty
  /\ UNCHANGED <<ext, inv, proc, relay, loop, applied, deleted, page, log, faults>>

\* Live ends with all that was going on in it; the helpers read the end of their input.
HostDies ==
  /\ Fault /\ \E o \in Ops : pc[o] \notin {"unused", "done", "dead"}
  /\ pc' = [o \in Ops |-> "dead"] /\ lifecycle' = None /\ activations' = MaxActivations
  /\ menu' = [a \in Activations |-> "gone"] /\ closing' = [a \in Activations |-> Open]
  /\ operation' = [a \in Activations |-> None] /\ activeInvocation' = None
  /\ of' = [o \in Ops |-> None] /\ releasing' = [o \in Ops |-> None]
  /\ cancelled' = [o \in Ops |-> FALSE] /\ known' = [o \in Ops |-> FALSE]
  /\ loop' = [o \in Ops |-> NoLoop] /\ asked' = [o \in Ops |-> TRUE]
  /\ lost' = lost \cup ({loop[o].command : o \in Ops} \ {None})
  /\ UNCHANGED <<process, relay, live, page, told, edits>>

\* The callbacks of the extension, and the helpers; the modal waits for the user.
Callback ==
  \/ \E a \in Activations : Registered(a) \/ Unregister(a) \/ ShutdownEnds(a)
  \/ \E o \in Ops : Started(o) \/ StartFails(o) \/ AssertHealthy(o) \/ Release(o) \/ ReleaseEnds(o)
  \/ \E o \in Ops : AskToStop(o) \/ BecomesReady(o) \/ Exits(o)
Session(o) == \/ Turn(o) \/ PublishSnapshot(o) \/ TakeCommand(o) \/ FetchGroove(o) \/ ApplyCommand(o)
              \/ DeleteClip(o) \/ CreateMidiClip(o) \/ WriteNotes(o)
Outside ==
  \/ Activate \/ Deactivate \/ UserEdits \/ HostDies \/ PageFails
  \/ \E a \in Activations : RegistrationFails(a) \/ \E o \in Ops : OpenModal(a, o)
  \/ \E o \in Ops : CloseModal(o) \/ SessionExpires(o) \/ StopFails(o) \/ Crashes(o)
  \/ \E c \in Commands : Tap(c)
Next == Callback \/ Refresh \/ Outside \/ \E o \in Ops : Session(o)

\* Callbacks are called, and processes scheduled; the page polls every four seconds.
Spec == Init /\ [][Next]_vars /\ WF_vars(Callback) /\ WF_vars(Refresh)
             /\ \A o \in Ops : WF_vars(Session(o))

(*********************** properties ****************************************)
Turns  == {"head", "publish", "take", "fetch", "apply", "delete", "create", "write"}
Stages == Turns \cup {"unused", "starting", "health", "modal", "leave", "leaving", "release", "releasing", "done", "dead"}
Clips == {Empty, Unseen, Own} \cup {Bare(c) : c \in Commands} \cup {Groove(c) : c \in Commands}

\* Every variable keeps to its range, and an operation belongs to an activation.
TypeOK ==
  /\ lifecycle \in 0..activations /\ activations \in 0..MaxActivations
  /\ menu \in [Activations -> {"none", "pending", "registered", "gone"}]
  /\ operation \in [Activations -> 0..MaxOps] /\ closing \in [Activations -> Open..MaxOps]
  /\ activeInvocation \in 0..MaxOps
  /\ pc \in [Ops -> Stages] /\ of \in [Ops -> 0..MaxActivations]
  /\ cancelled \in [Ops -> BOOLEAN] /\ known \in [Ops -> BOOLEAN] /\ asked \in [Ops -> BOOLEAN]
  /\ releasing \in [Ops -> 0..MaxOps]
  /\ process \in [Ops -> {"none", "spawned", "ready", "stuck", "killed", "exited"}]
  /\ relay \in [Ops -> [snapshot : Clips, command : 0..MaxCommands]]
  /\ loop \in [Ops -> [snapshot : Clips, published : Clips, failures : 0..MaxFailures, command : 0..MaxCommands]]
  /\ slot \in Clips \ {Unseen} /\ panel \in [helper : 0..MaxOps, shown : Clips]
  /\ tapped \in [Commands -> Clips] /\ told \subseteq Commands /\ lost \subseteq Commands

\* A command makes one clip at most, whatever requests fail: it is taken, not read
\* (server.rs:109-113, "doing it twice would write the clip twice").
AppliedOnce == \A c \in Commands : applied[c] <= 1

\* A clip is deleted only for a command that was tapped on a slot shown as filled: one
\* that the user has put into the slot since it was shown empty is safe (picker.js:186,
\* session-writer.ts:64).
NoUnseenOverwrite == \A d \in deleted : tapped[d] # Empty

\* A command that was taken is in hand, or has its receipt or its report; it is lost
\* only with the answer that carried it (session-loop.ts:67-68, 86-92).
Taken == {c \in Commands : tapped[c] # Unseen /\ \A o \in Ops : relay[o].command # c}
Superseded == {c \in Commands : \E d \in Commands : d > c /\ tapped[d] # Unseen}
TakenIsTold ==
  \A c \in Taken \ (Superseded \cup lost) :
    c \in told \/ \E o \in Ops : loop[o].command = c

\* An invocation on its way to the phone is cancelled when its activation ends, unless
\* another operation has taken it, to stop its helper (actions.ts:42-46, 69-75).
InactiveIsCancelled ==
  \A o \in Ops : pc[o] \in {"health", "modal"} /\ lifecycle # of[o] =>
    cancelled[o] \/ activeInvocation # o

\* Once an activation is deactivated its menu action goes, unless the stop of a helper
\* has raised (extension.ts:134-143).
MenuGoes ==
  \A a \in Activations : closing[a] # Open ~>
    menu[a] = "gone" \/ \E o \in Ops : Raised(o)

Serving == panel.helper # None /\ pc[panel.helper] \in Turns /\ Serves(panel.helper)

\* What the page shows is what the Set holds in the end, as long as the session lasts
\* (session-loop.ts:57-65, picker.js:132-151).
PanelCatchesUp ==
  Serving ~> ~Serving \/ panel.shown = slot
=============================================================================
