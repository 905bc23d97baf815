------------------------------ MODULE PanelProofs ------------------------------
(***************************************************************************)
(* The panel session, for any number of activations, invocations, taps,    *)
(* edits and faults.                                                       *)
(*                                                                         *)
(* The safety of the session is a matter of custody.  A command that was   *)
(* tapped is in the mailbox of one helper, or in the hand of one session   *)
(* loop, or nowhere any more; only where it is in hand and not yet written *)
(* may it make a clip, and it leaves the hand with a receipt or a report,  *)
(* since the failures are reset when it is taken.                          *)
(***************************************************************************)
EXTENDS PanelSession, TLAPS

\* Where a session has a command in hand.
InHand == {"fetch", "apply", "delete", "create", "write"}

\* The loop of an operation and where the operation is: a command is in hand from the
\* mailbox to the receipt, with the failures reset, and no turn goes on with too many.
Right(where, l) ==
  /\ where \in InHand <=> l.command # None
  /\ where \in InHand => l.failures = 0
  /\ where \in Turns \ {"head"} => l.failures < MaxFailures
HandInv == \A o \in Ops : Right(pc[o], loop[o])

\* What the extension does outside of serveSession, and the user beside the panel,
\* leaves the commands alone.
Aside ==
  /\ UNCHANGED <<relay, loop, applied, deleted, tapped, told, lost>>
  /\ \A o \in Ops : \/ pc'[o] = pc[o]
                    \/ pc[o] \notin Turns /\ pc'[o] \notin Turns \ {"head"}

Ranges == {"none", "pending", "registered", "gone"}
Snapshots == [snapshot : Clips, command : 0..MaxCommands]
Loops == [snapshot : Clips, published : Clips, failures : 0..MaxFailures, command : 0..MaxCommands]

LEMMA ClipsHold ==
  /\ Empty \in Clips /\ Own \in Clips /\ Unseen \in Clips
  /\ \A c \in Commands : Bare(c) \in Clips /\ Groove(c) \in Clips
  /\ Empty # Unseen /\ Own # Unseen
  /\ \A c \in Commands : Bare(c) # Unseen /\ Groove(c) # Unseen
BY DEF Clips, Empty, Own, Unseen, Bare, Groove

LEMMA NothingHeld == NoRelay \in Snapshots /\ NoLoop \in Loops
BY ClipsHold, PanelAssumption DEF NoRelay, NoLoop, Snapshots, Loops, None

LEMMA SomeCommand == \A c \in 0..MaxCommands : c # None => c \in Commands
BY PanelAssumption DEF Commands, None

\* An operation goes to a stage and leaves the others where they are.
LEMMA StageGoes ==
  ASSUME TypeOK, NEW o \in Ops
  PROVE  \A where \in Stages : Go(o, where) =>
           /\ pc' \in [Ops -> Stages] /\ pc'[o] = where
           /\ \A p \in Ops : p # o => pc'[p] = pc[p]
<1>1. pc \in [Ops -> Stages]
  BY DEF TypeOK
<1> QED
  BY <1>1 DEF Go

\* The steps of activation, registration and deactivation.
LEMMA ActivationSteps ==
  ASSUME TypeOK,
         \/ Activate \/ Deactivate
         \/ \E a \in Activations : \/ Registered(a) \/ RegistrationFails(a)
                                   \/ Unregister(a) \/ ShutdownEnds(a)
  PROVE  TypeOK' /\ Aside
<1>1. CASE Activate
  BY <1>1, PanelAssumption DEF Activate, TypeOK, Aside, Activations, None, inv, proc, live, page, log
<1>2. CASE Deactivate
  <2>1. cancelled' \in [Ops -> BOOLEAN]
    <3>1. \A o \in Ops : (cancelled[o] \/ o = activeInvocation) \in BOOLEAN
      OBVIOUS
    <3> QED
      BY <1>2, <3>1, Zenon DEF Deactivate
  <2>2. closing' \in [Activations -> Open..MaxOps]
    <3>1. activeInvocation \in Open..MaxOps
      BY PanelAssumption DEF TypeOK, Open
    <3>2. closing \in [Activations -> Open..MaxOps]
      BY DEF TypeOK
    <3> QED
      BY <1>2, <3>1, <3>2 DEF Deactivate
  <2>3. lifecycle' = None /\ None \in 0..activations
    BY <1>2, PanelAssumption DEF Deactivate, None, TypeOK
  <2>4. UNCHANGED <<activations, menu, operation, activeInvocation, pc, of, known, releasing,
                    proc, relay, loop, live, page, log, edits, faults>>
    BY <1>2 DEF Deactivate
  <2>5. Aside
    BY <2>4 DEF Aside, live, page, log
  <2> QED
    BY <2>1, <2>2, <2>3, <2>4, <2>5 DEF TypeOK, proc, live, page, log
<1>3. ASSUME NEW a \in Activations, Registered(a) \/ RegistrationFails(a) \/ Unregister(a) \/ ShutdownEnds(a)
      PROVE  TypeOK' /\ Aside
  <2>1. UNCHANGED <<lifecycle, activations, operation, activeInvocation, inv, proc, relay,
                    loop, live, page, log, edits>>
    BY <1>3 DEF Registered, RegistrationFails, Unregister, ShutdownEnds, Menu
  <2>2. menu' \in [Activations -> Ranges]
    <3>1. menu \in [Activations -> Ranges]
      BY DEF TypeOK, Ranges
    <3>2. PICK state \in Ranges : menu' = [menu EXCEPT ![a] = state]
      <4>1. CASE Registered(a)
        BY <4>1 DEF Registered, Menu, Ranges
      <4>2. CASE RegistrationFails(a)
        BY <4>2 DEF RegistrationFails, Menu, Ranges
      <4>3. CASE Unregister(a)
        BY <4>3 DEF Unregister, Menu, Ranges
      <4>4. CASE ShutdownEnds(a)
        BY <3>1, <4>4 DEF ShutdownEnds, Menu
      <4> QED
        BY <1>3, <4>1, <4>2, <4>3, <4>4
    <3> QED
      BY <3>1, <3>2
  <2>3. closing' \in [Activations -> Open..MaxOps]
    BY <1>3, PanelAssumption
       DEF Registered, RegistrationFails, Unregister, ShutdownEnds, Menu, TypeOK, Open, None
  <2> QED
    BY <2>1, <2>2, <2>3 DEF TypeOK, Aside, Ranges, inv, proc, live, page, log
<1> QED
  BY <1>1, <1>2, <1>3

\* The steps of an invocation up to the session.
LEMMA InvocationSteps ==
  ASSUME TypeOK, NEW o \in Ops,
         \/ \E a \in Activations : OpenModal(a, o)
         \/ Started(o) \/ StartFails(o) \/ AssertHealthy(o) \/ CloseModal(o)
  PROVE  TypeOK' /\ Aside
<1> USE PanelAssumption DEF Ops, Turns, Stages
<1>1. ASSUME NEW a \in Activations, OpenModal(a, o) PROVE TypeOK' /\ Aside
  <2>1. UNCHANGED <<lifecycle, activations, menu, closing, cancelled, known, releasing, asked,
                    relay, loop, live, page, log, edits, faults>>
    BY <1>1 DEF OpenModal
  <2>2. pc[o] = "unused" /\ \E where \in {"release", "starting"} : Go(o, where)
    BY <1>1 DEF OpenModal
  <2>3. pc' \in [Ops -> Stages] /\ \A p \in Ops : p # o => pc'[p] = pc[p]
    BY <2>2, StageGoes
  <2>4. operation' \in [Activations -> 0..MaxOps] /\ of' \in [Ops -> 0..MaxActivations]
    BY <1>1 DEF OpenModal, TypeOK, Activations
  <2>5. activeInvocation' \in 0..MaxOps
    BY <1>1 DEF OpenModal, TypeOK
  <2>6. process' \in [Ops -> {"none", "spawned", "ready", "stuck", "killed", "exited"}]
    BY <1>1 DEF OpenModal, TypeOK
  <2>7. pc'[o] \in {"release", "starting"}
    BY <2>2 DEF Go, TypeOK
  <2>8. Aside
    BY <2>1, <2>2, <2>3, <2>7 DEF Aside, live, page, log
  <2> QED
    BY <2>1, <2>3, <2>4, <2>5, <2>6, <2>8 DEF TypeOK, live, page, log
<1>2. CASE Started(o)
  BY <1>2 DEF Started, Moves, Go, TypeOK, Aside, ext, proc, live, page, log
<1>3. CASE StartFails(o)
  BY <1>3 DEF StartFails, Go, TypeOK, Aside, ext, live, page, log
<1>4. CASE AssertHealthy(o)
  BY <1>4 DEF AssertHealthy, Moves, Go, TypeOK, Aside, ext, proc, live, page, log
<1>5. CASE CloseModal(o)
  <2>1. PICK where \in {"leave", "head", "release"} : Moves(o, where)
    BY <1>5 DEF CloseModal
  <2>2. UNCHANGED <<ext, of, cancelled, releasing, proc, relay, live, log, edits, known, loop>>
    BY <1>5, <2>1 DEF CloseModal, Moves
  <2>3. /\ pc' \in [Ops -> Stages] /\ pc'[o] = where
        /\ \A p \in Ops : p # o => pc'[p] = pc[p]
    BY <2>1, StageGoes DEF Moves
  <2>4. panel' \in [helper : 0..MaxOps, shown : Clips] /\ tapped' = tapped
    BY <1>5, ClipsHold DEF CloseModal, page, TypeOK
  <2>5. pc[o] = "modal"
    BY <1>5 DEF CloseModal
  <2>6. Aside
    BY <2>2, <2>3, <2>4, <2>5 DEF Aside, live, log
  <2> QED
    BY <2>2, <2>3, <2>4, <2>6 DEF TypeOK, ext, proc, live, log
<1> QED
  BY <1>1, <1>2, <1>3, <1>4, <1>5

\* The steps that stop helpers and end operations.
LEMMA EndingSteps ==
  ASSUME TypeOK, NEW o \in Ops,
         \/ Release(o) \/ ReleaseEnds(o) \/ AskToStop(o) \/ StopFails(o) \/ BecomesReady(o)
  PROVE  TypeOK' /\ Aside
<1> USE DEF Turns, Stages
<1>1. pc \in [Ops -> Stages] /\ operation \in [Activations -> 0..MaxOps] /\ of[o] \in 0..MaxActivations
  BY DEF TypeOK
<1>2. None \in 0..MaxOps
  BY PanelAssumption DEF None
<1>3. CASE Release(o)
  <2>1. UNCHANGED <<lifecycle, activations, menu, closing, of, cancelled, known, proc, relay, loop,
                    live, page, log, edits, faults>>
    BY <1>3 DEF Release
  <2>2. PICK where \in {"leaving", "releasing", "release", "done"} : Go(o, where)
    BY <1>3 DEF Release
  <2>3. /\ pc' \in [Ops -> Stages] /\ pc'[o] = where
        /\ \A p \in Ops : p # o => pc'[p] = pc[p]
    BY <2>2, StageGoes
  <2>4. operation' \in [Activations -> 0..MaxOps]
    BY <1>1, <1>2, <1>3 DEF Release
  <2>5. releasing' \in [Ops -> 0..MaxOps] /\ activeInvocation' = None
    BY <1>3 DEF Release, TypeOK
  <2>6. pc[o] \in {"leave", "release"}
    BY <1>3 DEF Release
  <2>7. Aside
    BY <2>1, <2>3, <2>6 DEF Aside, live, page, log
  <2> QED
    BY <1>2, <2>1, <2>3, <2>4, <2>5, <2>7 DEF TypeOK, proc, live, page, log
<1>4. CASE ReleaseEnds(o)
  <2>1. UNCHANGED <<lifecycle, activations, menu, closing, activeInvocation, of, cancelled, known,
                    releasing, proc, relay, loop, live, page, log, edits, faults>>
    BY <1>4 DEF ReleaseEnds
  <2>2. PICK where \in {"release", "done"} : Go(o, where)
    BY <1>4 DEF ReleaseEnds
  <2>3. /\ pc' \in [Ops -> Stages] /\ pc'[o] = where
        /\ \A p \in Ops : p # o => pc'[p] = pc[p]
    BY <2>2, StageGoes
  <2>4. operation' \in [Activations -> 0..MaxOps]
    BY <1>1, <1>2, <1>4 DEF ReleaseEnds
  <2>5. pc[o] \in {"leaving", "releasing"}
    BY <1>4 DEF ReleaseEnds
  <2>6. Aside
    BY <2>1, <2>3, <2>5 DEF Aside, live, page, log
  <2> QED
    BY <2>1, <2>3, <2>4, <2>6 DEF TypeOK, proc, live, page, log
<1>5. CASE AskToStop(o)
  BY <1>5 DEF AskToStop, TypeOK, Aside, ext, inv, live, page, log
<1>6. CASE StopFails(o)
  <2>1. UNCHANGED <<lifecycle, activations, menu, operation, activeInvocation, of, cancelled, known,
                    releasing, asked, relay, loop, live, page, log, edits>>
    BY <1>6 DEF StopFails
  <2>2. pc' \in [Ops -> Stages]
    BY <1>1, <1>6 DEF StopFails
  <2>3. \A p \in Ops : \/ pc'[p] = pc[p]
                       \/ pc[p] \in {"leaving", "releasing"} /\ pc'[p] \in {"release", "done"}
    <3>1. ASSUME NEW p \in Ops
          PROVE  pc'[p] = IF p \notin Stoppers(o) THEN pc[p]
                          ELSE IF pc[p] = "leaving" THEN "release" ELSE "done"
      BY <1>6 DEF StopFails
    <3>2. \A p \in Stoppers(o) : pc[p] \in {"leaving", "releasing"}
      BY DEF Stoppers
    <3>3. ASSUME NEW p \in Ops
          PROVE  \/ pc'[p] = pc[p]
                 \/ pc[p] \in {"leaving", "releasing"} /\ pc'[p] \in {"release", "done"}
      <4>1. CASE p \in Stoppers(o)
        BY <3>1, <3>2, <4>1
      <4>2. CASE p \notin Stoppers(o)
        BY <3>1, <4>2
      <4> QED
        BY <4>1, <4>2
    <3> QED
      BY <3>3
  <2>4. closing' \in [Activations -> Open..MaxOps]
    <3>1. Open \in Open..MaxOps /\ closing \in [Activations -> Open..MaxOps]
      BY PanelAssumption DEF Open, TypeOK
    <3> QED
      BY <1>6, <3>1 DEF StopFails
  <2>5. process' \in [Ops -> {"none", "spawned", "ready", "stuck", "killed", "exited"}]
    BY <1>6 DEF StopFails, TypeOK
  <2>6. Aside
    BY <2>1, <2>3 DEF Aside, live, page, log
  <2> QED
    BY <2>1, <2>2, <2>4, <2>5, <2>6 DEF TypeOK, live, page, log
<1>7. CASE BecomesReady(o)
  BY <1>7 DEF BecomesReady, TypeOK, Aside, ext, inv, live, page, log
<1> QED
  BY <1>3, <1>4, <1>5, <1>6, <1>7

\* The page and the user, but for a tap; the Set is seen, or edited, at one slot.
LEMMA PageSteps ==
  ASSUME TypeOK, Refresh \/ PageFails \/ UserEdits
  PROVE  TypeOK' /\ Aside
<1>1. relay \in [Ops -> Snapshots] /\ panel \in [helper : 0..MaxOps, shown : Clips]
  BY DEF TypeOK, Snapshots
<1>2. CASE Refresh \/ PageFails
  <2>1. UNCHANGED <<ext, inv, proc, loop, live, log, edits, tapped, relay>>
    BY <1>2 DEF Refresh, PageFails, Page
  <2>2. panel' \in [helper : 0..MaxOps, shown : Clips]
    <3>1. CASE Refresh
      <4>1. panel.helper \in Ops
        BY <1>1, <3>1, PanelAssumption DEF Refresh, Ops, None
      <4>2. relay[panel.helper].snapshot \in Clips
        BY <1>1, <4>1 DEF Snapshots
      <4> QED
        BY <1>1, <3>1, <4>2 DEF Refresh
    <3>2. CASE PageFails
      BY <3>2, ClipsHold, PanelAssumption DEF PageFails, None
    <3> QED
      BY <1>2, <3>1, <3>2
  <2> QED
    BY <2>1, <2>2 DEF TypeOK, Aside, ext, inv, proc, live, log
<1>3. CASE UserEdits
  <2>1. slot' \in Clips \ {Unseen}
    BY <1>3, ClipsHold DEF UserEdits
  <2> QED
    BY <1>3, <2>1 DEF UserEdits, TypeOK, Aside, ext, inv, proc, page, log
<1> QED
  BY <1>2, <1>3

\* The steps that move commands beside the session: a tap, and the end of a process.
LEMMA TapSteps ==
  ASSUME TypeOK, NEW c \in Commands, Tap(c)
  PROVE  /\ panel.helper \in Ops
         /\ UNCHANGED <<pc, loop, applied, deleted, told, lost>>
         /\ relay' = [relay EXCEPT ![panel.helper].command = c]
         /\ tapped' = [tapped EXCEPT ![c] = panel.shown]
         /\ TypeOK'
<1>1. relay \in [Ops -> Snapshots] /\ panel \in [helper : 0..MaxOps, shown : Clips]
      /\ tapped \in [Commands -> Clips]
  BY DEF TypeOK, Snapshots
<1>2. panel.helper \in Ops
  BY <1>1, PanelAssumption DEF Tap, Ops, None
<1>3. UNCHANGED <<ext, inv, proc, loop, live, log, edits, panel>>
  BY DEF Tap, Page
<1>4. relay' = [relay EXCEPT ![panel.helper].command = c] /\ tapped' = [tapped EXCEPT ![c] = panel.shown]
  BY DEF Tap
<1>5. relay' \in [Ops -> Snapshots]
  BY <1>1, <1>2, <1>4, PanelAssumption DEF Snapshots, Commands
<1>6. tapped' \in [Commands -> Clips]
  BY <1>1, <1>4
<1> QED
  BY <1>2, <1>3, <1>4, <1>5, <1>6 DEF TypeOK, Snapshots, ext, inv, proc, live, log

LEMMA ExitSteps ==
  ASSUME TypeOK, NEW o \in Ops, Exits(o) \/ Crashes(o)
  PROVE  /\ UNCHANGED <<pc, loop, applied, deleted, told, tapped>>
         /\ relay' = [relay EXCEPT ![o] = NoRelay]
         /\ lost' = lost \cup ({relay[o].command} \ {None})
         /\ TypeOK'
<1>1. relay \in [Ops -> Snapshots] /\ lost \subseteq Commands
  BY DEF TypeOK, Snapshots
<1>2. Exit(o)
  BY DEF Exits, Crashes
<1>3. UNCHANGED <<ext, inv, asked, loop, live, page, told, edits>>
  BY <1>2 DEF Exit
<1>4. relay' = [relay EXCEPT ![o] = NoRelay] /\ lost' = lost \cup ({relay[o].command} \ {None})
  BY <1>2 DEF Exit
<1>5. relay' \in [Ops -> Snapshots]
  BY <1>1, <1>4, NothingHeld
<1>6. lost' \subseteq Commands
  <2>1. relay[o].command \in 0..MaxCommands
    BY <1>1 DEF Snapshots
  <2> QED
    BY <1>1, <1>4, <2>1, SomeCommand
<1>7. process' \in [Ops -> {"none", "spawned", "ready", "stuck", "killed", "exited"}]
  BY <1>2 DEF Exit, TypeOK
<1> QED
  BY <1>3, <1>4, <1>5, <1>6, <1>7 DEF TypeOK, Snapshots, ext, inv, live, page

LEMMA HostSteps ==
  ASSUME TypeOK, HostDies
  PROVE  /\ UNCHANGED <<relay, applied, deleted, told, tapped>>
         /\ loop' = [o \in Ops |-> NoLoop] /\ pc' = [o \in Ops |-> "dead"]
         /\ lost' = lost \cup ({loop[o].command : o \in Ops} \ {None})
         /\ TypeOK'
<1>1. loop \in [Ops -> Loops] /\ lost \subseteq Commands
  BY DEF TypeOK, Loops
<1>2. /\ UNCHANGED <<process, relay, live, page, told, edits>>
      /\ loop' = [o \in Ops |-> NoLoop] /\ pc' = [o \in Ops |-> "dead"]
      /\ lost' = lost \cup ({loop[o].command : o \in Ops} \ {None})
  BY DEF HostDies
<1>3. lost' \subseteq Commands
  <2>1. \A o \in Ops : loop[o].command \in 0..MaxCommands
    BY <1>1 DEF Loops
  <2> QED
    BY <1>1, <1>2, <2>1, SomeCommand
<1>4. loop' \in [Ops -> Loops] /\ pc' \in [Ops -> Stages]
  BY <1>2, NothingHeld DEF Stages
<1>5. /\ lifecycle' \in 0..activations' /\ activations' \in 0..MaxActivations
      /\ menu' \in [Activations -> Ranges] /\ operation' \in [Activations -> 0..MaxOps]
      /\ closing' \in [Activations -> Open..MaxOps] /\ activeInvocation' \in 0..MaxOps
      /\ of' \in [Ops -> 0..MaxActivations] /\ releasing' \in [Ops -> 0..MaxOps]
      /\ cancelled' \in [Ops -> BOOLEAN] /\ known' \in [Ops -> BOOLEAN] /\ asked' \in [Ops -> BOOLEAN]
  BY PanelAssumption DEF HostDies, Ranges, None, Open
<1> QED
  BY <1>2, <1>3, <1>4, <1>5 DEF TypeOK, Loops, Ranges, live, page

(*********************** where a command goes ******************************)
\* Commands leave the mailboxes and the hands: the loops tell of those they let go, the
\* others are lost with an answer, a helper or the host.
Drops ==
  /\ \A o \in Ops : /\ relay'[o].command \in {relay[o].command, None}
                    /\ loop'[o].command \in {loop[o].command, None}
                    /\ relay'[o].command # relay[o].command => relay[o].command \in lost'
                    /\ loop'[o].command # loop[o].command => loop[o].command \in told' \cup lost'
  /\ told \subseteq told' /\ lost \subseteq lost' /\ tapped' = tapped

\* No clip is made nor deleted, and what is in hand has been there.
Calm ==
  /\ UNCHANGED <<applied, deleted>>
  /\ \A o \in Ops : pc'[o] \in InHand =>
       /\ pc[o] \in InHand /\ loop'[o].command = loop[o].command
       /\ pc'[o] # "write" => pc[o] # "write"
       /\ pc'[o] = "delete" => pc[o] = "delete" \/ Replaces(loop[o].command)

OthersStay(o) ==
  \A p \in Ops : p # o => pc'[p] = pc[p] /\ loop'[p] = loop[p] /\ relay'[p] = relay[p]

\* From the mailbox to the hand.
Takes(o) ==
  /\ relay[o].command # None /\ loop[o].command = None
  /\ relay'[o].command = None /\ loop'[o].command = relay[o].command
  /\ OthersStay(o) /\ UNCHANGED <<applied, deleted, told, lost, tapped>> /\ pc'[o] = "fetch"

Deletes(o) ==
  /\ pc[o] = "delete" /\ pc'[o] = "create" /\ loop'[o] = loop[o] /\ relay'[o] = relay[o]
  /\ OthersStay(o) /\ UNCHANGED <<applied, told, lost, tapped>>
  /\ deleted' = deleted \cup {loop[o].command}

Creates(o) ==
  /\ pc[o] = "create" /\ pc'[o] = "write" /\ loop'[o] = loop[o] /\ relay'[o] = relay[o]
  /\ OthersStay(o) /\ UNCHANGED <<deleted, told, lost, tapped>>
  /\ applied' = [applied EXCEPT ![loop[o].command] = @ + 1]

Handles(o) == (Drops /\ Calm) \/ Takes(o) \/ Deletes(o) \/ Creates(o)

LEMMA AsideIsCalm ==
  ASSUME TypeOK, HandInv, Aside
  PROVE  HandInv' /\ Drops /\ Calm
<1>1. loop' = loop /\ relay' = relay /\ applied' = applied /\ deleted' = deleted
      /\ tapped' = tapped /\ told' = told /\ lost' = lost
  BY DEF Aside
<1>2. ASSUME NEW o \in Ops PROVE pc'[o] \in Turns \ {"head"} => pc'[o] = pc[o]
  BY DEF Aside
<1>3. InHand \subseteq Turns \ {"head"}
  BY DEF InHand, Turns
<1>4. HandInv'
  <2>1. ASSUME NEW o \in Ops PROVE Right(pc'[o], loop[o])
    <3>1. CASE pc'[o] = pc[o]
      BY <3>1 DEF HandInv
    <3>2. CASE pc[o] \notin Turns /\ pc'[o] \notin Turns \ {"head"}
      BY <1>3, <3>2 DEF HandInv, Right
    <3> QED
      BY <3>1, <3>2 DEF Aside
  <2> QED
    BY <1>1, <2>1 DEF HandInv
<1>5. Drops
  BY <1>1 DEF Drops
<1>6. Calm
  BY <1>1, <1>2, <1>3 DEF Calm
<1> QED
  BY <1>4, <1>5, <1>6

\* A step of the session loop: its own operation moves, and what else it may write keeps its
\* range.
LEMMA LoopStep ==
  ASSUME TypeOK, HandInv, NEW o \in Ops, NEW where \in Stages, NEW l \in Loops,
         Loop(o, where, l), Right(where, l),
         relay' \in [Ops -> Snapshots], \A p \in Ops : p # o => relay'[p] = relay[p],
         slot' \in Clips \ {Unseen}, told' \subseteq Commands, lost' \subseteq Commands
  PROVE  /\ TypeOK' /\ HandInv' /\ OthersStay(o) /\ tapped' = tapped
         /\ pc'[o] = where /\ loop'[o] = l
<1>1. loop' = [loop EXCEPT ![o] = l] /\ Go(o, where)
      /\ UNCHANGED <<ext, of, cancelled, known, releasing, proc, page, edits>>
  BY DEF Loop
<1>2. /\ pc' \in [Ops -> Stages] /\ pc'[o] = where
      /\ \A p \in Ops : p # o => pc'[p] = pc[p]
  BY <1>1, StageGoes
<1>3. loop \in [Ops -> Loops]
  BY DEF TypeOK, Loops
<1>4. /\ loop' \in [Ops -> Loops] /\ loop'[o] = l
      /\ \A p \in Ops : p # o => loop'[p] = loop[p]
  BY <1>1, <1>3
<1>5. HandInv'
  <2>1. ASSUME NEW p \in Ops PROVE Right(pc'[p], loop'[p])
    <3>1. CASE p = o
      BY <1>2, <1>4, <3>1
    <3>2. CASE p # o
      BY <1>2, <1>4, <3>2 DEF HandInv
    <3> QED
      BY <3>1, <3>2
  <2> QED
    BY <2>1 DEF HandInv
<1>6. TypeOK'
  BY <1>1, <1>2, <1>4 DEF TypeOK, Loops, Snapshots, ext, proc, page
<1> QED
  BY <1>1, <1>2, <1>4, <1>5, <1>6 DEF OthersStay, page

\* The catch of the loop: one failure more, the hand empty, and the command reported, since
\* it is the first failure after the command was taken.
LEMMA FailStep ==
  ASSUME TypeOK, HandInv, NEW o \in Ops, pc[o] \in Turns \ {"head"}, Fails(o)
  PROVE  /\ \E l \in Loops : l.command = None /\ Right("head", l) /\ Loop(o, "head", l)
         /\ told \subseteq told' /\ told' \subseteq Commands
         /\ loop[o].command \in told' \cup {None}
<1>1. loop[o] \in Loops /\ told \subseteq Commands /\ loop[o].command \in 0..MaxCommands
  BY DEF TypeOK, Loops
<1>2. Right(pc[o], loop[o])
  BY DEF HandInv
<1>3. loop[o].failures \in Nat /\ loop[o].failures < MaxFailures
  BY <1>1, <1>2, PanelAssumption DEF Right, Loops
<1> DEFINE l == [loop[o] EXCEPT !.failures = @ + 1, !.command = None]
<1>4. l \in Loops /\ l.command = None
  <2>1. loop[o].failures + 1 \in 0..MaxFailures /\ None \in 0..MaxCommands
    BY <1>3, PanelAssumption DEF None
  <2> QED
    BY <1>1, <2>1 DEF Loops
<1>5. Right("head", l)
  BY <1>4 DEF Right, InHand
<1>6. Loop(o, "head", l)
  BY DEF Fails
<1>7. told' = IF loop[o].failures = 0 THEN told \cup ({loop[o].command} \ {None}) ELSE told
  BY DEF Fails
<1>8. loop[o].command # None => loop[o].failures = 0 /\ loop[o].command \in Commands
  BY <1>1, <1>2, SomeCommand DEF Right
<1> HIDE DEF l
<1> QED
  BY <1>1, <1>4, <1>5, <1>6, <1>7, <1>8

\* Publishing, and the turns that do not come to a command.
LEMMA TurnSteps ==
  ASSUME TypeOK, HandInv, NEW o \in Ops, Turn(o) \/ SessionExpires(o) \/ PublishSnapshot(o)
  PROVE  TypeOK' /\ HandInv' /\ Drops /\ Calm
<1>1. /\ loop[o] \in Loops /\ relay \in [Ops -> Snapshots] /\ slot \in Clips \ {Unseen}
      /\ told \subseteq Commands /\ lost \subseteq Commands
  BY DEF TypeOK, Loops, Snapshots
<1>2. Right(pc[o], loop[o]) /\ pc[o] \in {"head", "publish"} /\ loop[o].command = None
  BY DEF HandInv, Right, InHand, Turn, SessionExpires, PublishSnapshot
<1>3. UNCHANGED <<slot, applied, deleted, lost>>
  BY DEF Turn, SessionExpires, PublishSnapshot, live, log
<1>4. /\ relay' \in [Ops -> Snapshots] /\ \A p \in Ops : p # o => relay'[p] = relay[p]
      /\ relay'[o].command = relay[o].command
  <2>1. loop[o].snapshot \in Clips
    BY <1>1 DEF Loops
  <2>2. relay' = relay \/ relay' = [relay EXCEPT ![o].snapshot = loop[o].snapshot]
    BY DEF Turn, SessionExpires, PublishSnapshot
  <2> QED
    BY <1>1, <2>1, <2>2 DEF Snapshots
<1>5. \E where \in Stages, l \in Loops :
        /\ where \notin InHand /\ l.command = None /\ Right(where, l) /\ Loop(o, where, l)
        /\ told \subseteq told' /\ told' \subseteq Commands
  <2>1. CASE Turn(o)
    <3>1. CASE lifecycle # of[o] \/ loop[o].failures >= MaxFailures
      <4>1. Loop(o, "release", NoLoop) /\ told' = told
        BY <2>1, <3>1 DEF Turn, log
      <4>2. Right("release", NoLoop) /\ NoLoop.command = None /\ "release" \in Stages \ InHand
        BY DEF Right, InHand, Turns, Stages, NoLoop
      <4> QED
        BY <1>1, <4>1, <4>2, NothingHeld
    <3>2. CASE ~(lifecycle # of[o] \/ loop[o].failures >= MaxFailures) /\ slot # loop[o].published
      <4> DEFINE l == [loop[o] EXCEPT !.snapshot = slot]
      <4>1. Loop(o, "publish", l) /\ told' = told
        BY <2>1, <3>2 DEF Turn, log
      <4>2. loop[o].failures < MaxFailures
        BY <1>1, <3>2, PanelAssumption DEF Loops
      <4>3. l \in Loops /\ l.command = None /\ l.failures = loop[o].failures
        BY <1>1, <1>2 DEF Loops
      <4>4. Right("publish", l) /\ "publish" \in Stages \ InHand
        BY <4>2, <4>3 DEF Right, InHand, Stages, Turns
      <4> HIDE DEF l
      <4> QED
        BY <1>1, <4>1, <4>3, <4>4
    <3>3. CASE ~(lifecycle # of[o] \/ loop[o].failures >= MaxFailures) /\ slot = loop[o].published
      <4>1. Loop(o, "take", loop[o]) /\ told' = told
        BY <2>1, <3>3 DEF Turn, log
      <4>2. loop[o].failures < MaxFailures
        BY <1>1, <3>3, PanelAssumption DEF Loops
      <4>3. Right("take", loop[o]) /\ "take" \in Stages \ InHand
        BY <1>2, <4>2 DEF Right, InHand, Stages, Turns
      <4> QED
        BY <1>1, <1>2, <4>1, <4>3
    <3> QED
      BY <3>1, <3>2, <3>3
  <2>2. CASE SessionExpires(o)
    <3>1. Loop(o, "release", NoLoop) /\ told' = told
      BY <2>2 DEF SessionExpires, log
    <3>2. Right("release", NoLoop) /\ NoLoop.command = None /\ "release" \in Stages \ InHand
      BY DEF Right, InHand, Turns, Stages, NoLoop
    <3> QED
      BY <1>1, <3>1, <3>2, NothingHeld
  <2>3. CASE PublishSnapshot(o)
    <3> DEFINE l == [loop[o] EXCEPT !.published = loop[o].snapshot]
    <3>1. CASE Fails(o)
      BY <1>2, <2>3, <3>1, FailStep DEF Stages, Turns, InHand, PublishSnapshot
    <3>2. CASE Loop(o, "take", l) /\ told' = told
      <4>1. loop[o].failures < MaxFailures
        BY <1>2, <2>3 DEF PublishSnapshot, Right, Turns
      <4>2. l \in Loops /\ l.command = None /\ l.failures = loop[o].failures
        BY <1>1, <1>2 DEF Loops
      <4>3. Right("take", l) /\ "take" \in Stages \ InHand
        BY <4>1, <4>2 DEF Right, InHand, Stages, Turns
      <4> HIDE DEF l
      <4> QED
        BY <1>1, <3>2, <4>2, <4>3
    <3> QED
      BY <2>3, <3>1, <3>2 DEF PublishSnapshot
  <2> QED
    BY <2>1, <2>2, <2>3
<1>6. PICK where \in Stages, l \in Loops :
        /\ where \notin InHand /\ l.command = None /\ Right(where, l) /\ Loop(o, where, l)
        /\ told \subseteq told' /\ told' \subseteq Commands
  BY <1>5
<1>7. /\ TypeOK' /\ HandInv' /\ OthersStay(o) /\ tapped' = tapped
      /\ pc'[o] = where /\ loop'[o] = l
  BY <1>1, <1>3, <1>4, <1>6, LoopStep
<1>8. Drops
  <2>1. ASSUME NEW p \in Ops
        PROVE  relay'[p].command = relay[p].command /\ loop'[p].command = loop[p].command
    BY <1>2, <1>4, <1>6, <1>7 DEF OthersStay
  <2> QED
    BY <1>3, <1>6, <1>7, <2>1 DEF Drops
<1>9. Calm
  <2>1. ASSUME NEW p \in Ops, pc'[p] \in InHand
        PROVE  pc'[p] = pc[p] /\ loop'[p] = loop[p]
    BY <1>6, <1>7, <2>1 DEF OthersStay
  <2> QED
    BY <1>3, <2>1 DEF Calm
<1> QED
  BY <1>7, <1>8, <1>9

\* A session step that fails: whatever was in hand is told, and the mailbox keeps what it
\* has, or has lost what it had.
LEMMA FailureKeeps ==
  ASSUME TypeOK, HandInv, NEW o \in Ops, pc[o] \in Turns \ {"head"}, Fails(o),
         relay' = relay \/ relay' = [relay EXCEPT ![o].command = None],
         relay[o].command \in lost' \cup {relay'[o].command},
         lost \subseteq lost', lost' \subseteq Commands,
         slot' = slot, applied' = applied, deleted' = deleted
  PROVE  TypeOK' /\ HandInv' /\ Drops /\ Calm
<1>1. PICK l \in Loops : l.command = None /\ Right("head", l) /\ Loop(o, "head", l)
  BY FailStep
<1>2. told \subseteq told' /\ told' \subseteq Commands /\ loop[o].command \in told' \cup {None}
  BY FailStep
<1>3. relay \in [Ops -> Snapshots] /\ slot \in Clips \ {Unseen} /\ None \in 0..MaxCommands
  BY PanelAssumption DEF TypeOK, Snapshots, None
<1>4. /\ relay' \in [Ops -> Snapshots] /\ \A p \in Ops : p # o => relay'[p] = relay[p]
      /\ relay'[o].command \in {relay[o].command, None}
  BY <1>3 DEF Snapshots
<1>5. /\ TypeOK' /\ HandInv' /\ OthersStay(o) /\ tapped' = tapped
      /\ pc'[o] = "head" /\ loop'[o] = l
  BY <1>1, <1>2, <1>3, <1>4, LoopStep DEF Stages, Turns
<1>6. Drops
  <2>1. ASSUME NEW p \in Ops
        PROVE  /\ relay'[p].command \in {relay[p].command, None}
               /\ loop'[p].command \in {loop[p].command, None}
               /\ relay'[p].command # relay[p].command => relay[p].command \in lost'
               /\ loop'[p].command # loop[p].command => loop[p].command \in told' \cup lost'
    <3>1. CASE p = o
      BY <1>1, <1>2, <1>4, <1>5, <3>1
    <3>2. CASE p # o
      BY <1>5, <3>2 DEF OthersStay
    <3> QED
      BY <3>1, <3>2
  <2> QED
    BY <1>2, <1>5, <2>1 DEF Drops
<1>7. Calm
  <2>1. ASSUME NEW p \in Ops, pc'[p] \in InHand
        PROVE  pc'[p] = pc[p] /\ loop'[p] = loop[p]
    BY <1>5, <2>1 DEF OthersStay, InHand
  <2> QED
    BY <2>1 DEF Calm
<1> QED
  BY <1>5, <1>6, <1>7

\* What fails has no receipt: the failures tell them apart.
LEMMA FailsIsNoReceipt ==
  ASSUME TypeOK, HandInv, NEW o \in Ops, pc[o] \in InHand, Fails(o), Receipt(o)
  PROVE  FALSE
<1>1. loop \in [Ops -> Loops] /\ loop[o].failures = 0
  BY DEF TypeOK, Loops, HandInv, Right
<1>2. loop'[o].failures = loop[o].failures + 1
  BY <1>1 DEF Fails, Loop, Loops
<1>3. loop'[o].failures = loop[o].failures
  BY <1>1 DEF Receipt, Loop, Loops
<1> QED
  BY <1>1, <1>2, <1>3

\* A command is taken, none is there, or it is lost with the answer.
LEMMA TakeSteps ==
  ASSUME TypeOK, HandInv, NEW o \in Ops, TakeCommand(o)
  PROVE  TypeOK' /\ HandInv' /\ ((Drops /\ Calm) \/ Takes(o))
<1>1. /\ loop[o] \in Loops /\ relay \in [Ops -> Snapshots] /\ slot \in Clips \ {Unseen}
      /\ told \subseteq Commands /\ lost \subseteq Commands /\ relay[o].command \in 0..MaxCommands
  BY DEF TypeOK, Loops, Snapshots
<1>2. Right(pc[o], loop[o]) /\ pc[o] = "take" /\ loop[o].command = None
  BY DEF HandInv, Right, InHand, TakeCommand
<1>3. UNCHANGED <<slot, applied, deleted>>
  BY DEF TakeCommand, live
<1> DEFINE c == relay[o].command
           l == [loop[o] EXCEPT !.failures = 0, !.command = c]
<1>4. \/ Fails(o) /\ UNCHANGED <<relay, lost>>
      \/ /\ relay' = [relay EXCEPT ![o].command = None]
         /\ Fails(o) /\ lost' = lost \cup ({c} \ {None})
      \/ /\ relay' = [relay EXCEPT ![o].command = None]
         /\ Loop(o, IF c = None THEN "head" ELSE "fetch", l) /\ UNCHANGED <<told, lost>>
  BY DEF TakeCommand
<1>5. CASE Fails(o) /\ UNCHANGED <<relay, lost>>
  BY <1>1, <1>2, <1>3, <1>5, FailureKeeps DEF Turns
<1>6. CASE /\ relay' = [relay EXCEPT ![o].command = None]
           /\ Fails(o) /\ lost' = lost \cup ({c} \ {None})
  <2>1. relay'[o].command = None /\ lost' \subseteq Commands /\ c \in lost' \cup {None}
    BY <1>1, <1>6, SomeCommand DEF Snapshots
  <2> QED
    BY <1>1, <1>2, <1>3, <1>6, <2>1, FailureKeeps DEF Turns
<1>7. CASE /\ relay' = [relay EXCEPT ![o].command = None]
           /\ Loop(o, IF c = None THEN "head" ELSE "fetch", l) /\ UNCHANGED <<told, lost>>
  <2>1. l \in Loops /\ l.command = c /\ l.failures = 0
    <3>1. 0 \in 0..MaxFailures
      BY PanelAssumption
    <3> HIDE DEF c
    <3>2. c \in 0..MaxCommands
      BY <1>1 DEF c
    <3> QED
      BY <1>1, <3>1, <3>2 DEF Loops
  <2>2. PICK where \in {"head", "fetch"} : where = (IF c = None THEN "head" ELSE "fetch")
    OBVIOUS
  <2>3. Right(where, l) /\ where \in Stages
    BY <2>1, <2>2, PanelAssumption DEF Right, InHand, Turns, Stages
  <2>4. None \in 0..MaxCommands
    BY PanelAssumption DEF None
  <2>5. /\ relay' \in [Ops -> Snapshots] /\ \A p \in Ops : p # o => relay'[p] = relay[p]
        /\ relay'[o].command = None
    BY <1>1, <1>7, <2>4 DEF Snapshots
  <2>6. Loop(o, where, l)
    BY <1>7, <2>2
  <2> HIDE DEF l
  <2>7. /\ TypeOK' /\ HandInv' /\ OthersStay(o) /\ tapped' = tapped
        /\ pc'[o] = where /\ loop'[o] = l
    BY <1>1, <1>3, <1>7, <2>1, <2>3, <2>5, <2>6, LoopStep
  <2>8. CASE c = None
    <3>1. ASSUME NEW p \in Ops
          PROVE  relay'[p].command = relay[p].command /\ loop'[p].command = loop[p].command
      BY <1>2, <2>1, <2>5, <2>7, <2>8 DEF OthersStay
    <3>2. Drops
      BY <1>7, <2>7, <3>1 DEF Drops
    <3>3. \A p \in Ops : pc'[p] \in InHand => pc'[p] = pc[p] /\ loop'[p] = loop[p]
      BY <2>2, <2>7, <2>8 DEF OthersStay, InHand
    <3>4. Calm
      BY <1>3, <3>3 DEF Calm
    <3> QED
      BY <2>7, <3>2, <3>4
  <2>9. CASE c # None
    <3>1. Takes(o)
      BY <1>2, <1>3, <1>7, <2>1, <2>2, <2>5, <2>7, <2>9 DEF Takes
    <3> QED
      BY <2>7, <3>1
  <2> QED
    BY <2>8, <2>9
<1> QED
  BY <1>4, <1>5, <1>6, <1>7

\* A session step with a command in hand, that keeps it or lets it go with a receipt.
LEMMA HandStep ==
  ASSUME TypeOK, HandInv, NEW o \in Ops, pc[o] \in InHand, relay' = relay, lost' = lost,
         slot' \in Clips \ {Unseen},
         NEW where \in InHand,
         \/ Loop(o, where, loop[o]) /\ told' = told
         \/ Receipt(o)
  PROVE  /\ TypeOK' /\ HandInv' /\ OthersStay(o) /\ Drops
         /\ \/ pc'[o] = where /\ loop'[o] = loop[o] /\ Loop(o, where, loop[o]) /\ told' = told
            \/ pc'[o] = "head" /\ Receipt(o)
<1>1. /\ loop[o] \in Loops /\ relay \in [Ops -> Snapshots]
      /\ told \subseteq Commands /\ lost \subseteq Commands /\ loop[o].command \in 0..MaxCommands
  BY DEF TypeOK, Loops, Snapshots
<1>2. Right(pc[o], loop[o]) /\ loop[o].command \in Commands
  BY <1>1, SomeCommand DEF HandInv, Right
<1>3. InHand \subseteq Turns \ {"head"} /\ Turns \subseteq Stages /\ "head" \in Stages
  BY DEF InHand, Turns, Stages
<1>4. CASE Loop(o, where, loop[o]) /\ told' = told
  <2>1. Right(where, loop[o])
    BY <1>2, <1>3 DEF Right
  <2>2. /\ TypeOK' /\ HandInv' /\ OthersStay(o) /\ tapped' = tapped
        /\ pc'[o] = where /\ loop'[o] = loop[o]
    BY <1>1, <1>3, <1>4, <2>1, LoopStep
  <2>3. Drops
    <3>1. \A p \in Ops : loop'[p] = loop[p]
      BY <2>2 DEF OthersStay
    <3> QED
      BY <1>4, <2>2, <3>1 DEF Drops
  <2> QED
    BY <1>4, <2>2, <2>3
<1>5. CASE Receipt(o)
  <2> DEFINE l == [loop[o] EXCEPT !.published = Unseen, !.command = None]
  <2>1. Loop(o, "head", l) /\ told' = told \cup {loop[o].command}
    BY <1>5 DEF Receipt
  <2>2. l \in Loops /\ l.command = None
    BY <1>1, ClipsHold, NothingHeld DEF Loops, NoLoop
  <2>3. Right("head", l)
    BY <2>2 DEF Right, InHand
  <2> HIDE DEF l
  <2>4. /\ TypeOK' /\ HandInv' /\ OthersStay(o) /\ tapped' = tapped
        /\ pc'[o] = "head" /\ loop'[o] = l
    BY <1>1, <1>2, <1>3, <2>1, <2>2, <2>3, LoopStep
  <2>5. Drops
    <3>1. ASSUME NEW p \in Ops
          PROVE  /\ loop'[p].command \in {loop[p].command, None}
                 /\ loop'[p].command # loop[p].command => loop[p].command \in told'
      <4>1. CASE p = o
        BY <2>1, <2>2, <2>4, <4>1
      <4>2. CASE p # o
        BY <2>4, <4>2 DEF OthersStay
      <4> QED
        BY <4>1, <4>2
    <3> QED
      BY <2>1, <2>4, <3>1 DEF Drops
  <2> QED
    BY <1>5, <2>4, <2>5
<1> QED
  BY <1>4, <1>5

\* The groove is fetched, and the command applied: a refusal is a receipt, and a clip is
\* deleted only where the panel has shown one.
LEMMA ApplySteps ==
  ASSUME TypeOK, HandInv, NEW o \in Ops,
         FetchGroove(o) \/ ApplyCommand(o) \/ WriteNotes(o)
  PROVE  TypeOK' /\ HandInv' /\ Drops /\ Calm
<1>1. slot \in Clips \ {Unseen} /\ lost \subseteq Commands /\ loop[o].command \in 0..MaxCommands
  BY DEF TypeOK
<1>2. pc[o] \in InHand /\ pc[o] \in Turns \ {"head"} /\ lost' = lost /\ relay' = relay
      /\ applied' = applied /\ deleted' = deleted
  BY DEF FetchGroove, ApplyCommand, WriteNotes, InHand, Turns, live
<1>3. loop[o].command \in Commands
  BY <1>1, <1>2, SomeCommand DEF HandInv, Right
<1>4. slot' \in Clips \ {Unseen}
  BY <1>1, <1>3, ClipsHold DEF FetchGroove, ApplyCommand, WriteNotes, live
<1>5. CASE Fails(o)
  <2>1. slot' = slot
    <3>1. CASE FetchGroove(o)
      BY <3>1 DEF FetchGroove, live
    <3>2. CASE ApplyCommand(o)
      BY <3>2 DEF ApplyCommand, live
    <3>3. CASE WriteNotes(o) /\ ~Receipt(o)
      BY <3>3 DEF WriteNotes
    <3>4. CASE Receipt(o)
      BY <1>2, <1>5, <3>4, FailsIsNoReceipt
    <3> QED
      BY <3>1, <3>2, <3>3, <3>4
  <2> QED
    BY <1>1, <1>2, <1>5, <2>1, FailureKeeps
<1>6. CASE ~Fails(o)
  <2>1. \/ Receipt(o)
        \/ FetchGroove(o) /\ Loop(o, "apply", loop[o]) /\ told' = told
        \/ ApplyCommand(o) /\ Loop(o, "create", loop[o]) /\ told' = told
        \/ /\ ApplyCommand(o) /\ Loop(o, "delete", loop[o]) /\ told' = told
           /\ Replaces(loop[o].command)
    BY <1>6 DEF FetchGroove, ApplyCommand, WriteNotes
  <2>2. PICK where \in {"apply", "create", "delete"} :
          /\ \/ Receipt(o)
             \/ Loop(o, where, loop[o]) /\ told' = told /\ pc[o] \in {"fetch", "apply"}
          /\ where = "delete" => Receipt(o) \/ Replaces(loop[o].command)
    BY <2>1 DEF FetchGroove, ApplyCommand
  <2>3. where \in InHand
    BY DEF InHand
  <2>4. /\ TypeOK' /\ HandInv' /\ OthersStay(o) /\ Drops
        /\ \/ pc'[o] = where /\ loop'[o] = loop[o] /\ Loop(o, where, loop[o])
           \/ pc'[o] = "head" /\ Receipt(o)
    BY <1>2, <1>4, <2>2, <2>3, HandStep
  <2>5. CASE Receipt(o)
    <3>1. pc'[o] = "head"
      <4>1. Go(o, "head") /\ "head" \in Stages
        BY <2>5 DEF Receipt, Loop, Stages, Turns
      <4> QED
        BY <4>1, StageGoes
    <3>2. Calm
      <4>1. ASSUME NEW p \in Ops, pc'[p] \in InHand
            PROVE  pc'[p] = pc[p] /\ loop'[p] = loop[p]
        BY <2>4, <3>1, <4>1 DEF OthersStay, InHand
      <4> QED
        BY <1>2, <4>1 DEF Calm
    <3> QED
      BY <2>4, <3>2
  <2>6. CASE ~Receipt(o)
    <3>1. Calm
      <4>1. ASSUME NEW p \in Ops, pc'[p] \in InHand
            PROVE  /\ pc[p] \in InHand /\ loop'[p].command = loop[p].command
                   /\ pc'[p] # "write" => pc[p] # "write"
                   /\ pc'[p] = "delete" => pc[p] = "delete" \/ Replaces(loop[p].command)
        <5>1. CASE p = o
          BY <1>2, <2>2, <2>4, <2>6, <5>1
        <5>2. CASE p # o
          BY <2>4, <4>1, <5>2 DEF OthersStay
        <5> QED
          BY <5>1, <5>2
      <4> QED
        BY <1>2, <4>1 DEF Calm
    <3> QED
      BY <2>4, <3>1
  <2> QED
    BY <2>5, <2>6
<1> QED
  BY <1>5, <1>6

\* The two calls of Live that delete and make the clip.
LEMMA ClipSteps ==
  ASSUME TypeOK, HandInv, NEW o \in Ops, DeleteClip(o) \/ CreateMidiClip(o)
  PROVE  TypeOK' /\ HandInv' /\ ((Drops /\ Calm) \/ Deletes(o) \/ Creates(o))
<1>1. slot \in Clips \ {Unseen} /\ lost \subseteq Commands /\ loop[o].command \in 0..MaxCommands
  BY DEF TypeOK
<1>2. /\ pc[o] \in InHand /\ pc[o] \in Turns \ {"head"} /\ lost' = lost /\ relay' = relay
      /\ pc[o] \in {"delete", "create"}
  BY DEF DeleteClip, CreateMidiClip, InHand, Turns
<1>3. loop[o].command \in Commands
  BY <1>1, <1>2, SomeCommand DEF HandInv, Right
<1>4. \/ Fails(o) /\ slot' = slot /\ applied' = applied /\ deleted' = deleted
      \/ /\ pc[o] = "delete" /\ slot' = Empty /\ deleted' = deleted \cup {loop[o].command}
         /\ Loop(o, "create", loop[o]) /\ told' = told /\ applied' = applied
      \/ /\ pc[o] = "create" /\ slot' = Bare(loop[o].command)
         /\ applied' = [applied EXCEPT ![loop[o].command] = @ + 1]
         /\ Loop(o, "write", loop[o]) /\ told' = told /\ deleted' = deleted
  BY DEF DeleteClip, CreateMidiClip
<1>5. CASE Fails(o) /\ slot' = slot /\ applied' = applied /\ deleted' = deleted
  BY <1>1, <1>2, <1>5, FailureKeeps
<1>6. CASE /\ pc[o] = "delete" /\ slot' = Empty /\ deleted' = deleted \cup {loop[o].command}
           /\ Loop(o, "create", loop[o]) /\ told' = told /\ applied' = applied
  <2>1. slot' \in Clips \ {Unseen} /\ "create" \in InHand
    BY <1>6, ClipsHold DEF InHand
  <2>2. tapped' = tapped
    BY <1>6 DEF Loop, page
  <2>3. Go(o, "create") /\ "create" \in Stages
    BY <1>6 DEF Loop, Stages, Turns
  <2>4. pc'[o] = "create"
    BY <2>3, StageGoes
  <2>5. TypeOK' /\ HandInv' /\ OthersStay(o) /\ loop'[o] = loop[o]
    BY <1>2, <1>6, <2>1, <2>4, HandStep
  <2>6. Deletes(o)
    BY <1>2, <1>6, <2>2, <2>4, <2>5 DEF Deletes
  <2> QED
    BY <2>5, <2>6
<1>7. CASE /\ pc[o] = "create" /\ slot' = Bare(loop[o].command)
           /\ applied' = [applied EXCEPT ![loop[o].command] = @ + 1]
           /\ Loop(o, "write", loop[o]) /\ told' = told /\ deleted' = deleted
  <2>1. slot' \in Clips \ {Unseen} /\ "write" \in InHand
    BY <1>3, <1>7, ClipsHold DEF InHand
  <2>2. tapped' = tapped
    BY <1>7 DEF Loop, page
  <2>3. Go(o, "write") /\ "write" \in Stages
    BY <1>7 DEF Loop, Stages, Turns
  <2>4. pc'[o] = "write"
    BY <2>3, StageGoes
  <2>5. TypeOK' /\ HandInv' /\ OthersStay(o) /\ loop'[o] = loop[o]
    BY <1>2, <1>7, <2>1, <2>4, HandStep
  <2>6. Creates(o)
    BY <1>2, <1>7, <2>2, <2>4, <2>5 DEF Creates
  <2> QED
    BY <2>5, <2>6
<1> QED
  BY <1>4, <1>5, <1>6, <1>7

\* Every step, as far as the commands and the clips are concerned.
LEMMA StepsHandle ==
  ASSUME TypeOK, HandInv, [Next]_vars
  PROVE  /\ TypeOK' /\ HandInv'
         /\ \/ Drops /\ Calm
            \/ \E o \in Ops : Takes(o) \/ Deletes(o) \/ Creates(o)
            \/ \E c \in Commands : Tap(c)
<1>1. CASE UNCHANGED vars
  <2>1. Aside
    BY <1>1 DEF vars, Aside, inv, live, page, log
  <2>2. TypeOK'
    BY <1>1 DEF vars, TypeOK, ext, inv, proc, live, page, log
  <2> QED
    BY <2>1, <2>2, AsideIsCalm
<1>2. CASE Aside /\ TypeOK'
  BY <1>2, AsideIsCalm
<1>3. ASSUME NEW o \in Ops, Session(o) \/ SessionExpires(o)
      PROVE  TypeOK' /\ HandInv' /\ ((Drops /\ Calm) \/ Takes(o) \/ Deletes(o) \/ Creates(o))
  BY <1>3, TurnSteps, TakeSteps, ApplySteps, ClipSteps DEF Session
<1>4. ASSUME NEW o \in Ops, Exits(o) \/ Crashes(o)
      PROVE  TypeOK' /\ HandInv' /\ Drops /\ Calm
  <2>1. relay \in [Ops -> Snapshots]
    BY DEF TypeOK, Snapshots
  <2>2. /\ UNCHANGED <<pc, loop, applied, deleted, told, tapped>>
        /\ relay' = [relay EXCEPT ![o] = NoRelay]
        /\ lost' = lost \cup ({relay[o].command} \ {None})
        /\ TypeOK'
    BY <1>4, ExitSteps
  <2>3. HandInv'
    BY <2>2 DEF HandInv
  <2>4. Drops
    BY <2>1, <2>2 DEF Drops, NoRelay
  <2>5. Calm
    BY <2>2 DEF Calm
  <2> QED
    BY <2>2, <2>3, <2>4, <2>5
<1>5. CASE HostDies
  <2>1. /\ UNCHANGED <<relay, applied, deleted, told, tapped>>
        /\ loop' = [o \in Ops |-> NoLoop] /\ pc' = [o \in Ops |-> "dead"]
        /\ lost' = lost \cup ({loop[o].command : o \in Ops} \ {None})
        /\ TypeOK'
    BY <1>5, HostSteps
  <2>2. HandInv'
    BY <2>1 DEF HandInv, Right, InHand, Turns, NoLoop
  <2>3. Drops
    <3>1. \A o \in Ops : loop[o].command # None => loop[o].command \in lost'
      BY <2>1
    <3> QED
      BY <2>1, <3>1 DEF Drops, NoLoop
  <2>4. Calm
    BY <2>1 DEF Calm, InHand
  <2> QED
    BY <2>1, <2>2, <2>3, <2>4
<1>6. ASSUME NEW c \in Commands, Tap(c) PROVE TypeOK' /\ HandInv'
  <2>1. UNCHANGED <<pc, loop>> /\ TypeOK'
    BY <1>6, TapSteps
  <2> QED
    BY <2>1 DEF HandInv
<1>7. CASE Callback
  BY <1>2, <1>4, <1>7, ActivationSteps, InvocationSteps, EndingSteps DEF Callback
<1>8. CASE Outside
  BY <1>2, <1>3, <1>4, <1>5, <1>6, <1>8, ActivationSteps, InvocationSteps, EndingSteps, PageSteps
     DEF Outside
<1>9. CASE Refresh
  BY <1>2, <1>9, PageSteps
<1> QED
  BY <1>1, <1>3, <1>7, <1>8, <1>9 DEF Next

(*********************** custody *******************************************)
\* A command is in one mailbox or in one hand, and was tapped; taps come in order.
OneHolder ==
  /\ \A o, p \in Ops : relay[o].command # None =>
       /\ loop[p].command # relay[o].command
       /\ p # o => relay[p].command # relay[o].command
  /\ \A o, p \in Ops : loop[o].command # None /\ p # o => loop[p].command # loop[o].command
HeldIsTapped ==
  \A c \in Commands : tapped[c] = Unseen =>
    \A o \in Ops : relay[o].command # c /\ loop[o].command # c
TapsInOrder == \A c, d \in Commands : d < c /\ tapped[c] # Unseen => tapped[d] # Unseen

\* Where a command that was tapped is: in a mailbox, superseded, lost, told or in hand.
Accounted ==
  \A c \in Commands : tapped[c] # Unseen =>
    \/ \E o \in Ops : relay[o].command = c
    \/ \E d \in Commands : d > c /\ tapped[d] # Unseen
    \/ c \in lost \/ c \in told
    \/ \E o \in Ops : loop[o].command = c
CustodyInv == OneHolder /\ HeldIsTapped /\ TapsInOrder /\ Accounted

LEMMA CustodyDrops ==
  ASSUME CustodyInv, Drops
  PROVE  CustodyInv'
<1>1. ASSUME NEW o \in Ops
      PROVE  /\ relay'[o].command \in {relay[o].command, None}
             /\ loop'[o].command \in {loop[o].command, None}
             /\ relay'[o].command # relay[o].command => relay[o].command \in lost'
             /\ loop'[o].command # loop[o].command => loop[o].command \in told' \cup lost'
  BY DEF Drops
<1>2. told \subseteq told' /\ lost \subseteq lost' /\ tapped' = tapped
  BY DEF Drops
<1>3. OneHolder'
  BY <1>1 DEF CustodyInv, OneHolder
<1>4. HeldIsTapped'
  <2>1. None \notin Commands
    BY DEF None, Commands
  <2> QED
    BY <1>1, <1>2, <2>1 DEF CustodyInv, HeldIsTapped
<1>5. TapsInOrder'
  BY <1>2 DEF CustodyInv, TapsInOrder
<1>6. Accounted'
  BY <1>1, <1>2 DEF CustodyInv, Accounted
<1> QED
  BY <1>3, <1>4, <1>5, <1>6 DEF CustodyInv

LEMMA CustodyTakes ==
  ASSUME CustodyInv, NEW o \in Ops, Takes(o)
  PROVE  CustodyInv'
<1>1. /\ relay[o].command # None /\ loop[o].command = None
      /\ relay'[o].command = None /\ loop'[o].command = relay[o].command
      /\ told' = told /\ lost' = lost /\ tapped' = tapped
  BY DEF Takes
<1>2. \A p \in Ops : p # o => loop'[p] = loop[p] /\ relay'[p] = relay[p]
  BY DEF Takes, OthersStay
<1>3. OneHolder'
  BY <1>1, <1>2 DEF CustodyInv, OneHolder
<1>4. HeldIsTapped'
  <2>1. None \notin Commands
    BY DEF None, Commands
  <2> QED
    BY <1>1, <1>2, <2>1 DEF CustodyInv, HeldIsTapped
<1>5. TapsInOrder'
  BY <1>1 DEF CustodyInv, TapsInOrder
<1>6. Accounted'
  BY <1>1, <1>2 DEF CustodyInv, Accounted
<1> QED
  BY <1>3, <1>4, <1>5, <1>6 DEF CustodyInv

LEMMA CustodyTaps ==
  ASSUME TypeOK, CustodyInv, NEW c \in Commands, Tap(c)
  PROVE  CustodyInv'
<1>1. /\ panel.helper \in Ops /\ UNCHANGED <<loop, told, lost>>
      /\ relay' = [relay EXCEPT ![panel.helper].command = c]
      /\ tapped' = [tapped EXCEPT ![c] = panel.shown]
  BY TapSteps
<1>2. /\ tapped[c] = Unseen /\ panel.shown # Unseen
      /\ \A d \in Commands : d < c => tapped[d] # Unseen
  BY DEF Tap
<1>3. relay \in [Ops -> Snapshots] /\ tapped \in [Commands -> Clips] /\ c # None
  BY PanelAssumption DEF TypeOK, Snapshots, Commands, None
<1> DEFINE h == panel.helper
<1>4. /\ relay'[h].command = c /\ tapped'[c] # Unseen
      /\ \A p \in Ops : p # h => relay'[p] = relay[p]
      /\ \A d \in Commands : d # c => tapped'[d] = tapped[d]
  BY <1>1, <1>2, <1>3 DEF Snapshots
<1>5. h \in Ops /\ UNCHANGED <<loop, told, lost>>
  BY <1>1
<1> HIDE DEF h
<1>6. \A p \in Ops : relay[p].command # c /\ loop[p].command # c
  BY <1>2 DEF CustodyInv, HeldIsTapped
<1>7. OneHolder'
  BY <1>3, <1>4, <1>5, <1>6 DEF CustodyInv, OneHolder
<1>8. HeldIsTapped'
  BY <1>4, <1>5 DEF CustodyInv, HeldIsTapped
<1>9. TapsInOrder'
  <2>1. ASSUME NEW e \in Commands, NEW d \in Commands, d < e, tapped'[e] # Unseen
        PROVE  tapped'[d] # Unseen
    <3>1. CASE e = c
      BY <1>2, <1>4, <2>1, <3>1
    <3>2. CASE e # c
      <4>1. tapped[d] # Unseen
        BY <1>4, <2>1, <3>2 DEF CustodyInv, TapsInOrder
      <4> QED
        BY <1>4, <4>1
    <3> QED
      BY <3>1, <3>2
  <2> QED
    BY <2>1 DEF TapsInOrder
<1>10. Accounted'
  <2>1. ASSUME NEW e \in Commands, tapped'[e] # Unseen, e # c
        PROVE  \/ \E p \in Ops : relay'[p].command = e
               \/ \E d \in Commands : d > e /\ tapped'[d] # Unseen
               \/ e \in lost \/ e \in told
               \/ \E p \in Ops : loop[p].command = e
    <3>1. tapped[e] # Unseen
      BY <1>4, <2>1
    <3>2. e < c
      <4>1. ~(c < e)
        BY <1>2, <3>1 DEF CustodyInv, TapsInOrder
      <4> QED
        BY <2>1, <4>1 DEF Commands
    <3>3. c > e
      BY <3>2 DEF Commands
    <3> QED
      BY <1>4, <3>3
  <2>2. ASSUME NEW e \in Commands, e = c
        PROVE  \E p \in Ops : relay'[p].command = e
    BY <1>4, <1>5, <2>2
  <2> QED
    BY <1>5, <2>1, <2>2 DEF Accounted
<1> QED
  BY <1>7, <1>8, <1>9, <1>10 DEF CustodyInv

(*********************** what is made and deleted **************************)
\* A command has made its clip only where it is done, or in hand with the notes to come.
MadeInv ==
  /\ applied \in [Commands -> 0..1]
  /\ \A c \in Commands : tapped[c] = Unseen => applied[c] = 0
  /\ \A o \in Ops : relay[o].command # None => applied[relay[o].command] = 0
  /\ \A o \in Ops : pc[o] \in InHand \ {"write"} => applied[loop[o].command] = 0

\* A clip is deleted for a command that was tapped on a slot shown as filled.
SeenInv ==
  /\ deleted \subseteq Commands
  /\ \A d \in deleted : tapped[d] \notin {Empty, Unseen}
  /\ \A o \in Ops : pc[o] = "delete" => Replaces(loop[o].command)

LEMMA MadeKeeps ==
  ASSUME TypeOK, HandInv, CustodyInv, MadeInv,
         \/ Drops /\ Calm
         \/ \E o \in Ops : Takes(o) \/ Deletes(o) \/ Creates(o)
         \/ \E c \in Commands : Tap(c)
  PROVE  MadeInv'
<1>1. CASE Drops /\ Calm
  <2>1. applied' = applied /\ tapped' = tapped
    BY <1>1 DEF Drops, Calm
  <2>2. \A o \in Ops : relay'[o].command \in {relay[o].command, None}
    BY <1>1 DEF Drops
  <2>3. ASSUME NEW o \in Ops, pc'[o] \in InHand \ {"write"}
        PROVE  pc[o] \in InHand \ {"write"} /\ loop'[o].command = loop[o].command
    BY <1>1, <2>3 DEF Calm
  <2> QED
    BY <2>1, <2>2, <2>3 DEF MadeInv
<1>2. ASSUME NEW o \in Ops, Takes(o) PROVE MadeInv'
  <2>1. /\ relay[o].command # None /\ relay'[o].command = None /\ loop'[o].command = relay[o].command
        /\ applied' = applied /\ tapped' = tapped
        /\ \A p \in Ops : p # o => pc'[p] = pc[p] /\ loop'[p] = loop[p] /\ relay'[p] = relay[p]
    BY <1>2 DEF Takes, OthersStay
  <2> QED
    BY <2>1 DEF MadeInv
<1>3. ASSUME NEW o \in Ops, Deletes(o) PROVE MadeInv'
  <2>1. /\ pc[o] = "delete" /\ loop'[o] = loop[o] /\ relay'[o] = relay[o]
        /\ applied' = applied /\ tapped' = tapped
        /\ \A p \in Ops : p # o => pc'[p] = pc[p] /\ loop'[p] = loop[p] /\ relay'[p] = relay[p]
    BY <1>3 DEF Deletes, OthersStay
  <2> QED
    BY <2>1 DEF MadeInv, InHand
<1>4. ASSUME NEW o \in Ops, Creates(o) PROVE MadeInv'
  <2> DEFINE c == loop[o].command
  <2>1. /\ pc[o] = "create" /\ pc'[o] = "write" /\ loop'[o] = loop[o] /\ relay'[o] = relay[o]
        /\ applied' = [applied EXCEPT ![c] = @ + 1] /\ tapped' = tapped
        /\ \A p \in Ops : p # o => pc'[p] = pc[p] /\ loop'[p] = loop[p] /\ relay'[p] = relay[p]
    BY <1>4 DEF Creates, OthersStay
  <2>2. c # None
    BY <2>1 DEF HandInv, Right, InHand
  <2>3. c \in Commands
    BY <2>2, SomeCommand DEF TypeOK
  <2>4. applied[c] = 0
    BY <2>1 DEF MadeInv, InHand
  <2>5. /\ \A p \in Ops : relay[p].command # c
        /\ \A p \in Ops : p # o => loop[p].command # c
    BY <2>2 DEF CustodyInv, OneHolder
  <2>6. tapped[c] # Unseen
    BY <2>3 DEF CustodyInv, HeldIsTapped
  <2>7. \A p \in Ops : relay[p].command # None => relay[p].command \in Commands
    BY SomeCommand DEF TypeOK
  <2>8. \A p \in Ops : pc[p] \in InHand => loop[p].command \in Commands
    BY SomeCommand DEF TypeOK, HandInv, Right
  <2> HIDE DEF c
  <2>9. /\ applied' \in [Commands -> 0..1]
        /\ \A d \in Commands : d # c => applied'[d] = applied[d]
    BY <2>1, <2>3, <2>4 DEF MadeInv
  <2>10. \A p \in Ops : pc'[p] \in InHand \ {"write"} => applied'[loop'[p].command] = 0
    BY <2>1, <2>5, <2>8, <2>9 DEF MadeInv
  <2>11. \A p \in Ops : relay'[p].command # None => applied'[relay'[p].command] = 0
    BY <2>1, <2>5, <2>7, <2>9 DEF MadeInv
  <2>12. \A d \in Commands : tapped'[d] = Unseen => applied'[d] = 0
    BY <2>1, <2>6, <2>9 DEF MadeInv
  <2> QED
    BY <2>9, <2>10, <2>11, <2>12 DEF MadeInv
<1>5. ASSUME NEW c \in Commands, Tap(c) PROVE MadeInv'
  <2>1. /\ panel.helper \in Ops /\ UNCHANGED <<pc, loop, applied>>
        /\ relay' = [relay EXCEPT ![panel.helper].command = c]
        /\ tapped' = [tapped EXCEPT ![c] = panel.shown]
    BY <1>5, TapSteps
  <2>2. tapped[c] = Unseen /\ panel.shown # Unseen
    BY <1>5 DEF Tap
  <2>3. relay \in [Ops -> Snapshots] /\ tapped \in [Commands -> Clips]
    BY DEF TypeOK, Snapshots
  <2>4. \A p \in Ops : relay'[p].command \in {relay[p].command, c}
    BY <2>1, <2>3 DEF Snapshots
  <2>5. \A d \in Commands : tapped'[d] = Unseen => tapped[d] = Unseen
    BY <2>1, <2>2, <2>3
  <2>6. applied[c] = 0
    BY <2>2 DEF MadeInv
  <2> QED
    BY <2>1, <2>4, <2>5, <2>6 DEF MadeInv
<1> QED
  BY <1>1, <1>2, <1>3, <1>4, <1>5

LEMMA SeenKeeps ==
  ASSUME TypeOK, HandInv, CustodyInv, SeenInv,
         \/ Drops /\ Calm
         \/ \E o \in Ops : Takes(o) \/ Deletes(o) \/ Creates(o)
         \/ \E c \in Commands : Tap(c)
  PROVE  SeenInv'
<1> USE DEF Replaces
<1>1. CASE Drops /\ Calm
  <2>1. deleted' = deleted /\ tapped' = tapped
    BY <1>1 DEF Drops, Calm
  <2>2. ASSUME NEW o \in Ops, pc'[o] = "delete"
        PROVE  Replaces(loop'[o].command)
    <3>1. /\ loop'[o].command = loop[o].command
          /\ pc[o] = "delete" \/ Replaces(loop[o].command)
      BY <1>1, <2>2 DEF Calm, InHand
    <3> QED
      BY <3>1 DEF SeenInv
  <2> QED
    BY <2>1, <2>2 DEF SeenInv
<1>2. ASSUME NEW o \in Ops, Takes(o) \/ Creates(o) PROVE SeenInv'
  <2>1. /\ pc'[o] # "delete" /\ deleted' = deleted /\ tapped' = tapped
        /\ \A p \in Ops : p # o => pc'[p] = pc[p] /\ loop'[p] = loop[p]
    BY <1>2 DEF Takes, Creates, OthersStay
  <2> QED
    BY <2>1 DEF SeenInv
<1>3. ASSUME NEW o \in Ops, Deletes(o) PROVE SeenInv'
  <2>1. /\ pc[o] = "delete" /\ pc'[o] = "create" /\ tapped' = tapped
        /\ deleted' = deleted \cup {loop[o].command}
        /\ \A p \in Ops : p # o => pc'[p] = pc[p] /\ loop'[p] = loop[p]
    BY <1>3 DEF Deletes, OthersStay
  <2>2. loop[o].command \in Commands
    BY <2>1, SomeCommand DEF TypeOK, HandInv, Right, InHand
  <2>3. tapped[loop[o].command] \notin {Empty, Unseen}
    BY <2>1, <2>2 DEF SeenInv, CustodyInv, HeldIsTapped
  <2> QED
    BY <2>1, <2>2, <2>3 DEF SeenInv
<1>4. ASSUME NEW c \in Commands, Tap(c) PROVE SeenInv'
  <2>1. UNCHANGED <<pc, loop, deleted>> /\ tapped' = [tapped EXCEPT ![c] = panel.shown]
    BY <1>4, TapSteps
  <2>2. tapped[c] = Unseen
    BY <1>4 DEF Tap
  <2>3. tapped \in [Commands -> Clips]
    BY DEF TypeOK
  <2>4. c \notin deleted
    BY <2>2 DEF SeenInv
  <2>5. \A p \in Ops : pc[p] = "delete" => loop[p].command \in Commands /\ loop[p].command # c
    BY <2>2, SomeCommand DEF TypeOK, HandInv, Right, InHand, CustodyInv, HeldIsTapped
  <2>6. \A d \in Commands : d # c => tapped'[d] = tapped[d]
    BY <2>1, <2>3
  <2> QED
    BY <2>1, <2>4, <2>5, <2>6 DEF SeenInv
<1> QED
  BY <1>1, <1>2, <1>3, <1>4

(*********************** the theorems **************************************)
PanelInv == TypeOK /\ HandInv /\ CustodyInv /\ MadeInv /\ SeenInv

LEMMA PanelInvInit == Init => PanelInv
<1> SUFFICES ASSUME Init PROVE PanelInv
  OBVIOUS
<1>1. TypeOK
  <2>1. slot \in Clips \ {Unseen}
    BY ClipsHold DEF Init
  <2>2. relay \in [Ops -> Snapshots] /\ loop \in [Ops -> Loops]
    BY NothingHeld DEF Init
  <2>3. panel \in [helper : 0..MaxOps, shown : Clips] /\ tapped \in [Commands -> Clips]
    BY ClipsHold, PanelAssumption DEF Init, None
  <2>4. pc \in [Ops -> Stages]
    BY DEF Init, Stages
  <2>5. closing \in [Activations -> Open..MaxOps]
    BY PanelAssumption DEF Init, Open
  <2> QED
    BY <2>1, <2>2, <2>3, <2>4, <2>5, PanelAssumption DEF Init, TypeOK, Snapshots, Loops, None
<1>2. HandInv
  BY DEF Init, HandInv, Right, InHand, Turns, NoLoop
<1>3. None \notin Commands
  BY DEF None, Commands
<1>4. CustodyInv
  BY <1>3 DEF Init, CustodyInv, OneHolder, HeldIsTapped, TapsInOrder, Accounted, NoRelay, NoLoop
<1>5. MadeInv /\ SeenInv
  BY DEF Init, MadeInv, SeenInv, InHand, NoRelay
<1> QED
  BY <1>1, <1>2, <1>4, <1>5 DEF PanelInv

LEMMA PanelInvNext == PanelInv /\ [Next]_vars => PanelInv'
<1> SUFFICES ASSUME PanelInv, [Next]_vars PROVE PanelInv'
  OBVIOUS
<1>1. TypeOK /\ HandInv /\ CustodyInv /\ MadeInv /\ SeenInv
  BY DEF PanelInv
<1>2. /\ TypeOK' /\ HandInv'
      /\ \/ Drops /\ Calm
         \/ \E o \in Ops : Takes(o) \/ Deletes(o) \/ Creates(o)
         \/ \E c \in Commands : Tap(c)
  BY <1>1, StepsHandle
<1>3. CustodyInv'
  <2>1. ASSUME NEW o \in Ops, Deletes(o) \/ Creates(o) PROVE Drops
    BY <2>1 DEF Deletes, Creates, OthersStay, Drops
  <2> QED
    BY <1>1, <1>2, <2>1, CustodyDrops, CustodyTakes, CustodyTaps
<1>4. MadeInv' /\ SeenInv'
  BY <1>1, <1>2, MadeKeeps, SeenKeeps
<1> QED
  BY <1>2, <1>3, <1>4 DEF PanelInv

\* Variables keep their ranges: no run of failures exceeds its limit, an operation belongs
\* to an activation, and the host never has an activation that it did not begin.
THEOREM TypeCorrect == Spec => []TypeOK
<1>1. PanelInv => TypeOK
  BY DEF PanelInv
<1> QED
  BY <1>1, PanelInvInit, PanelInvNext, PTL DEF Spec

\* A command makes at most one clip, whichever requests, helpers and hosts fail, and
\* however many sessions there are: it is taken from the mailbox, not read there.
\* (server.rs, take_command; session-loop.ts)
THEOREM AppliesOnce == Spec => []AppliedOnce
<1>1. PanelInv => AppliedOnce
  BY DEF PanelInv, MadeInv, AppliedOnce
<1> QED
  BY <1>1, PanelInvInit, PanelInvNext, PTL DEF Spec

\* A clip is deleted only for a command that was tapped on a slot shown as filled, whatever
\* the user has put there since. (picker.js; session-writer.ts, applyCommand)
THEOREM OverwritesOnlyTheSeen == Spec => []NoUnseenOverwrite
<1>1. PanelInv => NoUnseenOverwrite
  BY DEF PanelInv, SeenInv, NoUnseenOverwrite
<1> QED
  BY <1>1, PanelInvInit, PanelInvNext, PTL DEF Spec

\* A command that was taken is in hand, has its receipt or its report, or was lost with the
\* answer that carried it, its helper or the host; a run of failures hides none of the reports.
\* (session-loop.ts, serveSession)
THEOREM TakenIsAnswered == Spec => []TakenIsTold
<1>1. PanelInv => TakenIsTold
  BY DEF PanelInv, CustodyInv, Accounted, TakenIsTold, Taken, Superseded
<1> QED
  BY <1>1, PanelInvInit, PanelInvNext, PTL DEF Spec

(*********************** cancellation **************************************)
\* An invocation that is not yet with the phone: it has an activation, and once that is
\* over, it is cancelled, or another operation has taken it.
Opening == {"starting", "health", "modal"}
OpeningInv ==
  \A o \in Ops : pc[o] \in Opening =>
    of[o] # None /\ (lifecycle # of[o] => cancelled[o] \/ activeInvocation # o)

\* Whatever leaves activations and invocations alone, and opens nothing.
Passes ==
  /\ UNCHANGED <<lifecycle, of, cancelled, activeInvocation>>
  /\ \A o \in Ops : pc'[o] \in Opening => pc[o] \in Opening

LEMMA GoPasses ==
  ASSUME TypeOK, NEW o \in Ops, NEW where, Go(o, where), where \in Opening => pc[o] \in Opening,
         UNCHANGED <<lifecycle, of, cancelled, activeInvocation>>
  PROVE  Passes
BY DEF Go, TypeOK, Passes

LEMMA LoopPasses ==
  ASSUME TypeOK, NEW o \in Ops, NEW where \in Turns \cup {"release"}, NEW l, Loop(o, where, l)
  PROVE  Passes
BY GoPasses DEF Loop, ext, Opening, Turns

LEMMA SessionPasses ==
  ASSUME TypeOK, NEW o \in Ops, Session(o) \/ SessionExpires(o)
  PROVE  Passes
<1>1. CASE Fails(o) \/ Receipt(o)
  BY <1>1, LoopPasses DEF Fails, Receipt, Turns
<1>2. CASE Turn(o) \/ SessionExpires(o)
  BY <1>2, LoopPasses DEF Turn, SessionExpires, Turns
<1>3. CASE PublishSnapshot(o) \/ FetchGroove(o)
  BY <1>1, <1>3, LoopPasses DEF PublishSnapshot, FetchGroove, Turns
<1>4. CASE TakeCommand(o) /\ ~Fails(o)
  <2>1. PICK where \in {"head", "fetch"} : \E l : Loop(o, where, l)
    BY <1>4 DEF TakeCommand
  <2>2. PICK l : Loop(o, where, l)
    BY <2>1
  <2> QED
    BY <2>2, LoopPasses DEF Turns
<1>5. CASE ApplyCommand(o)
  <2>1. Receipt(o) \/ \E where \in {"create", "delete"} : Loop(o, where, loop[o])
    BY <1>5 DEF ApplyCommand
  <2> QED
    BY <1>1, <2>1, LoopPasses DEF Turns
<1>6. CASE DeleteClip(o) \/ CreateMidiClip(o) \/ WriteNotes(o)
  BY <1>1, <1>6, LoopPasses DEF DeleteClip, CreateMidiClip, WriteNotes, Turns
<1> QED
  BY <1>1, <1>2, <1>3, <1>4, <1>5, <1>6 DEF Session

LEMMA OpeningInit == Init => OpeningInv
BY DEF Init, OpeningInv, Opening

LEMMA OpeningNext == TypeOK /\ OpeningInv /\ [Next]_vars => OpeningInv'
<1> SUFFICES ASSUME TypeOK, OpeningInv, [Next]_vars PROVE OpeningInv'
  OBVIOUS
<1>1. CASE Passes
  BY <1>1 DEF Passes, OpeningInv
<1>2. CASE UNCHANGED vars
  BY <1>1, <1>2 DEF vars, ext, inv, Passes
<1>3. CASE Activate
  <2>1. UNCHANGED <<pc, of, cancelled, activeInvocation>> /\ lifecycle = None
    BY <1>3 DEF Activate, inv
  <2> QED
    BY <2>1 DEF OpeningInv
<1>4. CASE Deactivate
  <2>1. /\ UNCHANGED <<pc, of, activeInvocation>>
        /\ cancelled' = [o \in Ops |-> cancelled[o] \/ o = activeInvocation]
    BY <1>4 DEF Deactivate
  <2>2. ASSUME NEW o \in Ops, activeInvocation = o PROVE cancelled'[o]
    BY <2>1, <2>2, Zenon
  <2> QED
    BY <2>1, <2>2 DEF OpeningInv
<1>5. ASSUME NEW a \in Activations, NEW o \in Ops, OpenModal(a, o) PROVE OpeningInv'
  <2>1. /\ UNCHANGED <<lifecycle, cancelled>> /\ lifecycle = a
        /\ of' = [of EXCEPT ![o] = a]
    BY <1>5 DEF OpenModal
  <2>2. \/ Go(o, "release") /\ activeInvocation' = activeInvocation
        \/ Go(o, "starting") /\ activeInvocation = None /\ activeInvocation' = o
    BY <1>5 DEF OpenModal
  <2>3. /\ pc \in [Ops -> Stages] /\ of \in [Ops -> 0..MaxActivations]
    BY DEF TypeOK
  <2>4. None \notin Ops /\ a # None
    BY DEF Ops, None, Activations
  <2>5. ASSUME NEW p \in Ops, pc'[p] \in Opening
        PROVE  of'[p] # None /\ (lifecycle' # of'[p] => cancelled'[p] \/ activeInvocation' # p)
    <3>1. CASE p = o
      BY <2>1, <2>3, <2>4, <3>1
    <3>2. CASE p # o
      <4>1. pc'[p] = pc[p] /\ of'[p] = of[p]
        BY <2>1, <2>2, <2>3, <3>2 DEF Go
      <4>2. activeInvocation' # p \/ activeInvocation' = activeInvocation
        BY <2>2, <3>2
      <4> QED
        BY <2>1, <2>5, <4>1, <4>2 DEF OpeningInv
    <3> QED
      BY <3>1, <3>2
  <2> QED
    BY <2>5 DEF OpeningInv
<1>6. ASSUME NEW a \in Activations,
             Registered(a) \/ RegistrationFails(a) \/ Unregister(a) \/ ShutdownEnds(a)
      PROVE  OpeningInv'
  <2>1. UNCHANGED <<lifecycle, activeInvocation, inv>>
    BY <1>6 DEF Registered, RegistrationFails, Unregister, ShutdownEnds, Menu
  <2> QED
    BY <1>1, <2>1 DEF inv, Passes
<1>7. ASSUME NEW o \in Ops, Started(o) \/ StartFails(o) \/ AssertHealthy(o) \/ CloseModal(o)
      PROVE  OpeningInv'
  <2>1. UNCHANGED <<lifecycle, of, cancelled, activeInvocation>> /\ pc[o] \in Opening
    BY <1>7 DEF Started, StartFails, AssertHealthy, CloseModal, Moves, ext, Opening
  <2>2. \E where : Go(o, where)
    BY <1>7 DEF Started, StartFails, AssertHealthy, CloseModal, Moves
  <2> QED
    BY <1>1, <2>1, <2>2, GoPasses
<1>8. ASSUME NEW o \in Ops, Release(o) PROVE OpeningInv'
  <2>1. UNCHANGED <<lifecycle, of, cancelled>> /\ activeInvocation' = None
    BY <1>8 DEF Release
  <2>2. PICK where \in {"leaving", "releasing", "release", "done"} : Go(o, where)
    BY <1>8 DEF Release
  <2>3. where \in Stages \ Opening
    BY DEF Stages, Opening
  <2>4. \A p \in Ops : pc'[p] \in Opening => pc[p] \in Opening
    BY <2>2, <2>3, StageGoes
  <2>5. None \notin Ops
    BY DEF Ops, None
  <2> QED
    BY <2>1, <2>4, <2>5 DEF OpeningInv
<1>9. ASSUME NEW o \in Ops,
             ReleaseEnds(o) \/ AskToStop(o) \/ StopFails(o) \/ BecomesReady(o) \/ Exits(o) \/ Crashes(o)
      PROVE  OpeningInv'
  <2>1. UNCHANGED <<lifecycle, of, cancelled, activeInvocation>>
    BY <1>9 DEF ReleaseEnds, AskToStop, StopFails, BecomesReady, Exits, Crashes, Exit, ext, inv
  <2>2. CASE ReleaseEnds(o)
    <3>1. PICK where \in {"release", "done"} : Go(o, where)
      BY <2>2 DEF ReleaseEnds
    <3> QED
      BY <1>1, <2>1, <3>1, GoPasses DEF Opening
  <2>3. CASE StopFails(o)
    <3>1. \A p \in Ops : pc'[p] \in {pc[p], "release", "done"}
      BY <2>3 DEF StopFails
    <3> QED
      BY <1>1, <2>1, <3>1 DEF Passes, Opening
  <2>4. CASE AskToStop(o) \/ BecomesReady(o) \/ Exits(o) \/ Crashes(o)
    <3>1. pc' = pc
      BY <2>4 DEF AskToStop, BecomesReady, Exits, Crashes, Exit, inv
    <3> QED
      BY <1>1, <2>1, <3>1 DEF Passes
  <2> QED
    BY <1>9, <2>2, <2>3, <2>4
<1>10. CASE Refresh \/ PageFails \/ UserEdits \/ \E c \in Commands : Tap(c)
  <2>1. UNCHANGED <<ext, inv>>
    BY <1>10 DEF Refresh, PageFails, UserEdits, Tap, Page
  <2> QED
    BY <1>1, <2>1 DEF ext, inv, Passes
<1>11. CASE HostDies
  BY <1>11 DEF HostDies, OpeningInv, Opening
<1>12. ASSUME NEW o \in Ops, Session(o) \/ SessionExpires(o) PROVE OpeningInv'
  BY <1>1, <1>12, SessionPasses
<1> QED
  BY <1>2, <1>3, <1>4, <1>5, <1>6, <1>7, <1>8, <1>9, <1>10, <1>11, <1>12 DEF Next, Callback, Outside

\* An invocation whose activation is over does not reach the phone unmarked, although
\* activeInvocation is shared by the activations: it is cancelled, or an operation has taken
\* it to stop its helper. (actions.ts; extension.ts, deactivate)
THEOREM NoInactiveHandOver == Spec => []InactiveIsCancelled
<1>1. OpeningInv => InactiveIsCancelled
  BY DEF OpeningInv, Opening, InactiveIsCancelled
<1>2. PanelInv => TypeOK
  BY DEF PanelInv
<1> QED
  BY <1>1, <1>2, PanelInvInit, PanelInvNext, OpeningInit, OpeningNext, PTL DEF Spec
==============================================================================
