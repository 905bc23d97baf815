----------------------------- MODULE GrooveApply ------------------------------
(***************************************************************************)
(* groove_apply in commit mode, from the tool call to its receipt          *)
(* (groove_intelligence/apply.py): the capability of the Remote Script,    *)
(* fetched and cached under the connection's epoch (client.py), the batch  *)
(* of create_clip and add_notes_to_clip sent at that epoch, and the        *)
(* receipt drawn from the answer. Live's thread is that of Dispatch, so    *)
(* receipts are compared with what the batches have written.               *)
(*                                                                         *)
(* FastMCP runs synchronous tools in threads: several apply calls share    *)
(* the client. Live may be restarted with another Remote Script.           *)
(***************************************************************************)
EXTENDS Dispatch

CONSTANTS
  Appliers,     \* groove_apply calls, each in a thread of its own
  SlotOf,       \* the slot that each asks for
  MaxEpoch,     \* bound: connections made and closed
  MaxRestarts   \* bound: restarts of Live

\* What a Remote Script says of run_batch_preconditions: "v1", or nothing of it.
Scripts == {"v1", "older"}

\* The batch of an applier. An older script does not look at its preconditions.
BatchFor(a, sc) ==
  [batch |-> TRUE, pre |-> IF sc = "v1" THEN {SlotOf[a]} ELSE {},
   commands |-> <<[name |-> "create_clip", arg |-> SlotOf[a], dry |-> "no"],
                  [name |-> "add_notes_to_clip", arg |-> SlotOf[a], dry |-> "no"]>>]

ASSUME GrooveAssumption ==
  /\ SlotOf \in [Appliers -> Slots]
  /\ MaxEpoch \in Nat /\ MaxRestarts \in Nat
  /\ None \notin Appliers
  /\ \A a \in Appliers, sc \in Scripts : BatchFor(a, sc) \in Inputs

VARIABLES
  pc,         \* per applier: where it is in apply_artifact
  snap,       \* per applier: the epoch of its capability snapshot
  receipt,    \* per applier: the state of its receipt
  stage,      \* per applier: the bridge_stage of its receipt
  \* the client
  lock,       \* the applier that holds _lock
  epoch,      \* _connection_epoch
  connected,  \* _connected
  cache,      \* per epoch: a capability snapshot is cached for it
  \* the connection and Live
  alive,      \* the connection leads to the Live that runs
  script,     \* the Remote Script that runs
  queue,      \* appliers whose batches are queued
  served,     \* appliers whose batches have been taken, in that order
  sentTo,     \* history, per applier: the script that its batch was sent to
  restarts

client == <<pc, snap, receipt, stage, lock, epoch, connected, cache>>
bridge == <<alive, script, queue, served, sentTo, restarts>>
allVars == <<vars, client, bridge>>

GrooveTypeOK ==
  /\ pc \in [Appliers -> {"idle", "status", "fetch", "fetching", "stamp", "snapshot",
                          "call", "await", "done"}]
  /\ snap \in [Appliers -> 0..MaxEpoch]
  /\ receipt \in [Appliers -> {"none", "preview", "rejected", "committed", "partial", "unknown"}]
  /\ stage \in [Appliers -> {"none", "capability", "epoch", "precondition", "batch",
                             "transport_after_send"}]
  /\ lock \in Appliers \cup {None}
  /\ epoch \in 0..MaxEpoch /\ connected = (epoch % 2 = 1)
  /\ cache \in [0..MaxEpoch -> BOOLEAN]
  /\ alive \in BOOLEAN /\ script \in Scripts
  /\ queue \in Seq(Appliers) /\ served \in Seq(Appliers)
  /\ sentTo \in [Appliers -> Scripts \cup {None}]
  /\ restarts \in 0..MaxRestarts
------------------------------------------------------------------------------
GrooveInit ==
  /\ Init
  /\ pc = [a \in Appliers |-> "idle"]
  /\ snap = [a \in Appliers |-> 0]
  /\ receipt = [a \in Appliers |-> "none"]
  /\ stage = [a \in Appliers |-> "none"]
  /\ lock = None /\ epoch = 0 /\ connected = FALSE
  /\ cache = [e \in 0..MaxEpoch |-> FALSE]
  /\ alive = TRUE /\ script \in Scripts
  /\ queue = <<>> /\ served = <<>>
  /\ sentTo = [a \in Appliers |-> None]
  /\ restarts = 0

(*************************** apply_artifact ********************************)
GoTo(a, where) == pc' = [pc EXCEPT ![a] = where]
Return(a, state, where) ==
  /\ receipt' = [receipt EXCEPT ![a] = state]
  /\ stage' = [stage EXCEPT ![a] = where]
  /\ GoTo(a, "done")

\* Unknown artifact, mapping gate, occupied slot expected, or a preview: no call.
Begin(a) ==
  /\ pc[a] = "idle"
  /\ \/ \E state \in {"rejected", "preview"} : Return(a, state, "none")
     \/ GoTo(a, "status") /\ UNCHANGED <<receipt, stage>>
  /\ UNCHANGED <<snap, lock, epoch, connected, cache, bridge, vars>>

\* get_capability_snapshot: cached for the present epoch, and not older than 5 s.
MayBeFresh == connected /\ cache[epoch]

\* get_capability_status: a fresh snapshot, or else get_session_info is called.
Status(a) ==
  /\ pc[a] = "status"
  /\ \/ MayBeFresh /\ GoTo(a, "snapshot")
     \/ GoTo(a, "fetch")
  /\ UNCHANGED <<snap, receipt, stage, lock, epoch, connected, cache, bridge, vars>>

FetchBegins(a) ==
  /\ pc[a] = "fetch" /\ lock = None
  /\ lock' = a
  /\ GoTo(a, "fetching")
  /\ UNCHANGED <<snap, receipt, stage, epoch, connected, cache, bridge, vars>>

Connect(a) ==
  /\ pc[a] = "fetching" /\ ~connected /\ epoch < MaxEpoch
  /\ connected' = TRUE /\ alive' = TRUE /\ epoch' = epoch + 1
  /\ UNCHANGED <<pc, snap, receipt, stage, lock, cache, script, queue, served, sentTo, restarts, vars>>

\* _close_locked(increment=True)
Disconnected ==
  /\ connected' = FALSE
  /\ epoch' = IF connected THEN epoch + 1 ELSE epoch

\* The connection turns out to be dead: the read is retried on a new one.
FetchBreaks(a) ==
  /\ pc[a] = "fetching" /\ connected /\ ~alive /\ epoch < MaxEpoch
  /\ Disconnected
  /\ UNCHANGED <<pc, snap, receipt, stage, lock, cache, bridge, vars>>

\* The script answers: with the capability, or without it.
FetchAnswered(a) ==
  /\ pc[a] = "fetching" /\ connected /\ alive
  /\ lock' = None
  /\ IF script = "v1"
     THEN GoTo(a, "stamp") /\ UNCHANGED <<receipt, stage>>
     ELSE Return(a, "rejected", "capability")
  /\ UNCHANGED <<snap, epoch, connected, cache, bridge, vars>>

\* A deadline, or no retry is left.
FetchFails(a) ==
  /\ pc[a] = "fetching" /\ (connected => epoch < MaxEpoch)
  /\ Disconnected
  /\ lock' = None
  /\ Return(a, "rejected", "capability")
  /\ UNCHANGED <<snap, cache, bridge, vars>>

\* The contract is cached under the epoch of now, read without the lock.
Stamp(a) ==
  /\ pc[a] = "stamp"
  /\ cache' = [cache EXCEPT ![epoch] = TRUE]
  /\ GoTo(a, "snapshot")
  /\ UNCHANGED <<snap, receipt, stage, lock, epoch, connected, bridge, vars>>

\* require_fresh_preconditions_capability
Snapshot(a) ==
  /\ pc[a] = "snapshot"
  /\ \/ /\ MayBeFresh
        /\ snap' = [snap EXCEPT ![a] = epoch]
        /\ GoTo(a, "call")
        /\ UNCHANGED <<receipt, stage>>
     \/ Return(a, "rejected", "capability") /\ UNCHANGED snap
  /\ UNCHANGED <<lock, epoch, connected, cache, bridge, vars>>

\* call_at_epoch sends the batch on the connection of the snapshot, or not at all;
\* what is sent to a Live that is gone is lost.
Call(a) ==
  /\ pc[a] = "call" /\ lock = None
  /\ IF ~connected \/ epoch # snap[a]
     THEN Return(a, "rejected", "epoch") /\ UNCHANGED <<lock, queue, sentTo>>
     ELSE /\ lock' = a
          /\ GoTo(a, "await")
          /\ queue' = IF alive THEN Append(queue, a) ELSE queue
          /\ sentTo' = IF alive THEN [sentTo EXCEPT ![a] = script] ELSE sentTo
          /\ UNCHANGED <<receipt, stage>>
  /\ UNCHANGED <<snap, epoch, connected, cache, alive, script, served, restarts, vars>>

RepliesTo(a) == {rep \in replies : served[rep.no] = a}

\* Mutant: a batch that was aborted is partial, wherever.
ReceiptsOfAborted(rep) ==
  IF rep.refused
  THEN {<<"rejected", "precondition">>}
  ELSE IF rep.results[Len(rep.results)] # "ok"
       THEN {<<"partial", "batch">>}
       ELSE {<<"committed", "batch">>}

\* Mutant: what is no refusal is committed.
ReceiptsOfCounted(rep) ==
  IF rep.refused THEN {<<"rejected", "precondition">>} ELSE {<<"committed", "batch">>}

\* _receipt_from_bridge: a batch that was refused before it began (for want of undo
\* steps, in an error envelope), one that failed at its second command, and all others.
ReceiptsOf(rep) ==
  IF rep.refused
  THEN {"rejected"} \X ({"precondition"} \cup IF hasUndo THEN {} ELSE {"batch"})
  ELSE IF Len(rep.results) = 2 /\ rep.results[2] # "ok"
       THEN {<<"partial", "batch">>}
       ELSE {<<"committed", "batch">>}

Answered(a) ==
  /\ pc[a] = "await" /\ connected /\ alive
  /\ \E rep \in RepliesTo(a) : \E r \in ReceiptsOf(rep) : Return(a, r[1], r[2])
  /\ lock' = None
  /\ UNCHANGED <<snap, epoch, connected, cache, bridge, vars>>

\* The socket thread has waited long enough: TIMEOUT is an error envelope like any.
TimedOut(a) ==
  /\ pc[a] = "await" /\ connected /\ alive /\ RepliesTo(a) = {}
  /\ Return(a, "rejected", "batch")
  /\ lock' = None
  /\ UNCHANGED <<snap, epoch, connected, cache, bridge, vars>>

\* Mutant: a transport failure counts as a refusal by the epoch.
AmbiguousRejected(a) ==
  /\ pc[a] = "await" /\ epoch < MaxEpoch
  /\ Disconnected
  /\ Return(a, "rejected", "epoch")
  /\ lock' = None
  /\ UNCHANGED <<snap, cache, bridge, vars>>

\* The client's own deadline, or a dead connection: nobody knows.
Ambiguous(a) ==
  /\ pc[a] = "await" /\ epoch < MaxEpoch
  /\ Disconnected
  /\ Return(a, "unknown", "transport_after_send")
  /\ lock' = None
  /\ UNCHANGED <<snap, cache, bridge, vars>>

(*************************** Live ******************************************)
TakeBatch ==
  /\ queue # <<>>
  /\ Take(BatchFor(Head(queue), script))
  /\ queue' = Tail(queue)
  /\ served' = Append(served, Head(queue))
  /\ UNCHANGED <<client, alive, script, sentTo, restarts>>

LiveStep ==
  /\ \/ TickBegins \/ TickEnds
     \/ CreateClip \/ AddNotes \/ LiveRaises
     \/ UserEdit
  /\ UNCHANGED <<client, bridge>>

\* Live ends, with what it was doing and what was queued, and another one starts;
\* the Set is the same as far as it goes.
Restart ==
  /\ restarts < MaxRestarts
  /\ restarts' = restarts + 1
  /\ script' \in Scripts
  /\ alive' = FALSE /\ queue' = <<>>
  /\ inTick' = FALSE /\ active' = None /\ at' = 0 /\ attempt' = 0 /\ undo' = 0
  /\ UNCHANGED <<client, served, sentTo, hasUndo, taken, results, replies, writes, set, edits>>

ApplyStep(a) ==
  \/ Status(a) \/ FetchBegins(a) \/ Connect(a) \/ FetchBreaks(a) \/ FetchAnswered(a)
  \/ FetchFails(a) \/ Stamp(a) \/ Snapshot(a) \/ Call(a) \/ Answered(a) \/ TimedOut(a)
  \/ Ambiguous(a)

GrooveNext ==
  \/ \E a \in Appliers : Begin(a) \/ ApplyStep(a)
  \/ TakeBatch \/ LiveStep \/ Restart

GrooveSpec == GrooveInit /\ [][GrooveNext]_allVars
------------------------------------------------------------------------------
\* What the batch of an applier has written: its clip, its notes.
Wrote(a, i) == \E w \in writes : w.index = i /\ served[w.req] = a
\* A batch that may still write.
Pending(a) ==
  \/ \E i \in DOMAIN queue : queue[i] = a
  \/ active # None /\ served[taken] = a

\* A receipt that sends nobody to inspect Live is final: what was refused before the
\* batch began has written nothing and never will. (TOOL_REFERENCE.md, groove_apply)
RefusedIsFinal ==
  \A a \in Appliers : receipt[a] = "rejected" /\ stage[a] # "batch" =>
    ~Pending(a) /\ \A i \in 1..2 : ~Wrote(a, i)

\* A partial receipt names a clip that was made and has no notes of this groove.
PartialIsAClip ==
  \A a \in Appliers : receipt[a] = "partial" => Wrote(a, 1) /\ ~Wrote(a, 2) /\ ~Pending(a)

\* A committed receipt of the script whose capability was required tells of notes in
\* the clip of this groove, on a MIDI track and unless Live raised an exception at
\* the first command. (apply.py, _receipt_from_bridge)
CommittedIsWritten ==
  \A a \in Appliers :
    receipt[a] = "committed" /\ SlotOf[a] \in MidiSlots /\ sentTo[a] = "v1"
      /\ (\A rep \in RepliesTo(a) : rep.results # <<"exception">>)
    => Wrote(a, 1) /\ Wrote(a, 2) /\ ~Pending(a)

\* "committed means the batch completed" (docs/TOOL_REFERENCE.md)
CommittedCompleted == \A a \in Appliers : receipt[a] = "committed" => Wrote(a, 1) /\ Wrote(a, 2)
==============================================================================
