--------------------------- MODULE RealtimeChannel ---------------------------
(***************************************************************************)
(* The realtime UDP channel of the Remote Script: the receiver thread of   *)
(* realtime_server.py, the list it shares with the control surface, and    *)
(* the drain that AbletonMCPServer.update_display runs on Live's thread.   *)
(*                                                                         *)
(* The receiver thread and Live's thread interleave at the granularity of  *)
(* the Python statements that touch shared state: the length test of       *)
(* _enqueue, its deletion of the oldest entry, its append, the emptiness   *)
(* test of the drain and its pop(0) are steps of their own.                *)
(*                                                                         *)
(* A move is abstracted to the ref it names and the sequence number of the *)
(* packet that carried it; parameter values are not modelled.              *)
(***************************************************************************)
EXTENDS Integers, Sequences, SequencesExt, FiniteSets

CONSTANTS
  Refs,        \* parameter references a controller may name
  Bodies,      \* what datagrams ask for, some of the operations in Ops
  Tokens,      \* number of armings; each one hands out a token of its own
  MaxSeq,      \* bound: sequence numbers a controller uses per token, 0..MaxSeq
  MaxQueued,   \* MAX_QUEUED_COMMANDS
  NoToken      \* Python's None

\* The operations a datagram may carry.
Ops == [op : {"parameter.set"}, ref : Refs]
         \cup {[op |-> "xy.set", xRef |-> x, yRef |-> y] : x \in Refs, y \in Refs}
         \cup {[op |-> "emergency-stop"]}

ASSUME RealtimeAssumption ==
  /\ Bodies \subseteq Ops
  /\ Refs # {} /\ IsFiniteSet(Refs)
  /\ Tokens \in Nat /\ MaxSeq \in Nat
  /\ MaxQueued \in Nat /\ MaxQueued >= 2
  /\ NoToken \notin 1..Tokens

VARIABLES
  armedToken,  \* self.armed_token
  armedRefs,   \* self.armed_refs
  lastSeq,     \* self.last_seq
  queue,       \* callback_queue, shared with the surface
  arming,      \* the caller inside arm() or disarm(): the assignment it does next
  session,     \* how many tokens have been handed out
  accepted,        \* history: the packets that passed the sequence test
  rx,          \* receiver thread: where _handle_packet is and what it holds
  ui,          \* drain: "idle", or "pop" between the test and the pop
  applied,     \* history: commands the drain has applied, oldest first
  dropped      \* history: commands that making room has cost

vars == <<armedToken, armedRefs, lastSeq, queue, arming, session, accepted, rx, ui,
          applied, dropped>>
armVars == <<armedToken, armedRefs, arming, session>>

Move(tok, seq, r) == [op |-> "parameter.set", token |-> tok, seq |-> seq, ref |-> r]
Stop(tok, seq)    == [op |-> "emergency-stop", token |-> tok, seq |-> seq]

Packets == [token : 1..Tokens, seq : 0..MaxSeq, body : Bodies]

\* What the queue holds: the entry, tagged with the packet it came from.
Queued == {Stop(t, s) : t \in 1..Tokens, s \in 0..MaxSeq}
            \cup {Move(t, s, r) : t \in 1..Tokens, s \in 0..MaxSeq, r \in Refs}

Idle == [pc |-> "idle"]

TypeOK ==
  /\ armedToken \in 1..Tokens \cup {NoToken}
  /\ armedRefs \subseteq Refs
  /\ lastSeq \in -1..MaxSeq
  /\ arming \in {"none", "refs", "seq"}
  /\ session \in 0..Tokens
  /\ accepted \subseteq Packets
  /\ ui \in {"idle", "pop"}
  /\ rx.pc \in {"idle", "matched", "accepted", "dispatch", "second", "test", "drop", "append"}
  /\ rx.pc \in {"matched", "accepted", "dispatch", "second"} => rx.packet \in Packets
  /\ rx.pc \in {"test", "drop", "append"} => rx.todo \in Seq(Queued) /\ rx.todo # <<>>
  /\ queue \in Seq(Queued) /\ applied \in Seq(Queued) /\ dropped \subseteq Queued
------------------------------------------------------------------------------
Init ==
  /\ armedToken = NoToken /\ armedRefs = {} /\ lastSeq = -1
  /\ queue = <<>> /\ arming = "none" /\ session = 0
  /\ accepted = {} /\ rx = Idle /\ ui = "idle" /\ applied = <<>> /\ dropped = {}

\* arm(token, refs) and disarm() are three assignments made by one caller while
\* the receiver runs: the token, then the refs, then the sequence number.
ArmToken ==
  /\ arming = "none" /\ session < Tokens
  /\ session' = session + 1
  /\ armedToken' = session + 1
  /\ arming' = "refs"
  /\ UNCHANGED <<armedRefs, lastSeq, queue, accepted, rx, ui, applied, dropped>>

DisarmToken ==
  /\ arming = "none" /\ armedToken # NoToken
  /\ armedToken' = NoToken
  /\ arming' = "refs"
  /\ UNCHANGED <<armedRefs, lastSeq, queue, session, accepted, rx, ui, applied, dropped>>

SetRefs ==
  /\ arming = "refs"
  /\ IF armedToken = NoToken
     THEN armedRefs' = {}
     ELSE armedRefs' \in SUBSET Refs
  /\ arming' = "seq"
  /\ UNCHANGED <<armedToken, lastSeq, queue, session, accepted, rx, ui, applied, dropped>>

ResetSeq ==
  /\ arming = "seq"
  /\ lastSeq' = -1
  /\ arming' = "none"
  /\ UNCHANGED <<armedToken, armedRefs, queue, session, accepted, rx, ui, applied, dropped>>

------------------------------------------------------------------------------
\* recvfrom and _handle_packet up to the token test. The network delivers any
\* datagram a controller may have sent, late, twice or never: one with a token
\* that arm() has returned from handing out, and with a sequence number used for
\* one body only. What is not for the armed token is dropped without a trace, so
\* only a packet that passes the test is a step. The code reads armed_token twice, and
\* the second reading decides: the first leaves nothing behind, and when the second one
\* finds the token of the packet, the first might have been made at that moment too.
Accept(p) ==
  /\ rx.pc = "idle" /\ arming = "none"
  /\ p.token = armedToken
  /\ \A q \in accepted : q.token = p.token /\ q.seq = p.seq => q = p
  /\ rx' = [pc |-> "matched", packet |-> p]
  /\ UNCHANGED <<armVars, lastSeq, queue, accepted, ui, applied, dropped>>

\* Mutant: a packet with the number of the last one counts as newer.
TestSeqAcceptsEqual ==
  /\ rx.pc = "matched"
  /\ IF rx.packet.seq >= lastSeq
     THEN rx' = [rx EXCEPT !.pc = "accepted"] /\ accepted' = accepted \cup {rx.packet}
     ELSE rx' = Idle /\ UNCHANGED accepted
  /\ UNCHANGED <<armVars, lastSeq, queue, ui, applied, dropped>>

\* The sequence test, a statement after the token test.
TestSeq ==
  /\ rx.pc = "matched"
  /\ IF rx.packet.seq > lastSeq
     THEN rx' = [rx EXCEPT !.pc = "accepted"] /\ accepted' = accepted \cup {rx.packet}
     ELSE rx' = Idle /\ UNCHANGED accepted
  /\ UNCHANGED <<armVars, lastSeq, queue, ui, applied, dropped>>

TakeSeq ==
  /\ rx.pc = "accepted"
  /\ lastSeq' = rx.packet.seq
  /\ rx' = [rx EXCEPT !.pc = "dispatch"]
  /\ UNCHANGED <<armVars, queue, accepted, ui, applied, dropped>>

Continue(todo) == IF todo = <<>> THEN Idle ELSE [pc |-> "test", todo |-> todo]

\* The op of the packet against the refs armed now; an op that names a ref that
\* is not armed asks for nothing.
Dispatch ==
  /\ rx.pc = "dispatch"
  /\ LET p == rx.packet  b == rx.packet.body IN
     rx' = CASE b.op = "parameter.set" /\ b.ref \in armedRefs ->
                  Continue(<<Move(p.token, p.seq, b.ref)>>)
             [] b.op = "xy.set" /\ b.xRef \in armedRefs -> [rx EXCEPT !.pc = "second"]
             [] b.op = "emergency-stop" -> Continue(<<Stop(p.token, p.seq)>>)
             [] OTHER -> Idle
  /\ UNCHANGED <<armVars, lastSeq, queue, accepted, ui, applied, dropped>>

\* Mutant: each half is enqueued as soon as its own ref is found armed.
DispatchXYHalf ==
  /\ rx.pc = "second"
  /\ LET p == rx.packet  b == rx.packet.body IN
     rx' = IF b.yRef \in armedRefs
           THEN Continue(<<Move(p.token, p.seq, b.xRef), Move(p.token, p.seq, b.yRef)>>)
           ELSE Continue(<<Move(p.token, p.seq, b.xRef)>>)
  /\ UNCHANGED <<armVars, lastSeq, queue, accepted, ui, applied, dropped>>

\* The second membership test of xy.set reads armed_refs again.
DispatchXY ==
  /\ rx.pc = "second"
  /\ LET p == rx.packet  b == rx.packet.body IN
     rx' = IF b.yRef \in armedRefs
           THEN Continue(<<Move(p.token, p.seq, b.xRef), Move(p.token, p.seq, b.yRef)>>)
           ELSE Idle
  /\ UNCHANGED <<armVars, lastSeq, queue, accepted, ui, applied, dropped>>

\* Mutant: room is made only when the queue is already over its limit.
TestLengthOver ==
  /\ rx.pc = "test"
  /\ rx' = [rx EXCEPT !.pc = IF Len(queue) > MaxQueued THEN "drop" ELSE "append"]
  /\ UNCHANGED <<armVars, lastSeq, queue, accepted, ui, applied, dropped>>

\* _enqueue: test the length, delete the oldest, append.
TestLength ==
  /\ rx.pc = "test"
  /\ rx' = [rx EXCEPT !.pc = IF Len(queue) >= MaxQueued THEN "drop" ELSE "append"]
  /\ UNCHANGED <<armVars, lastSeq, queue, accepted, ui, applied, dropped>>

\* "del callback_queue[0]" raises IndexError on a list drained since the test;
\* run() logs it and goes on with the next datagram, so the packet is lost.
DropOldest ==
  /\ rx.pc = "drop"
  /\ IF queue = <<>>
     THEN rx' = Idle /\ UNCHANGED queue /\ dropped' = dropped \cup {rx.todo[i] : i \in DOMAIN rx.todo}
     ELSE /\ rx' = [rx EXCEPT !.pc = "append"]
          /\ queue' = Tail(queue) /\ dropped' = dropped \cup {Head(queue)}
  /\ UNCHANGED <<armVars, lastSeq, accepted, ui, applied>>

AppendCommand ==
  /\ rx.pc = "append"
  /\ queue' = Append(queue, Head(rx.todo))
  /\ rx' = Continue(Tail(rx.todo))
  /\ UNCHANGED <<armVars, lastSeq, accepted, ui, applied, dropped>>
------------------------------------------------------------------------------
\* _drain_realtime_queue: "while queue: queue.pop(0)", the test and the pop.
DrainTest ==
  /\ ui = "idle" /\ queue # <<>>
  /\ ui' = "pop"
  /\ UNCHANGED <<armVars, lastSeq, queue, accepted, rx, applied, dropped>>

\* Mutant: the drain takes the first entry and clears the list.
DrainPopAll ==
  /\ ui = "pop"
  /\ IF queue = <<>>
     THEN UNCHANGED <<queue, applied>>
     ELSE queue' = <<>> /\ applied' = Append(applied, Head(queue))
  /\ ui' = "idle"
  /\ UNCHANGED <<armVars, lastSeq, accepted, rx, dropped>>

\* pop(0) raises IndexError when the receiver emptied the list since the test.
DrainPop ==
  /\ ui = "pop"
  /\ IF queue = <<>>
     THEN UNCHANGED <<queue, applied>>
     ELSE queue' = Tail(queue) /\ applied' = Append(applied, Head(queue))
  /\ ui' = "idle"
  /\ UNCHANGED <<armVars, lastSeq, accepted, rx, dropped>>

Arming   == ArmToken \/ DisarmToken \/ SetRefs \/ ResetSeq
Receiver == TestSeq \/ TakeSeq \/ Dispatch \/ DispatchXY
              \/ TestLength \/ DropOldest \/ AppendCommand
Drain    == DrainTest \/ DrainPop

Next ==
  \/ Arming
  \/ \E p \in Packets : Accept(p)
  \/ Receiver
  \/ Drain

Spec == Init /\ [][Next]_vars
------------------------------------------------------------------------------
\* Everything the queue ever gave out, then what it still holds, oldest first.
history == applied \o queue

\* One token's commands are in order: a later one comes from a newer packet, or
\* the two are the halves of one XY move.
InOrder(tok) ==
  \A i, j \in DOMAIN history :
    i < j /\ history[i].token = tok /\ history[j].token = tok =>
      \/ history[i].seq < history[j].seq
      \/ /\ history[i].seq = history[j].seq /\ j = i + 1
         /\ \E p \in accepted : /\ p.body.op = "xy.set"
                                /\ p.token = tok /\ p.seq = history[i].seq

\* While a token stays armed no stale and no duplicated packet of it takes effect,
\* whatever packet of another token the receiver held when it was armed.
\* (realtime_server.py, the last_seq test)
NoStaleMoveWhileArmed == arming = "none" /\ armedToken # NoToken => InOrder(armedToken)

\* A controller faster than the drain cannot grow the queue past its limit,
\* although the length is tested before, not with, the append.
QueueBounded == Len(queue) <= MaxQueued

\* Everything accepted has been drained.
Settled == rx = Idle /\ queue = <<>> /\ ui = "idle"

\* Every accepted emergency stop reaches Live, whatever it is queued behind and
\* whether or not anything is armed by then, unless making room has cost it.
\* (realtime_server.py, _enqueue; __init__.py, _drain_realtime_queue)
AcceptedStopIsApplied ==
  Settled => \A p \in accepted : p.body.op = "emergency-stop" =>
                \/ \E i \in DOMAIN applied : applied[i] = Stop(p.token, p.seq)
                \/ Stop(p.token, p.seq) \in dropped

\* "Both or neither: half an XY move puts the pad somewhere the performer never
\* pointed at": once everything accepted has been drained, only a command that
\* making room has cost separates the two halves.
Took(p, r) == \E i \in DOMAIN applied : applied[i] = Move(p.token, p.seq, r)
Lost(p, r) == Move(p.token, p.seq, r) \in dropped
XYBothUnlessLost ==
  Settled => \A p \in accepted : p.body.op = "xy.set" =>
                \/ Took(p, p.body.xRef) <=> Took(p, p.body.yRef)
                \/ Lost(p, p.body.xRef) \/ Lost(p, p.body.yRef)
==============================================================================
