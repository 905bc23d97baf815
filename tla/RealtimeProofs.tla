---------------------------- MODULE RealtimeProofs -----------------------------
(***************************************************************************)
(* The realtime channel keeps its types and its queue within MAX_QUEUED_   *)
(* COMMANDS, an accepted stop and both halves of an accepted XY move reach *)
(* Live unless making room cost them, and no stale move of the armed token *)
(* takes effect: for any refs, operations, tokens, sequence numbers and    *)
(* limit.                                                                  *)
(*                                                                         *)
(* The length is tested before, not with, the append, so the bound is not  *)
(* inductive by itself: it takes that only the receiver makes the queue    *)
(* longer, and that between its test and its append there is room for one. *)
(***************************************************************************)
EXTENDS RealtimeChannel, SequenceTheorems, TLAPS

Holding   == [pc : {"matched", "accepted", "dispatch", "second"}, packet : Packets]
Enqueuing == [pc : {"test", "drop", "append"}, todo : Seq(Queued)]

\* What the receiver holds at each step of a packet.
RxOK ==
  \/ rx = Idle
  \/ rx \in Holding /\ (rx.pc = "second" => rx.packet.body.op = "xy.set")
  \/ rx \in Enqueuing /\ rx.todo # <<>>

RoomOK == Len(queue) <= MaxQueued /\ (rx.pc = "append" => Len(queue) < MaxQueued)

RealtimeInv == TypeOK /\ RxOK /\ RoomOK

\* A token, once handed out, has a sequence number of packets: nothing else is needed
\* of the constants.
LEMMA QueuedMoves ==
  ASSUME NEW p \in Packets, NEW r \in Refs
  PROVE  Move(p.token, p.seq, r) \in Queued /\ Stop(p.token, p.seq) \in Queued
  BY DEF Packets, Queued, Move, Stop

\* What a body asks for names refs only.
LEMMA BodyRefs ==
  ASSUME NEW p \in Packets
  PROVE  /\ p.body.op = "parameter.set" => p.body.ref \in Refs
         /\ p.body.op = "xy.set" => p.body.xRef \in Refs /\ p.body.yRef \in Refs
  BY RealtimeAssumption DEF Packets, Ops

\* Going on with the rest of what a packet asks for.
LEMMA Continues ==
  ASSUME NEW todo \in Seq(Queued), rx' = Continue(todo)
  PROVE  RxOK' /\ rx'.pc \in {"idle", "test"}
         /\ (rx'.pc = "test" => rx'.todo \in Seq(Queued) /\ rx'.todo # <<>>)
  BY DEF Continue, RxOK, Idle, Enqueuing

\* A packet asks for one command, or for the two halves of an XY move.
LEMMA OneOrTwo ==
  ASSUME NEW a \in Queued, NEW b \in Queued
  PROVE  <<a>> \in Seq(Queued) /\ <<a, b>> \in Seq(Queued)
  OBVIOUS
------------------------------------------------------------------------------
LEMMA RealtimeInvInit == Init => RealtimeInv
  BY RealtimeAssumption DEF Init, RealtimeInv, TypeOK, RxOK, RoomOK, Idle

LEMMA RealtimeInvNext == RealtimeInv /\ [Next]_vars => RealtimeInv'
  <1> SUFFICES ASSUME RealtimeInv, [Next]_vars PROVE RealtimeInv'
      OBVIOUS
  <1> USE RealtimeAssumption DEF RealtimeInv, Idle, Holding, Enqueuing
  <1>1. CASE Arming
        BY <1>1 DEF Arming, ArmToken, DisarmToken, SetRefs, ResetSeq, TypeOK, RxOK, RoomOK
  <1>2. ASSUME NEW p \in Packets, Accept(p) PROVE RealtimeInv'
        BY <1>2 DEF Accept, armVars, TypeOK, RxOK, RoomOK
  <1>3. CASE TestSeq
    <2>1. rx \in Holding
          BY <1>3 DEF TestSeq, RxOK
    <2> QED BY <1>3, <2>1 DEF TestSeq, armVars, TypeOK, RxOK, RoomOK
  <1>4. CASE TakeSeq
    <2>1. rx \in Holding
          BY <1>4 DEF TakeSeq, RxOK
    <2>2. lastSeq' \in -1..MaxSeq
          BY <1>4, <2>1 DEF TakeSeq, Packets
    <2> QED BY <1>4, <2>1, <2>2 DEF TakeSeq, armVars, TypeOK, RxOK, RoomOK
  <1>5. CASE Dispatch
    <2>1. rx \in Holding
          BY <1>5 DEF Dispatch, RxOK
    <2>2. \/ rx' = Idle
          \/ rx.packet.body.op = "xy.set" /\ rx' = [rx EXCEPT !.pc = "second"]
          \/ \E todo \in Seq(Queued) : rx' = Continue(todo)
      <3> DEFINE p == rx.packet
      <3>1. p \in Packets
            BY <2>1
      <3>2. CASE p.body.op = "parameter.set" /\ p.body.ref \in armedRefs
        <4>1. Move(p.token, p.seq, p.body.ref) \in Queued
              BY <3>1, <3>2, BodyRefs, QueuedMoves
        <4>2. rx' = Continue(<<Move(p.token, p.seq, p.body.ref)>>)
              BY <1>5, <3>2 DEF Dispatch
        <4>3. <<Move(p.token, p.seq, p.body.ref)>> \in Seq(Queued)
              BY <4>1, OneOrTwo
        <4> HIDE DEF p
        <4> QED BY ONLY <4>2, <4>3
      <3>3. CASE p.body.op = "emergency-stop"
        <4>1. Stop(p.token, p.seq) \in Queued
              BY <3>1 DEF Packets, Queued, Stop
        <4>2. rx' = Continue(<<Stop(p.token, p.seq)>>)
              BY <1>5, <3>3 DEF Dispatch
        <4>3. <<Stop(p.token, p.seq)>> \in Seq(Queued)
              BY <4>1, OneOrTwo
        <4> HIDE DEF p
        <4> QED BY ONLY <4>2, <4>3
      <3>4. CASE p.body.op = "xy.set" /\ p.body.xRef \in armedRefs
            BY <1>5, <3>4 DEF Dispatch
      <3> QED BY <1>5, <3>2, <3>3, <3>4 DEF Dispatch
    <2>3. RxOK' /\ rx'.pc # "append"
          /\ (rx'.pc = "test" => rx'.todo \in Seq(Queued) /\ rx'.todo # <<>>)
      <3>1. CASE \E todo \in Seq(Queued) : rx' = Continue(todo)
            BY <3>1, Continues
      <3>2. CASE rx' = Idle
            BY <3>2 DEF RxOK
      <3>3. CASE rx.packet.body.op = "xy.set" /\ rx' = [rx EXCEPT !.pc = "second"]
            BY <2>1, <3>3 DEF RxOK
      <3> QED BY <2>2, <3>1, <3>2, <3>3
    <2> QED BY <1>5, <2>3 DEF Dispatch, armVars, TypeOK, RxOK, RoomOK
  <1>6. CASE DispatchXY
    <2>1. rx \in Holding
          BY <1>6 DEF DispatchXY, RxOK
    <2>2. rx' = Idle \/ \E todo \in Seq(Queued) : rx' = Continue(todo)
      <3> DEFINE p == rx.packet
      <3>1. p \in Packets /\ p.body.op = "xy.set"
            BY <1>6, <2>1 DEF DispatchXY, RxOK
      <3>2. /\ Move(p.token, p.seq, p.body.xRef) \in Queued
            /\ Move(p.token, p.seq, p.body.yRef) \in Queued
            BY <3>1, BodyRefs, QueuedMoves
      <3> DEFINE both == <<Move(p.token, p.seq, p.body.xRef), Move(p.token, p.seq, p.body.yRef)>>
      <3>3. both \in Seq(Queued)
            BY <3>2, OneOrTwo
      <3>4. rx' = Idle \/ rx' = Continue(both)
            BY <1>6 DEF DispatchXY
      <3> HIDE DEF p, both
      <3> QED BY ONLY <3>3, <3>4
    <2>3. RxOK' /\ rx'.pc # "append"
          /\ (rx'.pc = "test" => rx'.todo \in Seq(Queued) /\ rx'.todo # <<>>)
      <3>1. CASE \E todo \in Seq(Queued) : rx' = Continue(todo)
            BY <3>1, Continues
      <3>2. CASE rx' = Idle
            BY <3>2 DEF RxOK
      <3> QED BY <2>2, <3>1, <3>2
    <2>4. rx'.pc \in {"idle", "test"}
          BY <2>2 DEF Continue
    <2> QED BY <1>6, <2>3, <2>4 DEF DispatchXY, armVars, TypeOK, RxOK, RoomOK
  <1>7. CASE TestLength
    <2>1. rx \in Enqueuing /\ rx.todo # <<>>
          BY <1>7 DEF TestLength, RxOK
    <2> QED BY <1>7, <2>1 DEF TestLength, armVars, TypeOK, RxOK, RoomOK
  <1>8. CASE DropOldest
    <2>1. rx \in Enqueuing /\ rx.todo # <<>>
          BY <1>8 DEF DropOldest, RxOK
    <2>2. queue # <<>> => Tail(queue) \in Seq(Queued) /\ Len(Tail(queue)) = Len(queue) - 1
          BY DEF TypeOK
    <2>3. CASE queue = <<>>
          BY <1>8, <2>3 DEF DropOldest, armVars, TypeOK, RxOK, RoomOK
    <2>4. CASE queue # <<>>
      <3>1. rx' = [pc |-> "append", todo |-> rx.todo]
            BY <1>8, <2>1, <2>4 DEF DropOldest
      <3>2. queue' \in Seq(Queued) /\ Len(queue') = Len(queue) - 1
            BY <1>8, <2>2, <2>4 DEF DropOldest
      <3>3. Len(queue') < MaxQueued
            BY <3>2 DEF RoomOK, TypeOK
      <3> QED BY <1>8, <2>1, <3>1, <3>2, <3>3 DEF DropOldest, armVars, TypeOK, RxOK, RoomOK
    <2> QED BY <2>3, <2>4
  <1>9. CASE AppendCommand
    <2>1. rx \in Enqueuing /\ rx.todo # <<>>
          BY <1>9 DEF AppendCommand, RxOK
    <2>2. Head(rx.todo) \in Queued /\ Tail(rx.todo) \in Seq(Queued)
          BY <2>1
    <2>3. queue' \in Seq(Queued) /\ Len(queue') = Len(queue) + 1
          BY <1>9, <2>2 DEF AppendCommand, TypeOK
    <2>4. RxOK' /\ rx'.pc \in {"idle", "test"}
          /\ (rx'.pc = "test" => rx'.todo \in Seq(Queued) /\ rx'.todo # <<>>)
          BY <1>9, <2>2, Continues DEF AppendCommand
    <2>5. Len(queue) < MaxQueued
          BY <1>9 DEF AppendCommand, RoomOK
    <2> QED BY <1>9, <2>3, <2>4, <2>5 DEF AppendCommand, armVars, TypeOK, RoomOK
  <1>10. CASE DrainTest
         BY <1>10 DEF DrainTest, armVars, TypeOK, RxOK, RoomOK
  <1>11. CASE DrainPop
    <2>1. queue # <<>> => /\ Tail(queue) \in Seq(Queued) /\ Len(Tail(queue)) = Len(queue) - 1
                          /\ Head(queue) \in Queued
          BY DEF TypeOK
    <2>2. CASE queue = <<>>
          BY <1>11, <2>2 DEF DrainPop, armVars, TypeOK, RxOK, RoomOK
    <2>3. CASE queue # <<>>
      <3>1. queue' = Tail(queue) /\ applied' = Append(applied, Head(queue))
            BY <1>11, <2>3 DEF DrainPop
      <3>2. applied' \in Seq(Queued)
            BY <2>1, <2>3, <3>1 DEF TypeOK
      <3>3. Len(queue) \in Nat
            BY DEF TypeOK
      <3>4. Len(queue') < Len(queue) /\ queue' \in Seq(Queued)
            BY ONLY <2>1, <2>3, <3>1, <3>3
      <3> QED BY <1>11, <3>2, <3>3, <3>4 DEF DrainPop, armVars, TypeOK, RxOK, RoomOK
    <2> QED BY <2>2, <2>3
  <1>12. CASE UNCHANGED vars
         BY <1>12 DEF vars, TypeOK, RxOK, RoomOK
  <1> QED BY <1>1, <1>2, <1>3, <1>4, <1>5, <1>6, <1>7, <1>8, <1>9, <1>10, <1>11, <1>12
          DEF Next, Receiver, Drain
------------------------------------------------------------------------------
\* However fast a controller sends, and wherever the drain pops between the length
\* test, the deletion and the append, the queue stays within its limit.
\* (realtime_server.py, _enqueue)
THEOREM QueueKeepsItsLimit == Spec => [](TypeOK /\ QueueBounded)
  <1>1. RealtimeInv => TypeOK /\ QueueBounded
        BY DEF RealtimeInv, RoomOK, QueueBounded
  <1> QED BY <1>1, RealtimeInvInit, RealtimeInvNext, PTL DEF Spec
------------------------------------------------------------------------------
\* What is on its way: the commands applied, those queued behind them, and those of
\* the packet the receiver has in hand, in the order they are applied in. Moving one
\* from hand to queue, or from queue to Live, leaves the pipe as it is.
Todo == IF rx.pc \in {"test", "drop", "append"} THEN rx.todo ELSE <<>>
Pipe == history \o Todo

\* Every command a packet has asked for since the start, lost ones included.
Elems(s) == {s[i] : i \in DOMAIN s}
Traced == Elems(Pipe) \cup dropped

\* The steps that take nothing out of a packet and cost nothing.
Quiet == \/ Arming \/ (\E p \in Packets : Accept(p)) \/ TestSeq \/ TakeSeq
         \/ TestLength \/ AppendCommand \/ Drain \/ UNCHANGED vars

\* The pipe is a sequence of entries, and remains one.
LEMMA Pipes ==
  ASSUME RealtimeInv
  PROVE  /\ applied \in Seq(Queued) /\ queue \in Seq(Queued) /\ Todo \in Seq(Queued)
         /\ history \in Seq(Queued) /\ Pipe \in Seq(Queued)
  <1>1. Todo \in Seq(Queued)
        BY DEF RealtimeInv, TypeOK, Todo
  <1>2. applied \in Seq(Queued) /\ queue \in Seq(Queued)
        BY DEF RealtimeInv, TypeOK
  <1>3. history \in Seq(Queued)
        BY <1>2, ConcatProperties DEF history
  <1> QED BY <1>1, <1>2, <1>3, ConcatProperties DEF Pipe

LEMMA PipesNext ==
  ASSUME RealtimeInv'
  PROVE  history' \in Seq(Queued) /\ Pipe' \in Seq(Queued)
  <1>1. Todo' \in Seq(Queued) /\ applied' \in Seq(Queued) /\ queue' \in Seq(Queued)
        BY DEF RealtimeInv, TypeOK, Todo
  <1>2. history' \in Seq(Queued)
        BY <1>1, ConcatProperties DEF history
  <1> QED BY <1>1, <1>2, ConcatProperties DEF Pipe

\* Going on with what is left of a packet.
LEMMA ContinueTodo ==
  ASSUME NEW todo \in Seq(Queued), rx' = Continue(todo)
  PROVE  Todo' = todo
  BY DEF Continue, Todo, Idle

\* An entry appended to the queue is one the receiver had in hand.
LEMMA MovedOn ==
  ASSUME NEW S, NEW a \in Seq(S), NEW q \in Seq(S), NEW t \in Seq(S), t # <<>>
  PROVE  (a \o Append(q, Head(t))) \o Tail(t) = (a \o q) \o t
  <1> DEFINE h == <<Head(t)>>
  <1>1. Head(t) \in S /\ Tail(t) \in Seq(S) /\ h \in Seq(S)
        BY HeadTailProperties
  <1>2. t = h \o Tail(t)
        OBVIOUS
  <1>3. Append(q, Head(t)) = q \o h
        BY <1>1, AppendIsConcat
  <1>4. a \o (q \o h) = (a \o q) \o h /\ a \o q \in Seq(S)
        BY <1>1, ConcatAssociative, ConcatProperties
  <1>5. ((a \o q) \o h) \o Tail(t) = (a \o q) \o (h \o Tail(t))
        BY <1>1, <1>4, ConcatAssociative
  <1> HIDE DEF h
  <1> QED BY <1>2, <1>3, <1>4, <1>5

\* An entry popped by the drain is the oldest of the queue.
LEMMA PoppedOff ==
  ASSUME NEW S, NEW a \in Seq(S), NEW q \in Seq(S), q # <<>>
  PROVE  Append(a, Head(q)) \o Tail(q) = a \o q
  <1> DEFINE h == <<Head(q)>>
  <1>1. Head(q) \in S /\ Tail(q) \in Seq(S) /\ h \in Seq(S)
        BY HeadTailProperties
  <1>2. q = h \o Tail(q)
        OBVIOUS
  <1>3. Append(a, Head(q)) = a \o h
        BY <1>1, AppendIsConcat
  <1>4. (a \o h) \o Tail(q) = a \o (h \o Tail(q))
        BY <1>1, ConcatAssociative
  <1> HIDE DEF h
  <1> QED BY <1>2, <1>3, <1>4

\* Moving a command on changes neither the pipe nor what was lost.
LEMMA QuietPipe ==
  ASSUME RealtimeInv, Quiet
  PROVE  Pipe' = Pipe /\ dropped' = dropped
  <1> USE Pipes
  <1>1. CASE Arming \/ (\E p \in Packets : Accept(p)) \/ TestSeq \/ TakeSeq \/ TestLength
             \/ DrainTest \/ UNCHANGED vars
    <2>1. UNCHANGED <<applied, queue, dropped>>
          BY <1>1 DEF Arming, ArmToken, DisarmToken, SetRefs, ResetSeq, Accept, TestSeq, TakeSeq,
                      TestLength, DrainTest, vars
    <2>2. Todo' = Todo
      <3>1. CASE Arming \/ DrainTest \/ UNCHANGED vars
            BY <3>1 DEF Arming, ArmToken, DisarmToken, SetRefs, ResetSeq, DrainTest, vars, Todo
      <3>2. CASE (\E p \in Packets : Accept(p)) \/ TestSeq \/ TakeSeq
        <4>1. rx.pc \in {"idle", "matched", "accepted"}
              BY <3>2 DEF Accept, TestSeq, TakeSeq
        <4>2. rx'.pc \in {"idle", "matched", "accepted", "dispatch"}
          <5>1. CASE \E p \in Packets : Accept(p)
                BY <5>1 DEF Accept
          <5>2. CASE TestSeq \/ TakeSeq
            <6>1. rx \in Holding
                  BY <5>2 DEF TestSeq, TakeSeq, RealtimeInv, RxOK, Idle, Enqueuing
            <6> QED BY <5>2, <6>1 DEF TestSeq, TakeSeq, Holding, Idle
          <5> QED BY <3>2, <5>1, <5>2
        <4> QED BY <4>1, <4>2 DEF Todo
      <3>3. CASE TestLength
            BY <3>3 DEF TestLength, Todo, RealtimeInv, RxOK, Enqueuing
      <3> QED BY <1>1, <3>1, <3>2, <3>3
    <2> QED BY <2>1, <2>2 DEF Pipe, history
  <1>2. CASE AppendCommand
    <2>1. rx.todo \in Seq(Queued) /\ rx.todo # <<>> /\ Todo = rx.todo
          BY <1>2 DEF AppendCommand, RealtimeInv, TypeOK, Todo
    <2>2. Todo' = Tail(rx.todo)
          BY <1>2, <2>1, ContinueTodo, HeadTailProperties DEF AppendCommand
    <2>3. queue' = Append(queue, Head(rx.todo)) /\ applied' = applied /\ dropped' = dropped
          BY <1>2 DEF AppendCommand
    <2>4. (applied \o Append(queue, Head(rx.todo))) \o Tail(rx.todo) = (applied \o queue) \o rx.todo
      <3>1. applied \in Seq(Queued) /\ queue \in Seq(Queued)
            BY Pipes
      <3>2. \A a, q, t \in Seq(Queued) :
              t # <<>> => (a \o Append(q, Head(t))) \o Tail(t) = (a \o q) \o t
            BY ONLY MovedOn
      <3> QED BY ONLY <2>1, <3>1, <3>2
    <2> QED BY <2>1, <2>2, <2>3, <2>4 DEF Pipe, history
  <1>3. CASE DrainPop
    <2>1. Todo' = Todo /\ dropped' = dropped
          BY <1>3 DEF DrainPop, Todo
    <2> QED BY <1>3, <2>1, PoppedOff DEF DrainPop, Pipe, history
  <1> QED BY <1>1, <1>2, <1>3 DEF Quiet, Drain

\* What is left out leaves the rest in its order.
Thinned(s, t) ==
  \E m \in [DOMAIN t -> DOMAIN s] :
    /\ \A i \in DOMAIN t : t[i] = s[m[i]]
    /\ \A i, j \in DOMAIN t : i < j => m[i] < m[j]

\* The entries of two sequences put together.
LEMMA ConcatElems ==
  ASSUME NEW S, NEW s \in Seq(S), NEW t \in Seq(S)
  PROVE  Elems(s \o t) = Elems(s) \cup Elems(t)
  <1>1. /\ Len(s) \in Nat /\ Len(t) \in Nat /\ DOMAIN s = 1..Len(s) /\ DOMAIN t = 1..Len(t)
        /\ DOMAIN (s \o t) = 1..(Len(s) + Len(t))
        /\ \A i \in 1..(Len(s) + Len(t)) :
              (s \o t)[i] = IF i <= Len(s) THEN s[i] ELSE t[i - Len(s)]
        BY ConcatProperties, LenProperties
  <1> DEFINE u == s \o t
  <1> HIDE DEF u
  <1>2. ASSUME NEW i \in DOMAIN u PROVE u[i] \in Elems(s) \cup Elems(t)
    <2>1. CASE i <= Len(s)
          BY <1>1, <2>1 DEF u, Elems
    <2>2. CASE ~(i <= Len(s))
      <3>1. i - Len(s) \in DOMAIN t /\ u[i] = t[i - Len(s)]
            BY <1>1, <2>2 DEF u
      <3> QED BY <3>1 DEF Elems
    <2> QED BY <2>1, <2>2
  <1>3. ASSUME NEW i \in DOMAIN s PROVE s[i] \in Elems(u)
    <2>1. i \in DOMAIN u /\ u[i] = s[i]
          BY <1>1 DEF u
    <2> QED BY <2>1 DEF Elems
  <1>4. ASSUME NEW i \in DOMAIN t PROVE t[i] \in Elems(u)
    <2>1. Len(s) + i \in DOMAIN u /\ ~(Len(s) + i <= Len(s)) /\ (Len(s) + i) - Len(s) = i
          BY <1>1 DEF u
    <2>2. u[Len(s) + i] = t[i]
          BY <1>1, <2>1 DEF u
    <2> QED BY <2>1, <2>2 DEF Elems
  <1>5. Elems(u) = Elems(s) \cup Elems(t)
        BY <1>2, <1>3, <1>4 DEF Elems
  <1> QED BY <1>5 DEF u

\* The two ways of losing entries: those of the packet in hand, and the oldest one.
LEMMA PrefixThinned ==
  ASSUME NEW S, NEW s \in Seq(S), NEW t \in Seq(S)
  PROVE  Thinned(s \o t, s)
  <1>1. /\ Len(s) \in Nat /\ Len(t) \in Nat /\ DOMAIN s = 1..Len(s)
        /\ DOMAIN (s \o t) = 1..(Len(s) + Len(t))
        /\ \A i \in 1..(Len(s) + Len(t)) :
              (s \o t)[i] = IF i <= Len(s) THEN s[i] ELSE t[i - Len(s)]
        BY ConcatProperties, LenProperties
  <1> DEFINE u == s \o t
             m == [i \in DOMAIN s |-> i]
  <1> HIDE DEF u
  <1>2. m \in [DOMAIN s -> DOMAIN u]
        BY <1>1 DEF u
  <1>3. \A i \in DOMAIN s : s[i] = u[m[i]]
        BY <1>1 DEF u
  <1>4. \A i, j \in DOMAIN s : i < j => m[i] < m[j]
        OBVIOUS
  <1>5. Thinned(u, s)
        BY <1>2, <1>3, <1>4 DEF Thinned
  <1> QED BY <1>5 DEF u

LEMMA LeftOut ==
  ASSUME NEW S, NEW a \in Seq(S), NEW h \in S, NEW r \in Seq(S)
  PROVE  Thinned(a \o (<<h>> \o r), a \o r)
  <1>1. <<h>> \in Seq(S) /\ Len(<<h>>) = 1
        OBVIOUS
  <1> DEFINE b == <<h>> \o r
             old == a \o b
             new == a \o r
             k == Len(a)
  <1>2. /\ b \in Seq(S) /\ Len(b) = 1 + Len(r) /\ Len(r) \in Nat /\ k \in Nat
        /\ \A i \in 1..Len(r) : b[i + 1] = r[i]
    <2>1. /\ b \in Seq(S) /\ Len(b) = 1 + Len(r) /\ Len(r) \in Nat /\ k \in Nat
          /\ \A i \in 1..(1 + Len(r)) : b[i] = IF i <= 1 THEN <<h>>[i] ELSE r[i - 1]
          BY <1>1, ConcatProperties, LenProperties
    <2>2. ASSUME NEW i \in 1..Len(r) PROVE b[i + 1] = r[i]
      <3>1. i + 1 \in 1..(1 + Len(r)) /\ ~(i + 1 <= 1) /\ (i + 1) - 1 = i
            BY <2>1
      <3> QED BY <2>1, <3>1
    <2> QED BY <2>1, <2>2
  <1> HIDE DEF b
  <1>3. /\ DOMAIN old = 1..(k + Len(r) + 1) /\ DOMAIN new = 1..(k + Len(r))
        /\ \A i \in 1..(k + Len(r)) : new[i] = IF i <= k THEN a[i] ELSE r[i - k]
        /\ \A i \in 1..(k + Len(r) + 1) : old[i] = IF i <= k THEN a[i] ELSE b[i - k]
    <2>1. Len(old) = k + Len(b) /\ Len(new) = k + Len(r)
          BY <1>2, ConcatProperties
    <2>2. Len(old) = k + Len(r) + 1
          BY <1>2, <2>1
    <2>3. DOMAIN old = 1..Len(old) /\ DOMAIN new = 1..Len(new)
          BY <1>2, ConcatProperties, LenProperties
    <2>4. /\ \A i \in 1..(k + Len(r)) : new[i] = IF i <= k THEN a[i] ELSE r[i - k]
          /\ \A i \in 1..(k + Len(b)) : old[i] = IF i <= k THEN a[i] ELSE b[i - k]
          BY <1>2, ConcatProperties
    <2> QED BY <2>1, <2>2, <2>3, <2>4
  <1> HIDE DEF old, new, k
  <1> DEFINE m == [i \in DOMAIN new |-> IF i <= k THEN i ELSE i + 1]
  <1>4. m \in [DOMAIN new -> DOMAIN old]
        BY <1>2, <1>3
  <1>5. ASSUME NEW i \in DOMAIN new PROVE new[i] = old[m[i]]
    <2>1. CASE i <= k
          BY <1>2, <1>3, <2>1
    <2>2. CASE ~(i <= k)
      <3>1. /\ i - k \in 1..Len(r) /\ i + 1 \in 1..(k + Len(r) + 1) /\ ~(i + 1 <= k)
            /\ (i + 1) - k = (i - k) + 1 /\ i \in 1..(k + Len(r))
            BY <1>2, <1>3, <2>2
      <3>2. new[i] = r[i - k] /\ old[i + 1] = b[(i - k) + 1] /\ m[i] = i + 1
            BY <1>3, <2>2, <3>1
      <3>3. b[(i - k) + 1] = r[i - k]
            BY <1>2, <3>1
      <3> QED BY <3>2, <3>3
    <2> QED BY <2>1, <2>2
  <1>6. \A i, j \in DOMAIN new : i < j => m[i] < m[j]
        BY <1>2, <1>3
  <1>7. Thinned(old, new)
        BY <1>4, <1>5, <1>6 DEF Thinned
  <1> QED BY <1>7 DEF old, new, b

\* Concatenation of what is queued is associative, as an equation.
LEMMA Regroup ==
  \A a, b, c \in Seq(Queued) : (a \o b) \o c = a \o (b \o c)
  <1> TAKE a, b, c \in Seq(Queued)
  <1> QED BY ConcatAssociative

\* Making room, or giving up a packet, takes out entries and notes each of them.
LEMMA DropPipe ==
  ASSUME RealtimeInv, RealtimeInv', DropOldest
  PROVE  Thinned(Pipe, Pipe') /\ Traced' = Traced
  <1> DEFINE t == rx.todo
  <1>1. /\ t \in Seq(Queued) /\ Todo = t /\ applied' = applied /\ Pipe = history \o t
        /\ applied \in Seq(Queued) /\ queue \in Seq(Queued) /\ history \in Seq(Queued)
        BY Pipes DEF DropOldest, RealtimeInv, TypeOK, Todo, Pipe
  <1>2. CASE queue = <<>>
    <2>1. Todo' = <<>> /\ queue' = queue /\ dropped' = dropped \cup Elems(t)
          BY <1>2 DEF DropOldest, Todo, Idle, Elems
    <2>2. history' = history /\ Pipe' = history
          BY <1>1, <2>1, ConcatEmptySeq DEF history, Pipe
    <2>3. Thinned(Pipe, Pipe') /\ Elems(Pipe) = Elems(Pipe') \cup Elems(t)
          BY <1>1, <2>2, PrefixThinned, ConcatElems
    <2> QED BY <2>1, <2>3 DEF Traced
  <1>3. CASE queue # <<>>
    <2>1. Todo' = t /\ queue' = Tail(queue) /\ dropped' = dropped \cup {Head(queue)}
      <3>1. rx \in Enqueuing
            BY DEF DropOldest, RealtimeInv, RxOK, Idle, Holding
      <3> QED BY <1>3, <3>1 DEF DropOldest, Todo, Enqueuing
    <2> DEFINE h == Head(queue)  q == Tail(queue)  r == q \o t
    <2>2. h \in Queued /\ q \in Seq(Queued) /\ <<h>> \in Seq(Queued) /\ queue = <<h>> \o q
      <3>1. h \in Queued /\ q \in Seq(Queued)
            BY <1>1, <1>3, HeadTailProperties
      <3>2. queue = <<h>> \o q
            BY <1>1, <1>3
      <3> QED BY <3>1, <3>2
    <2>3. r \in Seq(Queued)
          BY <1>1, <2>2, ConcatProperties
    <2> HIDE DEF h, q, t
    <2>4. Pipe = applied \o (<<h>> \o r)
      <3>1. Pipe = (applied \o (<<h>> \o q)) \o t
            BY <1>1, <2>2 DEF history
      <3>2. <<h>> \o q \in Seq(Queued) /\ applied \in Seq(Queued) /\ t \in Seq(Queued)
            /\ <<h>> \in Seq(Queued) /\ q \in Seq(Queued)
            BY <1>1, <2>2
      <3>3. (applied \o (<<h>> \o q)) \o t = applied \o ((<<h>> \o q) \o t)
            BY ONLY <3>2, Regroup, Zenon
      <3>4. (<<h>> \o q) \o t = <<h>> \o (q \o t)
            BY ONLY <3>2, Regroup, Zenon
      <3> QED BY <3>1, <3>3, <3>4
    <2>5. Pipe' = applied \o r
      <3>1. Pipe' = (applied \o q) \o t
            BY <1>1, <2>1 DEF Pipe, history, q
      <3>2. applied \in Seq(Queued) /\ t \in Seq(Queued) /\ q \in Seq(Queued)
            BY <1>1, <2>2
      <3>3. (applied \o q) \o t = applied \o (q \o t)
        <4> HIDE DEF r
        <4> QED BY ONLY <3>2, Regroup, Zenon
      <3> QED BY <3>1, <3>3
    <2> HIDE DEF r
    <2>6. Thinned(Pipe, Pipe')
          BY <1>1, <2>2, <2>3, <2>4, <2>5, LeftOut
    <2>7. Elems(Pipe) = Elems(Pipe') \cup {h}
      <3>1. Elems(<<h>>) = {h}
            BY DEF Elems
      <3>2. /\ Elems(Pipe) = Elems(applied) \cup (Elems(<<h>>) \cup Elems(r))
            /\ Elems(Pipe') = Elems(applied) \cup Elems(r)
        <4>1. /\ <<h>> \o r \in Seq(Queued) /\ applied \in Seq(Queued)
              /\ <<h>> \in Seq(Queued) /\ r \in Seq(Queued)
              BY <1>1, <2>2, <2>3, ConcatProperties
        <4>2. \A u, v \in Seq(Queued) : Elems(u \o v) = Elems(u) \cup Elems(v)
              BY ONLY ConcatElems
        <4>3. Elems(applied \o (<<h>> \o r)) = Elems(applied) \cup Elems(<<h>> \o r)
              BY ONLY <4>1, <4>2
        <4>4. Elems(<<h>> \o r) = Elems(<<h>>) \cup Elems(r)
              BY ONLY <4>1, <4>2
        <4>5. Elems(applied \o r) = Elems(applied) \cup Elems(r)
              BY ONLY <4>1, <4>2
        <4> QED BY <2>4, <2>5, <4>3, <4>4, <4>5
      <3> QED BY <3>1, <3>2
    <2> QED BY <2>1, <2>6, <2>7 DEF Traced, h
  <1> QED BY <1>2, <1>3

\* What a packet puts into the pipe: nothing, its move, its stop, or both its halves.
Asked(p, todo) ==
  \/ todo = <<>> /\ p.body.op # "emergency-stop"
  \/ p.body.op = "parameter.set" /\ todo = <<Move(p.token, p.seq, p.body.ref)>>
  \/ p.body.op = "emergency-stop" /\ todo = <<Stop(p.token, p.seq)>>
  \/ /\ p.body.op = "xy.set"
     /\ todo = <<Move(p.token, p.seq, p.body.xRef), Move(p.token, p.seq, p.body.yRef)>>

\* A packet that is taken adds what it asks for to the end of the pipe, whole.
LEMMA Dispatched ==
  ASSUME RealtimeInv, RealtimeInv', Dispatch \/ DispatchXY
  PROVE  /\ rx \in Holding /\ rx.packet \in Packets
         /\ UNCHANGED <<history, dropped, accepted, lastSeq, armVars>>
         /\ Todo' \in Seq(Queued) /\ Pipe' = Pipe \o Todo' /\ Traced' = Traced \cup Elems(Todo')
         /\ Asked(rx.packet, Todo')
         /\ \/ rx'.pc \in {"idle", "test"}
            \/ rx' = [rx EXCEPT !.pc = "second"] /\ Todo' = <<>>
  <1> DEFINE p == rx.packet
  <1>1. rx \in Holding /\ p \in Packets /\ (rx.pc = "second" => p.body.op = "xy.set")
        BY DEF Dispatch, DispatchXY, RealtimeInv, RxOK, Idle, Enqueuing, Holding
  <1>2. /\ UNCHANGED <<history, dropped, accepted, lastSeq, armVars>>
        /\ Todo = <<>> /\ Todo' \in Seq(Queued)
    <2>1. UNCHANGED <<history, dropped, accepted, lastSeq, armVars>> /\ Todo = <<>>
          BY DEF Dispatch, DispatchXY, Todo, history
    <2>2. Todo' \in Seq(Queued)
          BY DEF Todo, RealtimeInv, TypeOK
    <2> QED BY <2>1, <2>2
  <1>3. Pipe = history /\ Pipe' = Pipe \o Todo' /\ history \in Seq(Queued)
        BY <1>2, Pipes, ConcatEmptySeq DEF Pipe
  <1>4. Traced' = Traced \cup Elems(Todo')
    <2>1. Elems(Pipe') = Elems(Pipe) \cup Elems(Todo')
      <3>1. \A s, t \in Seq(Queued) : Elems(s \o t) = Elems(s) \cup Elems(t)
            BY ONLY ConcatElems
      <3> QED BY <1>2, <1>3, <3>1
    <2> QED BY <1>2, <2>1 DEF Traced
  <1>5. /\ Asked(p, Todo')
        /\ \/ rx'.pc \in {"idle", "test"}
           \/ rx' = [rx EXCEPT !.pc = "second"] /\ Todo' = <<>>
    <2>1. \A todo : rx' = Continue(todo) => rx'.pc \in {"idle", "test"} /\ Todo' = todo
          BY DEF Continue, Idle, Todo
    <2>2. rx' = Idle => rx'.pc = "idle" /\ Todo' = <<>>
          BY DEF Idle, Todo
    <2>3. CASE Dispatch
      <3>1. CASE p.body.op = "parameter.set" /\ p.body.ref \in armedRefs
        <4>1. rx' = Continue(<<Move(p.token, p.seq, p.body.ref)>>)
              BY <2>3, <3>1 DEF Dispatch
        <4> QED BY <2>1, <3>1, <4>1 DEF Asked
      <3>2. CASE p.body.op = "emergency-stop"
        <4>1. rx' = Continue(<<Stop(p.token, p.seq)>>)
              BY <2>3, <3>2 DEF Dispatch
        <4> QED BY <2>1, <3>2, <4>1 DEF Asked
      <3>3. CASE p.body.op = "xy.set" /\ p.body.xRef \in armedRefs
        <4>1. rx' = [rx EXCEPT !.pc = "second"]
              BY <2>3, <3>3 DEF Dispatch
        <4>2. Todo' = <<>>
              BY <1>1, <4>1 DEF Todo, Holding
        <4> QED BY <3>3, <4>1, <4>2 DEF Asked
      <3>4. CASE /\ ~(p.body.op = "parameter.set" /\ p.body.ref \in armedRefs)
                 /\ ~(p.body.op = "xy.set" /\ p.body.xRef \in armedRefs)
                 /\ p.body.op # "emergency-stop"
        <4>1. rx' = Idle
              BY <2>3, <3>4 DEF Dispatch
        <4> QED BY <2>2, <3>4, <4>1 DEF Asked
      <3> QED BY <3>1, <3>2, <3>3, <3>4
    <2>4. CASE DispatchXY
      <3> DEFINE both == <<Move(p.token, p.seq, p.body.xRef), Move(p.token, p.seq, p.body.yRef)>>
      <3>1. p.body.op = "xy.set"
            BY <1>1, <2>4 DEF DispatchXY
      <3>2. rx' = Idle \/ rx' = Continue(both)
            BY <2>4 DEF DispatchXY
      <3> HIDE DEF both
      <3>3. Todo' = <<>> \/ Todo' = both
            BY <2>1, <2>2, <3>2
      <3> QED BY <2>1, <2>2, <3>1, <3>2, <3>3 DEF Asked, both
    <2> QED BY <2>3, <2>4
  <1> QED BY <1>1, <1>2, <1>3, <1>4, <1>5
------------------------------------------------------------------------------
\* A number names one body, and what is on its way names an accepted packet.
OneBody == \A p, q \in accepted : p.token = q.token /\ p.seq = q.seq => p = q
HeldKnown ==
  /\ rx.pc \in {"accepted", "dispatch", "second"} => rx.packet \in accepted
  /\ rx.pc = "matched" =>
       \A q \in accepted : q.token = rx.packet.token /\ q.seq = rx.packet.seq => q = rx.packet
TracedFrom == \A e \in Traced : \E q \in accepted : q.token = e.token /\ q.seq = e.seq

\* An accepted stop is on its way, applied or paid for; the halves of an accepted
\* XY move are so both or neither.
StopsTraced ==
  \A p \in accepted : p.body.op = "emergency-stop" =>
     \/ Stop(p.token, p.seq) \in Traced
     \/ rx.pc \in {"accepted", "dispatch"} /\ rx.packet = p
HalvesTraced ==
  \A p \in accepted : p.body.op = "xy.set" =>
     (Move(p.token, p.seq, p.body.xRef) \in Traced <=> Move(p.token, p.seq, p.body.yRef) \in Traced)

EffectsInv == OneBody /\ HeldKnown /\ TracedFrom /\ StopsTraced /\ HalvesTraced

LEMMA EffectsInvInit == Init => EffectsInv
  <1> SUFFICES ASSUME Init PROVE EffectsInv
      OBVIOUS
  <1>1. Pipe = <<>> /\ dropped = {} /\ accepted = {} /\ rx.pc = "idle"
        BY DEF Init, Pipe, history, Todo, Idle
  <1>2. Traced = {}
        BY <1>1 DEF Traced, Elems
  <1> QED BY <1>1, <1>2 DEF EffectsInv, OneBody, HeldKnown, TracedFrom, StopsTraced, HalvesTraced

\* The steps that move what is on its way, and hold or take no packet.
LEMMA EffectsKept ==
  ASSUME EffectsInv, Traced' = Traced, accepted' = accepted,
         rx' = rx \/ rx.pc \in {"test", "drop", "append"},
         rx' = rx \/ rx'.pc \in {"idle", "test", "drop", "append"}
  PROVE  EffectsInv'
  BY DEF EffectsInv, OneBody, HeldKnown, TracedFrom, StopsTraced, HalvesTraced

LEMMA EffectsInvNext == RealtimeInv /\ RealtimeInv' /\ EffectsInv /\ [Next]_vars => EffectsInv'
  <1> SUFFICES ASSUME RealtimeInv, RealtimeInv', EffectsInv, [Next]_vars PROVE EffectsInv'
      OBVIOUS
  <1>1. Quiet => Traced' = Traced
        BY QuietPipe DEF Traced
  <1>2. CASE Arming \/ TestLength \/ AppendCommand \/ Drain \/ UNCHANGED vars
    <2>1. Traced' = Traced
          BY <1>1, <1>2 DEF Quiet
    <2>2. accepted' = accepted
          BY <1>2 DEF Arming, ArmToken, DisarmToken, SetRefs, ResetSeq, TestLength, AppendCommand,
                      Drain, DrainTest, DrainPop, vars
    <2>3. CASE Arming \/ Drain \/ UNCHANGED vars
      <3>1. rx' = rx
            BY <2>3 DEF Arming, ArmToken, DisarmToken, SetRefs, ResetSeq, Drain, DrainTest, DrainPop, vars
      <3> QED BY <2>1, <2>2, <3>1, EffectsKept
    <2>4. CASE TestLength \/ AppendCommand
      <3>1. rx.pc \in {"test", "append"} /\ rx \in Enqueuing
            BY <2>4 DEF TestLength, AppendCommand, RealtimeInv, RxOK, Idle, Holding
      <3>2. rx'.pc \in {"idle", "test", "drop", "append"}
            BY <2>4, <3>1 DEF TestLength, AppendCommand, Enqueuing, Continue, Idle
      <3> QED BY <2>1, <2>2, <3>1, <3>2, EffectsKept
    <2> QED BY <1>2, <2>3, <2>4
  <1>3. CASE DropOldest
    <2>1. Traced' = Traced
          BY <1>3, DropPipe
    <2>2. accepted' = accepted /\ rx.pc = "drop" /\ rx \in Enqueuing
          BY <1>3 DEF DropOldest, RealtimeInv, RxOK, Idle, Holding
    <2>3. rx'.pc \in {"idle", "append"}
          BY <1>3, <2>2 DEF DropOldest, Idle, Enqueuing
    <2> QED BY <2>1, <2>2, <2>3, EffectsKept
  <1>4. ASSUME NEW p \in Packets, Accept(p) PROVE EffectsInv'
    <2>1. Traced' = Traced
          BY <1>1, <1>4 DEF Quiet
    <2>2. /\ accepted' = accepted /\ rx' = [pc |-> "matched", packet |-> p] /\ rx.pc = "idle"
          /\ \A q \in accepted : q.token = p.token /\ q.seq = p.seq => q = p
          BY <1>4 DEF Accept
    <2> QED BY <2>1, <2>2 DEF EffectsInv, OneBody, HeldKnown, TracedFrom, StopsTraced, HalvesTraced
  <1>5. CASE TestSeq
    <2>1. Traced' = Traced
          BY <1>1, <1>5 DEF Quiet
    <2>2. rx \in Holding /\ rx.pc = "matched"
          BY <1>5 DEF TestSeq, RealtimeInv, RxOK, Idle, Enqueuing
    <2>3. CASE rx.packet.seq > lastSeq
      <3> DEFINE p == rx.packet
      <3>1. accepted' = accepted \cup {p} /\ rx'.pc = "accepted" /\ rx'.packet = p
            BY <1>5, <2>2, <2>3 DEF TestSeq, Holding
      <3>2. \A q \in accepted : q.token = p.token /\ q.seq = p.seq => q = p
            BY <2>2 DEF EffectsInv, HeldKnown
      <3> HIDE DEF p
      <3>3. OneBody'
            BY <3>1, <3>2 DEF EffectsInv, OneBody
      <3>4. HeldKnown' /\ TracedFrom' /\ StopsTraced'
            BY <2>1, <2>2, <3>1 DEF EffectsInv, HeldKnown, TracedFrom, StopsTraced
      <3>5. p \in accepted \/ \A r : Move(p.token, p.seq, r) \notin Traced
        <4> SUFFICES ASSUME NEW r, Move(p.token, p.seq, r) \in Traced PROVE p \in accepted
            OBVIOUS
        <4>1. PICK q \in accepted : q.token = Move(p.token, p.seq, r).token
                                     /\ q.seq = Move(p.token, p.seq, r).seq
              BY DEF EffectsInv, TracedFrom
        <4>2. q.token = p.token /\ q.seq = p.seq
              BY <4>1 DEF Move
        <4> QED BY <3>2, <4>2
      <3>6. HalvesTraced'
            BY <2>1, <3>1, <3>5 DEF EffectsInv, HalvesTraced
      <3> QED BY <3>3, <3>4, <3>6 DEF EffectsInv
    <2>4. CASE ~(rx.packet.seq > lastSeq)
      <3>1. accepted' = accepted /\ rx'.pc = "idle"
            BY <1>5, <2>4 DEF TestSeq, Idle
      <3> QED BY <2>1, <2>2, <3>1 DEF EffectsInv, OneBody, HeldKnown, TracedFrom, StopsTraced, HalvesTraced
    <2> QED BY <2>3, <2>4
  <1>6. CASE TakeSeq
    <2>1. Traced' = Traced
          BY <1>1, <1>6 DEF Quiet
    <2>2. rx \in Holding /\ rx.pc = "accepted" /\ accepted' = accepted
          BY <1>6 DEF TakeSeq, RealtimeInv, RxOK, Idle, Enqueuing
    <2>3. rx'.pc = "dispatch" /\ rx'.packet = rx.packet
          BY <1>6, <2>2 DEF TakeSeq, Holding
    <2> QED BY <2>1, <2>2, <2>3 DEF EffectsInv, OneBody, HeldKnown, TracedFrom, StopsTraced, HalvesTraced
  <1>7. CASE Dispatch \/ DispatchXY
    <2> DEFINE p == rx.packet
    <2>1. /\ p \in Packets /\ rx \in Holding /\ accepted' = accepted
          /\ Traced' = Traced \cup Elems(Todo') /\ Asked(p, Todo')
          /\ \/ rx'.pc \in {"idle", "test"}
             \/ rx' = [rx EXCEPT !.pc = "second"]
          BY <1>7, Dispatched
    <2>2. p \in accepted /\ rx.pc \in {"dispatch", "second"}
          BY <1>7 DEF Dispatch, DispatchXY, EffectsInv, HeldKnown
    <2>3. rx'.pc \in {"idle", "test"} \/ (rx'.pc = "second" /\ rx'.packet = p)
          BY <2>1 DEF Holding
    <2> HIDE DEF p
    <2>4. OneBody' /\ HeldKnown'
          BY <2>1, <2>2, <2>3 DEF EffectsInv, OneBody, HeldKnown
    <2>5. \/ Elems(Todo') = {} /\ p.body.op # "emergency-stop"
          \/ p.body.op = "parameter.set" /\ Elems(Todo') = {Move(p.token, p.seq, p.body.ref)}
          \/ p.body.op = "emergency-stop" /\ Elems(Todo') = {Stop(p.token, p.seq)}
          \/ /\ p.body.op = "xy.set"
             /\ Elems(Todo') = {Move(p.token, p.seq, p.body.xRef), Move(p.token, p.seq, p.body.yRef)}
          BY <2>1 DEF Asked, Elems
    <2>6. \A e \in Elems(Todo') : e.token = p.token /\ e.seq = p.seq
          BY <2>5 DEF Move, Stop
    <2>7. TracedFrom'
          BY <2>1, <2>2, <2>6 DEF EffectsInv, TracedFrom
    <2>8. StopsTraced'
          BY <1>7, <2>1, <2>2, <2>3, <2>5 DEF EffectsInv, StopsTraced, p
    <2>9. HalvesTraced'
      <3> SUFFICES ASSUME NEW q \in accepted, q.body.op = "xy.set"
                   PROVE  Move(q.token, q.seq, q.body.xRef) \in Traced'
                             <=> Move(q.token, q.seq, q.body.yRef) \in Traced'
          BY <2>1 DEF HalvesTraced
      <3>1. Move(q.token, q.seq, q.body.xRef) \in Traced
                             <=> Move(q.token, q.seq, q.body.yRef) \in Traced
            BY DEF EffectsInv, HalvesTraced
      <3>2. CASE q = p
        <4>1. \/ Elems(Todo') = {}
              \/ Elems(Todo') = {Move(q.token, q.seq, q.body.xRef), Move(q.token, q.seq, q.body.yRef)}
              BY <2>5, <3>2
        <4> QED BY <2>1, <3>1, <4>1
      <3>3. CASE q # p
        <4>1. \A r : Move(q.token, q.seq, r) \notin Elems(Todo')
          <5> SUFFICES ASSUME NEW r, Move(q.token, q.seq, r) \in Elems(Todo') PROVE FALSE
              OBVIOUS
          <5>1. q.token = p.token /\ q.seq = p.seq
                BY <2>6 DEF Move
          <5> QED BY <2>2, <3>3, <5>1 DEF EffectsInv, OneBody
        <4> QED BY <2>1, <3>1, <4>1
      <3> QED BY <3>2, <3>3
    <2> QED BY <2>4, <2>7, <2>8, <2>9 DEF EffectsInv
  <1> QED BY <1>2, <1>3, <1>4, <1>5, <1>6, <1>7 DEF Next, Receiver

\* What Live has applied and what making room has cost are all that is traced once
\* everything has been drained.
LEMMA SettledTrace ==
  ASSUME RealtimeInv, Settled
  PROVE  /\ Traced = Elems(applied) \cup dropped /\ rx.pc = "idle"
  <1>1. Todo = <<>> /\ queue = <<>> /\ rx.pc = "idle" /\ applied \in Seq(Queued)
        BY Pipes DEF Settled, Idle, Todo
  <1>2. Pipe = applied
        BY <1>1, ConcatEmptySeq DEF Pipe, history
  <1> QED BY <1>1, <1>2 DEF Traced

\* Every emergency stop that passed the sequence test is applied by the drain, or was
\* deleted to make room, once nothing is on its way: no interleaving of receiver and
\* drain loses one. (realtime_server.py, _enqueue; __init__.py, _drain_realtime_queue)
THEOREM StopsReachLive == Spec => []AcceptedStopIsApplied
  <1>1. RealtimeInv /\ EffectsInv => AcceptedStopIsApplied
        BY SettledTrace DEF EffectsInv, StopsTraced, AcceptedStopIsApplied, Elems
  <1> QED BY <1>1, RealtimeInvInit, RealtimeInvNext, EffectsInvInit, EffectsInvNext, PTL DEF Spec

\* Both halves of an accepted XY move are applied or neither is, whatever is re-armed
\* between the two membership tests and however often the packet comes again, unless
\* making room has cost one of them. (realtime_server.py, _dispatch, xy.set)
THEOREM HalvesStayTogether == Spec => []XYBothUnlessLost
  <1>1. RealtimeInv /\ EffectsInv => XYBothUnlessLost
    <2> SUFFICES ASSUME RealtimeInv, EffectsInv, Settled,
                        NEW p \in accepted, p.body.op = "xy.set",
                        ~Lost(p, p.body.xRef), ~Lost(p, p.body.yRef)
                 PROVE  Took(p, p.body.xRef) <=> Took(p, p.body.yRef)
        BY DEF XYBothUnlessLost
    <2>1. \A r : Took(p, r) <=> Move(p.token, p.seq, r) \in Elems(applied)
          BY DEF Took, Elems
    <2> QED BY <2>1, SettledTrace DEF EffectsInv, HalvesTraced, Lost
  <1> QED BY <1>1, RealtimeInvInit, RealtimeInvNext, EffectsInvInit, EffectsInvNext, PTL DEF Spec
------------------------------------------------------------------------------
XYAccepted(tok, n) == \E p \in accepted : p.body.op = "xy.set" /\ p.token = tok /\ p.seq = n

\* InOrder, of any sequence of entries.
Ordered(s, tok) ==
  \A i, j \in DOMAIN s : i < j /\ s[i].token = tok /\ s[j].token = tok =>
    \/ s[i].seq < s[j].seq
    \/ s[i].seq = s[j].seq /\ j = i + 1 /\ XYAccepted(tok, s[i].seq)

Carries(tok) == rx.pc \in {"matched", "accepted", "dispatch", "second"} /\ rx.packet.token = tok

\* Tokens are handed out once: nothing is of a token that is yet to come.
SessionOK ==
  /\ armedToken # NoToken => armedToken <= session
  /\ \A i \in DOMAIN Pipe : Pipe[i].token <= session
  /\ \A tok \in 1..Tokens : Carries(tok) => tok <= session
Newer == rx.pc = "accepted" => rx.packet.seq > lastSeq
\* Until arm() returns nobody has used its token.
Unused ==
  arming # "none" /\ armedToken # NoToken =>
    /\ \A i \in DOMAIN Pipe : Pipe[i].token # armedToken
    /\ ~Carries(armedToken)
\* While a token is armed, last_seq is ahead of its commands, and between the
\* assignment of last_seq and the last append of the packet ahead of all others.
Taken == rx.pc \in {"dispatch", "second"} /\ rx.packet.token = armedToken
Fresh ==
  arming = "none" /\ armedToken # NoToken =>
    /\ Ordered(Pipe, armedToken)
    /\ \A i \in DOMAIN Pipe : Pipe[i].token = armedToken =>
         Pipe[i].seq <= lastSeq /\ (Taken => Pipe[i].seq < lastSeq)
    /\ Taken => rx.packet.seq = lastSeq
OrderInv == SessionOK /\ Newer /\ Unused /\ Fresh

\* The numbers an entry of the pipe carries.
LEMMA PipeEntries ==
  ASSUME RealtimeInv, NEW i \in DOMAIN Pipe
  PROVE  Pipe[i].token \in 1..Tokens /\ Pipe[i].seq \in 0..MaxSeq
  <1>1. Pipe[i] \in Queued
        BY Pipes, LenProperties, ElementOfSeq
  <1> QED BY <1>1 DEF Queued, Move, Stop

LEMMA OrderInvInit == Init => OrderInv
  <1> SUFFICES ASSUME Init PROVE OrderInv
      OBVIOUS
  <1>1. Pipe = <<>> /\ rx.pc = "idle" /\ arming = "none" /\ armedToken = NoToken
        BY DEF Init, Pipe, history, Todo, Idle
  <1> QED BY <1>1 DEF OrderInv, SessionOK, Newer, Unused, Fresh, Carries

LEMMA ThinnedItself == \A s : Thinned(s, s)
  <1> TAKE s
  <1> DEFINE m == [i \in DOMAIN s |-> i]
  <1>1. m \in [DOMAIN s -> DOMAIN s] /\ \A i \in DOMAIN s : m[i] = i
        OBVIOUS
  <1> QED BY <1>1 DEF Thinned

\* What is left of an ordered pipe is ordered: two entries that were not next to
\* each other may become so, the halves of a move never part.
LEMMA ThinnedOrdered ==
  ASSUME NEW s \in Seq(Queued), NEW t \in Seq(Queued), NEW tok, Thinned(s, t), Ordered(s, tok),
         accepted \subseteq accepted'
  PROVE  Ordered(t, tok)'
  <1>1. PICK m \in [DOMAIN t -> DOMAIN s] :
          /\ \A i \in DOMAIN t : t[i] = s[m[i]]
          /\ \A i, j \in DOMAIN t : i < j => m[i] < m[j]
        BY DEF Thinned
  <1>2. /\ DOMAIN t = 1..Len(t) /\ DOMAIN s = 1..Len(s) /\ Len(t) \in Nat /\ Len(s) \in Nat
        BY LenProperties
  <1>3. \A n : XYAccepted(tok, n) => XYAccepted(tok, n)'
        BY DEF XYAccepted
  <1> SUFFICES ASSUME NEW i \in DOMAIN t, NEW j \in DOMAIN t,
                      i < j, t[i].token = tok, t[j].token = tok
               PROVE  \/ t[i].seq < t[j].seq
                      \/ t[i].seq = t[j].seq /\ j = i + 1 /\ XYAccepted(tok, t[i].seq)'
      BY DEF Ordered
  <1>4. m[i] \in DOMAIN s /\ m[j] \in DOMAIN s /\ m[i] < m[j] /\ t[i] = s[m[i]] /\ t[j] = s[m[j]]
        BY <1>1
  <1>5. \/ t[i].seq < t[j].seq
        \/ t[i].seq = t[j].seq /\ m[j] = m[i] + 1 /\ XYAccepted(tok, t[i].seq)
        BY <1>4 DEF Ordered
  <1>6. CASE m[j] = m[i] + 1
    <2>1. CASE j = i + 1
          BY <1>3, <1>5, <2>1
    <2>2. CASE j # i + 1
      <3>1. i + 1 \in DOMAIN t /\ i < i + 1 /\ i + 1 < j
            BY <1>2, <2>2
      <3>2. m[i] < m[i + 1] /\ m[i + 1] < m[j] /\ m[i + 1] \in DOMAIN s
            BY <1>1, <3>1
      <3> QED BY <1>2, <1>4, <1>6, <3>2
    <2> QED BY <2>1, <2>2
  <1> QED BY <1>5, <1>6

\* A step that hands out no token and takes no packet keeps the order.
LEMMA OrderKept ==
  ASSUME RealtimeInv, RealtimeInv', OrderInv, Thinned(Pipe, Pipe'), UNCHANGED <<armVars, lastSeq>>,
         accepted \subseteq accepted',
         \/ rx' = rx
         \/ rx'.pc \in {"idle", "test", "drop", "append"}
  PROVE  OrderInv'
  <1>1. PICK m \in [DOMAIN Pipe' -> DOMAIN Pipe] : \A i \in DOMAIN Pipe' : Pipe'[i] = Pipe[m[i]]
        BY DEF Thinned
  <1>2. /\ UNCHANGED <<armedToken, session, arming, lastSeq>>
        /\ \A tok : Carries(tok)' => Carries(tok)
        /\ Taken' => Taken /\ rx' = rx
        /\ rx'.pc = "accepted" => rx' = rx
        BY DEF armVars, Carries, Taken
  <1>3. SessionOK' /\ Newer' /\ Unused'
        BY <1>1, <1>2 DEF OrderInv, SessionOK, Newer, Unused
  <1>4. Fresh'
    <2> SUFFICES ASSUME arming = "none", armedToken # NoToken
                 PROVE  /\ Ordered(Pipe, armedToken)'
                        /\ \A i \in DOMAIN Pipe' : Pipe'[i].token = armedToken =>
                              Pipe'[i].seq <= lastSeq /\ (Taken' => Pipe'[i].seq < lastSeq)
                        /\ Taken' => rx'.packet.seq = lastSeq
        BY <1>2 DEF Fresh
    <2>1. Ordered(Pipe, armedToken)'
      <3>1. Ordered(Pipe, armedToken) /\ Pipe \in Seq(Queued) /\ Pipe' \in Seq(Queued)
            BY Pipes, PipesNext DEF OrderInv, Fresh
      <3>2. \A tok : Ordered(Pipe, tok) => Ordered(Pipe, tok)'
        <4> SUFFICES ASSUME NEW tok, Ordered(Pipe, tok) PROVE Ordered(Pipe, tok)'
            OBVIOUS
        <4> DEFINE s == Pipe  t == Pipe'
        <4> QED BY <3>1, ThinnedOrdered DEF Ordered
      <3>3. armedToken' = armedToken
            BY <1>2
      <3>4. ASSUME NEW tok, tok = armedToken, Ordered(Pipe, tok)' PROVE Ordered(Pipe, armedToken)'
            BY ONLY <3>3, <3>4 DEF Ordered, XYAccepted
      <3>5. Ordered(Pipe, armedToken) => \E tok : tok = armedToken /\ Ordered(Pipe, tok)
            BY ONLY DEF Ordered, XYAccepted
      <3> QED BY <3>1, <3>2, <3>4, <3>5
    <2> QED BY <1>1, <1>2, <2>1 DEF OrderInv, Fresh
  <1> QED BY <1>3, <1>4 DEF OrderInv

\* Every step keeps it: last_seq is taken before the packet's commands join the pipe.
LEMMA OrderInvNext ==
  RealtimeInv /\ RealtimeInv' /\ EffectsInv /\ OrderInv /\ [Next]_vars => OrderInv'
  <1> SUFFICES ASSUME RealtimeInv, RealtimeInv', EffectsInv, OrderInv, [Next]_vars PROVE OrderInv'
      OBVIOUS
  <1>0. /\ session \in 0..Tokens /\ Tokens \in Nat /\ NoToken \notin 1..Tokens /\ MaxSeq \in Nat
        /\ armedToken \in 1..Tokens \cup {NoToken} /\ lastSeq \in -1..MaxSeq
        BY RealtimeAssumption DEF RealtimeInv, TypeOK
  <1>1. Quiet => Pipe' = Pipe
        BY QuietPipe
  <1>2. CASE TestLength \/ AppendCommand \/ Drain \/ UNCHANGED vars
    <2>1. Thinned(Pipe, Pipe')
          BY <1>1, <1>2, ThinnedItself DEF Quiet
    <2>2. UNCHANGED <<armVars, lastSeq, accepted>>
          BY <1>2 DEF TestLength, AppendCommand, Drain, DrainTest, DrainPop, vars, armVars
    <2>3. rx' = rx \/ rx'.pc \in {"idle", "test", "drop", "append"}
      <3>1. CASE TestLength
        <4>1. rx \in Enqueuing
              BY <3>1 DEF TestLength, RealtimeInv, RxOK, Idle, Holding
        <4> QED BY <3>1, <4>1 DEF TestLength, Enqueuing
      <3>2. CASE AppendCommand
            BY <3>2 DEF AppendCommand, Continue, Idle
      <3>3. CASE Drain \/ UNCHANGED vars
            BY <3>3 DEF Drain, DrainTest, DrainPop, vars
      <3> QED BY <1>2, <3>1, <3>2, <3>3
    <2> QED BY <2>1, <2>2, <2>3, OrderKept
  <1>3. CASE DropOldest
    <2>1. Thinned(Pipe, Pipe')
          BY <1>3, DropPipe
    <2>2. UNCHANGED <<armVars, lastSeq, accepted>> /\ rx.pc = "drop" /\ rx \in Enqueuing
          BY <1>3 DEF DropOldest, RealtimeInv, RxOK, Idle, Holding
    <2>3. rx'.pc \in {"idle", "append"}
          BY <1>3, <2>2 DEF DropOldest, Idle, Enqueuing
    <2> QED BY <2>1, <2>2, <2>3, OrderKept
  <1>4. CASE Arming
    <2>1. /\ Pipe' = Pipe /\ rx' = rx /\ accepted' = accepted
          /\ \A tok : Carries(tok)' <=> Carries(tok)
      <3>1. rx' = rx /\ accepted' = accepted
            BY <1>4 DEF Arming, ArmToken, DisarmToken, SetRefs, ResetSeq
      <3> QED BY <1>1, <1>4, <3>1 DEF Quiet, Carries
    <2>2. CASE ArmToken
      <3>1. /\ session' = session + 1 /\ armedToken' = session + 1 /\ arming' = "refs"
            /\ lastSeq' = lastSeq /\ session + 1 \in 1..Tokens
            BY <1>0, <2>2 DEF ArmToken
      <3>2. \A i \in DOMAIN Pipe : Pipe[i].token \in Int /\ Pipe[i].token <= session
            BY PipeEntries DEF OrderInv, SessionOK
      <3>3. ~Carries(session + 1)
            BY <1>0, <3>1 DEF OrderInv, SessionOK
      <3>4. SessionOK'
            BY <1>0, <2>1, <3>1, <3>2 DEF OrderInv, SessionOK
      <3>5. Unused'
            BY <1>0, <2>1, <3>1, <3>2, <3>3 DEF Unused
      <3> QED BY <2>1, <3>1, <3>4, <3>5 DEF OrderInv, Newer, Fresh
    <2>3. CASE DisarmToken
          BY <2>1, <2>3 DEF DisarmToken, OrderInv, SessionOK, Newer, Unused, Fresh
    <2>4. CASE SetRefs
          BY <2>1, <2>4 DEF SetRefs, OrderInv, SessionOK, Newer, Unused, Fresh
    <2>5. CASE ResetSeq
      <3>1. UNCHANGED <<armedToken, session>> /\ arming = "seq" /\ arming' = "none" /\ lastSeq' = -1
            BY <2>5 DEF ResetSeq
      <3>2. SessionOK' /\ Unused'
            BY <2>1, <3>1 DEF OrderInv, SessionOK, Unused
      <3>3. Newer'
        <4>1. rx.pc = "accepted" => rx.packet \in Packets
              BY DEF RealtimeInv, TypeOK
        <4> QED BY <1>0, <2>1, <3>1, <4>1 DEF Newer, Packets
      <3>4. Fresh'
        <4>1. armedToken # NoToken =>
                (\A i \in DOMAIN Pipe : Pipe[i].token # armedToken) /\ ~Carries(armedToken)
              BY <3>1 DEF OrderInv, Unused
        <4>2. Taken => Carries(armedToken)
              BY DEF Taken, Carries
        <4>3. Taken' <=> Taken
              BY <2>1, <3>1 DEF Taken
        <4> QED BY <2>1, <3>1, <4>1, <4>2, <4>3 DEF Fresh, Ordered
      <3> QED BY <3>2, <3>3, <3>4 DEF OrderInv
    <2> QED BY <1>4, <2>2, <2>3, <2>4, <2>5 DEF Arming
  <1>5. ASSUME NEW p \in Packets, Accept(p) PROVE OrderInv'
    <2>1. /\ Pipe' = Pipe /\ UNCHANGED <<armedToken, session, arming, lastSeq, accepted>>
          /\ arming = "none" /\ p.token = armedToken
          /\ rx' = [pc |-> "matched", packet |-> p]
          BY <1>1, <1>5 DEF Quiet, Accept, armVars
    <2>2. p.token <= session /\ \A tok : Carries(tok)' => tok = p.token
      <3>1. p.token \in 1..Tokens
            BY DEF Packets
      <3> QED BY <1>0, <2>1, <3>1 DEF OrderInv, SessionOK, Carries
    <2>3. ~Taken' /\ rx'.pc = "matched"
          BY <2>1 DEF Taken
    <2> QED BY <2>1, <2>2, <2>3 DEF OrderInv, SessionOK, Newer, Unused, Fresh, Ordered, XYAccepted
  <1>6. CASE TestSeq
    <2>1. /\ Pipe' = Pipe /\ UNCHANGED <<armedToken, session, arming, lastSeq>>
          /\ accepted \subseteq accepted' /\ rx \in Holding
          BY <1>1, <1>6 DEF Quiet, TestSeq, armVars, RealtimeInv, RxOK, Idle, Enqueuing
    <2>2. \/ rx'.pc = "idle"
          \/ rx'.pc = "accepted" /\ rx.pc = "matched" /\ rx'.packet = rx.packet
             /\ rx.packet.seq > lastSeq
          BY <1>6, <2>1 DEF TestSeq, Idle, Holding
    <2>3. ~Taken' /\ \A tok : Carries(tok)' => Carries(tok)
          BY <2>2 DEF Taken, Carries
    <2>4. \A tok : Ordered(Pipe, tok) => Ordered(Pipe, tok)'
          BY <2>1 DEF Ordered, XYAccepted
    <2>5. SessionOK' /\ Newer' /\ Unused'
          BY <2>1, <2>2, <2>3 DEF OrderInv, SessionOK, Newer, Unused
    <2>6. Fresh'
      <3>1. armedToken' = armedToken /\ Ordered(Pipe, armedToken) => Ordered(Pipe, armedToken)'
            BY <2>4 DEF Ordered, XYAccepted
      <3> QED BY <2>1, <2>3, <3>1 DEF OrderInv, Fresh
    <2> QED BY <2>5, <2>6 DEF OrderInv
  <1>7. CASE TakeSeq
    <2>1. /\ Pipe' = Pipe /\ UNCHANGED <<armedToken, session, arming, accepted>>
          /\ lastSeq' = rx.packet.seq /\ rx.pc = "accepted" /\ rx \in Holding
          BY <1>1, <1>7 DEF Quiet, TakeSeq, armVars, RealtimeInv, RxOK, Idle, Enqueuing
    <2>2. rx'.pc = "dispatch" /\ rx'.packet = rx.packet
          BY <1>7, <2>1 DEF TakeSeq, Holding
    <2>3. lastSeq < lastSeq' /\ lastSeq' \in 0..MaxSeq
          BY <1>0, <2>1 DEF OrderInv, Newer, Holding, Packets
    <2>4. \A tok : Carries(tok)' <=> Carries(tok)
          BY <2>1, <2>2 DEF Carries
    <2>5. SessionOK' /\ Newer' /\ Unused'
          BY <2>1, <2>2, <2>4 DEF OrderInv, SessionOK, Newer, Unused
    <2>6. Fresh'
      <3>1. \A i \in DOMAIN Pipe : Pipe[i].seq <= lastSeq => Pipe[i].seq < lastSeq'
            BY <1>0, <2>3, PipeEntries
      <3>2. Ordered(Pipe, armedToken) => Ordered(Pipe, armedToken)'
            BY <2>1 DEF Ordered, XYAccepted
      <3>3. \A i \in DOMAIN Pipe : Pipe[i].seq \in Int
            BY PipeEntries
      <3> QED BY <1>0, <2>1, <2>2, <2>3, <3>1, <3>2, <3>3 DEF OrderInv, Fresh
    <2> QED BY <2>5, <2>6 DEF OrderInv
  <1>8. CASE Dispatch \/ DispatchXY
    <2> DEFINE p == rx.packet  t == Todo'
    <2>1. /\ p \in Packets /\ rx \in Holding /\ UNCHANGED <<armedToken, session, arming, lastSeq, accepted>>
          /\ t \in Seq(Queued) /\ Pipe' = Pipe \o t /\ Asked(p, t)
          /\ \/ rx'.pc \in {"idle", "test"}
             \/ rx' = [rx EXCEPT !.pc = "second"] /\ t = <<>>
          BY <1>8, Dispatched DEF armVars
    <2>2. p \in accepted /\ rx.pc \in {"dispatch", "second"}
          BY <1>8 DEF Dispatch, DispatchXY, EffectsInv, HeldKnown
    <2>3. \/ rx'.pc \in {"idle", "test"}
          \/ rx'.pc = "second" /\ rx'.packet = p /\ t = <<>>
          BY <2>1 DEF Holding
    <2>4. /\ Pipe \in Seq(Queued) /\ Len(Pipe) \in Nat /\ DOMAIN Pipe = 1..Len(Pipe) /\ Len(t) \in Nat
          /\ DOMAIN Pipe' = 1..(Len(Pipe) + Len(t))
          /\ \A i \in DOMAIN Pipe' : Pipe'[i] = IF i <= Len(Pipe) THEN Pipe[i] ELSE t[i - Len(Pipe)]
      <3>1. Pipe \in Seq(Queued)
            BY Pipes
      <3> HIDE DEF t
      <3> QED BY <2>1, <3>1, ConcatProperties, LenProperties
    <2>5. /\ \A i \in 1..Len(t) : t[i].token = p.token /\ t[i].seq = p.seq
          /\ Len(t) <= 1 \/ (Len(t) = 2 /\ p.body.op = "xy.set")
      <3> HIDE DEF t, p
      <3> QED BY <2>1 DEF Asked, Move, Stop
    <2> HIDE DEF t, p
    <2>6. \A i \in DOMAIN Pipe' :
             \/ i \in DOMAIN Pipe /\ Pipe'[i] = Pipe[i]
             \/ i > Len(Pipe) /\ Pipe'[i].token = p.token /\ Pipe'[i].seq = p.seq
      <3> SUFFICES ASSUME NEW i \in DOMAIN Pipe', ~(i <= Len(Pipe))
                   PROVE  i > Len(Pipe) /\ Pipe'[i].token = p.token /\ Pipe'[i].seq = p.seq
          BY <2>4
      <3>1. i - Len(Pipe) \in 1..Len(t) /\ i > Len(Pipe)
            BY <2>4
      <3> QED BY <2>4, <2>5, <3>1
    <2>7. Carries(p.token) /\ \A tok : Carries(tok)' => Carries(tok)
          BY <2>2, <2>3 DEF Carries, p
    <2>8. p.token \in 1..Tokens /\ p.seq \in 0..MaxSeq
          BY <2>1 DEF Packets
    <2>9. SessionOK' /\ Newer' /\ Unused'
      <3>1. p.token <= session
            BY <2>7, <2>8 DEF OrderInv, SessionOK
      <3>2. SessionOK'
            BY <2>1, <2>6, <2>7, <3>1 DEF OrderInv, SessionOK
      <3>3. Newer'
            BY <2>3 DEF Newer
      <3>4. Unused'
            BY <2>1, <2>6, <2>7 DEF OrderInv, Unused
      <3> QED BY <3>2, <3>3, <3>4
    <2>10. Fresh'
      <3> SUFFICES ASSUME arming = "none", armedToken # NoToken
                   PROVE  /\ Ordered(Pipe, armedToken)'
                          /\ \A i \in DOMAIN Pipe' : Pipe'[i].token = armedToken =>
                               Pipe'[i].seq <= lastSeq /\ (Taken' => Pipe'[i].seq < lastSeq)
                          /\ Taken' => rx'.packet.seq = lastSeq
          BY <2>1 DEF Fresh
      <3>1. /\ Ordered(Pipe, armedToken)
            /\ \A i \in DOMAIN Pipe : Pipe[i].token = armedToken =>
                  Pipe[i].seq <= lastSeq /\ (p.token = armedToken => Pipe[i].seq < lastSeq)
            /\ p.token = armedToken => p.seq = lastSeq
            BY <2>2 DEF OrderInv, Fresh, Taken, p
      <3>2. Taken' => t = <<>> /\ p.token = armedToken /\ rx'.packet = p
            BY <2>1, <2>3 DEF Taken
      <3>3. t = <<>> => DOMAIN Pipe' = DOMAIN Pipe /\ \A i \in DOMAIN Pipe' : Pipe'[i] = Pipe[i]
        <4>1. t = <<>> => Len(t) = 0
              OBVIOUS
        <4> QED BY <2>4, <4>1
      <3>4. \A i \in DOMAIN Pipe' : Pipe'[i].token = armedToken =>
                 Pipe'[i].seq <= lastSeq /\ (Taken' => Pipe'[i].seq < lastSeq)
        <4> SUFFICES ASSUME NEW i \in DOMAIN Pipe', Pipe'[i].token = armedToken
                     PROVE  Pipe'[i].seq <= lastSeq /\ (Taken' => Pipe'[i].seq < lastSeq)
            OBVIOUS
        <4>1. CASE i \in DOMAIN Pipe /\ Pipe'[i] = Pipe[i]
              BY <3>1, <3>2, <4>1
        <4>2. CASE i > Len(Pipe) /\ Pipe'[i].token = p.token /\ Pipe'[i].seq = p.seq
          <5>1. ~Taken'
            <6> SUFFICES ASSUME Taken' PROVE FALSE
                OBVIOUS
            <6>1. i \in DOMAIN Pipe
                  BY <3>2, <3>3
            <6>2. i \in 1..Len(Pipe)
                  BY <2>4, <6>1
            <6> QED BY <2>4, <4>2, <6>2
          <5>2. p.seq = lastSeq
                BY <3>1, <4>2
          <5> QED BY <1>0, <4>2, <5>1, <5>2
        <4> QED BY <2>6, <4>1, <4>2
      <3>5. Ordered(Pipe, armedToken)'
        <4> SUFFICES ASSUME NEW i \in DOMAIN Pipe', NEW j \in DOMAIN Pipe',
                            i < j, Pipe'[i].token = armedToken, Pipe'[j].token = armedToken
                     PROVE  \/ Pipe'[i].seq < Pipe'[j].seq
                            \/ /\ Pipe'[i].seq = Pipe'[j].seq /\ j = i + 1
                               /\ XYAccepted(armedToken, Pipe'[i].seq)
            BY <2>1 DEF Ordered, XYAccepted
        <4>1. CASE j \in DOMAIN Pipe /\ Pipe'[j] = Pipe[j]
          <5>1. i \in DOMAIN Pipe /\ Pipe'[i] = Pipe[i]
                BY <2>4, <4>1
          <5> QED BY <3>1, <4>1, <5>1 DEF Ordered
        <4>2. CASE j > Len(Pipe) /\ Pipe'[j].token = p.token /\ Pipe'[j].seq = p.seq
          <5>1. CASE i \in DOMAIN Pipe /\ Pipe'[i] = Pipe[i]
                BY <3>1, <4>2, <5>1
          <5>2. CASE i > Len(Pipe) /\ Pipe'[i].token = p.token /\ Pipe'[i].seq = p.seq
            <6>1. Len(t) = 2 /\ p.body.op = "xy.set" /\ j = i + 1
              <7>1. /\ Len(Pipe) \in Nat /\ Len(t) \in Nat
                    /\ i \in 1..(Len(Pipe) + Len(t)) /\ j \in 1..(Len(Pipe) + Len(t))
                    BY <2>4
              <7>2. Len(t) > 1
                    BY <4>2, <5>2, <7>1
              <7>3. Len(t) = 2 /\ p.body.op = "xy.set"
                    BY <2>5, <7>1, <7>2
              <7> QED BY <4>2, <5>2, <7>1, <7>3
            <6>2. XYAccepted(armedToken, p.seq)
                  BY <2>2, <4>2, <6>1 DEF XYAccepted
            <6> QED BY <4>2, <5>2, <6>1, <6>2
          <5> QED BY <2>6, <5>1, <5>2
        <4> QED BY <2>6, <4>1, <4>2
      <3> QED BY <3>1, <3>2, <3>4, <3>5
    <2> QED BY <2>9, <2>10 DEF OrderInv
  <1> QED BY <1>2, <1>3, <1>4, <1>5, <1>6, <1>7, <1>8 DEF Next, Receiver

\* While a token is armed its commands are applied in the order of their packets, none
\* of them twice, although arm() assigns token, refs and last_seq one after the other
\* and the receiver may hold a packet of an older token meanwhile.
\* (realtime_server.py, arm and the last_seq test)
THEOREM NoStaleMove == Spec => []NoStaleMoveWhileArmed
  <1>1. RealtimeInv /\ OrderInv => NoStaleMoveWhileArmed
    <2> SUFFICES ASSUME RealtimeInv, OrderInv, arming = "none", armedToken # NoToken
                 PROVE  InOrder(armedToken)
        BY DEF NoStaleMoveWhileArmed
    <2>1. Ordered(Pipe, armedToken)
          BY DEF OrderInv, Fresh
    <2>2. DOMAIN history \subseteq DOMAIN Pipe /\ \A i \in DOMAIN history : Pipe[i] = history[i]
      <3>1. history \in Seq(Queued) /\ Todo \in Seq(Queued)
            BY Pipes
      <3> QED BY <3>1, ConcatProperties, LenProperties DEF Pipe
    <2> QED BY <2>1, <2>2 DEF Ordered, InOrder, XYAccepted
  <1> QED BY <1>1, RealtimeInvInit, RealtimeInvNext, EffectsInvInit, EffectsInvNext,
             OrderInvInit, OrderInvNext, PTL DEF Spec
==============================================================================
