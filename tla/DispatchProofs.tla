---------------------------- MODULE DispatchProofs ----------------------------
(***************************************************************************)
(* What Dispatch promises of undo steps, of replies and of the admission   *)
(* of a batch, for any requests, any number of slots, retries and edits;   *)
(* and on it what GrooveApply promises of the receipts of groove_apply,    *)
(* for any number of calls in any threads, broken connections and restarts *)
(* of Live.                                                                *)
(*                                                                         *)
(* What Live's thread does with the batches is a behavior of Dispatch that *)
(* restarts may cut off, so the invariants of the first part hold of it.   *)
(* On them rests an account of the batches: each applier's is queued or    *)
(* served once at most, for the script that runs, and its reply has one of *)
(* the few endings that a create_clip and an add_notes_to_clip can have.   *)
(***************************************************************************)
EXTENDS GrooveApply, SequenceTheorems, TLAPS

\* The decision made on the whole request is kept for as long as it is served.
UndoInv ==
  /\ active \in Inputs \cup {None}
  /\ UndoBalanced
  /\ WritesUndoable

\* A command of the request that writes makes the request own an undo step: it is
\* not part of a dry run, and alone it is a mutation. (dispatch.py, owns_undo)
LEMMA WritersOwnUndo ==
  ASSUME NEW r \in Inputs, NEW i \in DOMAIN r.commands,
         r.commands[i].name \in Mutations,
         r.commands[i].name \notin DryRunnable \/ r.commands[i].dry # "yes"
  PROVE  OwnsUndo(r)
<1>1. r \in Requests /\ (~r.batch => Len(r.commands) = 1)
  BY DispatchAssumption
<1>2. ~DryRunOnly(r)
  BY DEF DryRunOnly
<1>3. r.batch \/ r.commands[1].name \in Mutations
  <2>1. CASE r.batch
    BY <2>1
  <2>2. CASE ~r.batch
    <3>1. r.commands \in Seq(Commands) /\ Len(r.commands) = 1
      BY <1>1, <2>2 DEF Requests
    <3>2. DOMAIN r.commands = 1..1
      BY <3>1
    <3>3. i = 1
      BY <3>2
    <3> QED BY <3>3
  <2> QED BY <2>1, <2>2
<1> QED BY <1>2, <1>3 DEF OwnsUndo

\* A reply ends the undo step of its request. (dispatch.py, finally)
LEMMA FinishUndo ==
  ASSUME UndoInv, active # None, NEW rs, Finish(rs)
  PROVE  (active \in Inputs \cup {None})' /\ UndoBalanced'
BY DEF UndoInv, UndoBalanced, Finish

\* A command that ends leaves the undo step open or ends it with the request.
LEMMA CommandEndsUndo ==
  ASSUME UndoInv, active # None, NEW outcome, CommandEnds(outcome)
  PROVE  (active \in Inputs \cup {None})' /\ UndoBalanced'
<1>1. CASE outcome = "ok" /\ at < Len(active.commands)
  BY <1>1 DEF CommandEnds, UndoInv, UndoBalanced, OwnsUndo, DryRunOnly
<1>2. CASE ~(outcome = "ok" /\ at < Len(active.commands))
  <2>1. Finish(Append(results, outcome))
    BY <1>2 DEF CommandEnds
  <2> QED BY <2>1, FinishUndo
<1> QED BY <1>1, <1>2

\* A write of a running command is a write inside the undo step of its request.
LEMMA WrittenUndo ==
  ASSUME UndoInv, Running, Current.name \in Mutations,
         Current.name \notin DryRunnable \/ Current.dry # "yes",
         NEW into, Written(into)
  PROVE  WritesUndoable'
<1>1. active \in Inputs /\ active # None /\ at \in DOMAIN active.commands
  BY DEF UndoInv, Running
<1>2. OwnsUndo(active)
  BY <1>1, WritersOwnUndo DEF Current
<1>3. undo = 1
  BY <1>1, <1>2 DEF UndoInv, UndoBalanced
<1>4. \A w \in writes' : w.undo = 1
  BY <1>3 DEF Written, UndoInv, WritesUndoable
<1> QED BY <1>4 DEF WritesUndoable

LEMMA UndoStep == UndoInv /\ [Next]_vars => UndoInv'
<1> SUFFICES ASSUME UndoInv, [Next]_vars PROVE UndoInv'
  OBVIOUS
<1> DEFINE Owned == (active \in Inputs \cup {None}) /\ UndoBalanced
<1> USE DEF UndoInv
<1>1. CASE TickBegins
  BY <1>1 DEF TickBegins, UndoBalanced, WritesUndoable, OwnsUndo, DryRunOnly
<1>2. CASE TickEnds
  BY <1>2 DEF TickEnds, UndoBalanced, WritesUndoable, OwnsUndo, DryRunOnly
<1>3. ASSUME NEW r \in Inputs, Take(r) PROVE UndoInv'
  <2>1. r # None /\ active = None /\ undo = 0
    BY <1>3, DispatchAssumption DEF Take, UndoBalanced
  <2>2. Owned'
    <3>1. CASE Refused(r)
      BY <1>3, <2>1, <3>1 DEF Take, UndoBalanced
    <3>2. CASE ~Refused(r)
      BY <1>3, <2>1, <3>2 DEF Take, UndoBalanced, OwnsUndo, DryRunOnly
    <3> QED BY <3>1, <3>2
  <2>3. WritesUndoable'
    BY <1>3 DEF Take, WritesUndoable
  <2> QED BY <2>2, <2>3
<1>4. CASE EmptyBatch
  <2>1. Owned'
    BY <1>4, FinishUndo DEF EmptyBatch
  <2>2. WritesUndoable'
    BY <1>4 DEF EmptyBatch, WritesUndoable
  <2> QED BY <2>1, <2>2
<1>5. CASE RejectCommand
  <2>1. Owned'
    BY <1>5, CommandEndsUndo DEF RejectCommand, Running
  <2>2. WritesUndoable'
    BY <1>5 DEF RejectCommand, WritesUndoable
  <2> QED BY <2>1, <2>2
<1>6. CASE CreateClip
  <2>1. Running /\ Current.name = "create_clip"
    BY <1>6 DEF CreateClip, Runnable
  <2>2. Owned'
    BY <1>6, <2>1, CommandEndsUndo DEF CreateClip, Running
  <2>3. WritesUndoable'
    <3>1. CASE writes' = writes
      BY <3>1 DEF WritesUndoable
    <3>2. CASE Current.dry # "yes" /\ Written(taken)
      BY <2>1, <3>2, WrittenUndo DEF Mutations
    <3> QED BY <1>6, <3>1, <3>2 DEF CreateClip
  <2> QED BY <2>2, <2>3
<1>7. CASE AddNotes
  <2>1. Running /\ Current.name = "add_notes_to_clip"
    BY <1>7 DEF AddNotes, Runnable
  <2>2. Owned'
    BY <1>7, <2>1, CommandEndsUndo DEF AddNotes, Running
  <2>3. WritesUndoable'
    <3>1. CASE writes' = writes
      BY <3>1 DEF WritesUndoable
    <3>2. CASE Written(clip[Current.arg])
      BY <2>1, <3>2, WrittenUndo DEF Mutations, DryRunnable
    <3> QED BY <1>7, <3>1, <3>2 DEF AddNotes
  <2> QED BY <2>2, <2>3
<1>8. CASE DeleteClip
  <2>1. Running /\ Current.name = "delete_clip"
    BY <1>8 DEF DeleteClip, Runnable
  <2>2. Owned'
    BY <1>8, <2>1, CommandEndsUndo DEF DeleteClip, Running
  <2>3. WritesUndoable'
    <3>1. CASE writes' = writes
      BY <3>1 DEF WritesUndoable
    <3>2. CASE Written(clip[Current.arg])
      BY <2>1, <3>2, WrittenUndo DEF Mutations, DryRunnable
    <3> QED BY <1>8, <3>1, <3>2 DEF DeleteClip
  <2> QED BY <2>2, <2>3
<1>9. CASE DryTempo
  <2>1. Owned'
    BY <1>9, CommandEndsUndo DEF DryTempo, Runnable, Running
  <2>2. WritesUndoable'
    BY <1>9 DEF DryTempo, WritesUndoable
  <2> QED BY <2>1, <2>2
<1>10. CASE WriteTempo
  <2>1. Owned'
    BY <1>10 DEF WriteTempo, UndoBalanced, OwnsUndo, DryRunOnly
  <2>2. WritesUndoable'
    BY <1>10, WrittenUndo DEF WriteTempo, Runnable, Mutations
  <2> QED BY <2>1, <2>2
<1>11. CASE ReadBack
  <2>1. Running /\ Current.name = "set_tempo" /\ Current.dry # "yes"
    BY <1>11 DEF ReadBack, Runnable
  <2>2. CASE \E outcome \in Outcomes : CommandEnds(outcome) /\ writes' = writes
    BY <2>1, <2>2, CommandEndsUndo DEF Running, WritesUndoable
  <2>3. CASE Written(None) /\ UNCHANGED <<undo, active>>
    <3>1. WritesUndoable'
      BY <2>1, <2>3, WrittenUndo DEF Mutations
    <3>2. Owned'
      BY <2>3 DEF UndoBalanced, OwnsUndo, DryRunOnly
    <3> QED BY <3>1, <3>2
  <2> QED BY <1>11, <2>2, <2>3 DEF ReadBack, Outcomes
<1>12. CASE NoMutation
  <2>1. Owned'
    BY <1>12, CommandEndsUndo DEF NoMutation, Running
  <2>2. WritesUndoable'
    BY <1>12 DEF NoMutation, WritesUndoable
  <2> QED BY <2>1, <2>2
<1>13. CASE LiveRaises
  <2>1. Owned'
    BY <1>13, CommandEndsUndo DEF LiveRaises, Running
  <2>2. WritesUndoable'
    BY <1>13 DEF LiveRaises, WritesUndoable
  <2> QED BY <2>1, <2>2
<1>14. CASE UserEdit
  BY <1>14 DEF UserEdit, live, UndoBalanced, WritesUndoable, OwnsUndo, DryRunOnly
<1>15. CASE UNCHANGED vars
  BY <1>15 DEF vars, live, UndoBalanced, WritesUndoable, OwnsUndo, DryRunOnly
<1> QED
  BY <1>1, <1>2, <1>3, <1>4, <1>5, <1>6, <1>7, <1>8, <1>9, <1>10, <1>11, <1>12, <1>13,
     <1>14, <1>15
  DEF Next, Serve

\* Every write of every request is inside an undo step, and every undo step that
\* the script begins is ended with the request that owns it, whatever the outcome.
THEOREM ChangesCanBeUndone == Spec => [](UndoBalanced /\ WritesUndoable)
<1>1. Init => UndoInv
  BY DispatchAssumption DEF Init, UndoInv, UndoBalanced, WritesUndoable
<1>2. UndoInv => UndoBalanced /\ WritesUndoable
  BY DEF UndoInv
<1> QED BY <1>1, <1>2, UndoStep, PTL DEF Spec
------------------------------------------------------------------------------
(*************************** types ******************************************)
TypeInv == TypeOK /\ UndoInv

LEMMA CurrentType ==
  ASSUME active \in Inputs \cup {None}, Running
  PROVE  /\ active \in Requests /\ active \in Inputs /\ active # None
         /\ Current \in Commands /\ active.commands \in Seq(Commands)
         /\ at \in 1..Len(active.commands) /\ Len(active.commands) \in Nat
BY DispatchAssumption DEF Running, Current, Requests

LEMMA FinishType ==
  ASSUME TypeOK, active \in Inputs, NEW rs \in Seq(Outcomes), Finish(rs)
  PROVE  /\ replies' \subseteq Replies
         /\ active' = None /\ at' = 0
<1>1. taken \in Makers /\ active \in Requests
  BY DispatchAssumption DEF TypeOK, Makers
<1>2. [no |-> taken, req |-> active, refused |-> FALSE, results |-> rs]
        \in Replies
  BY <1>1 DEF Replies
<1> QED BY <1>2 DEF TypeOK, Finish

LEMMA EndsType ==
  ASSUME TypeOK, active \in Inputs, at \in Nat, NEW outcome \in Outcomes, CommandEnds(outcome)
  PROVE  /\ replies' \subseteq Replies
         /\ active' \in Requests \cup {None} /\ at' \in Nat /\ attempt' \in 0..Retries
         /\ results' \in Seq(Outcomes)
<1>1. Append(results, outcome) \in Seq(Outcomes)
  BY DEF TypeOK
<1>2. attempt' = 0 /\ 0 \in 0..Retries
  BY DispatchAssumption DEF CommandEnds
<1>3. CASE outcome = "ok" /\ at < Len(active.commands)
  BY <1>1, <1>2, <1>3 DEF CommandEnds, TypeOK
<1>4. CASE ~(outcome = "ok" /\ at < Len(active.commands))
  <2>1. Finish(Append(results, outcome)) /\ results' = Append(results, outcome)
    BY <1>4 DEF CommandEnds
  <2>2. /\ replies' \subseteq Replies
        /\ active' = None /\ at' = 0
    BY <1>1, <2>1, FinishType
  <2> QED BY <1>1, <1>2, <2>1, <2>2
<1> QED BY <1>3, <1>4

LEMMA WrittenType ==
  ASSUME TypeOK, undo \in Nat, NEW into \in Makers \cup {None}, Written(into)
  PROVE  writes' \subseteq Writes
BY DEF TypeOK, Written, Writes, Makers

LEMMA TypeStep == TypeInv /\ [Next]_vars => TypeInv'
<1> SUFFICES ASSUME TypeInv, [Next]_vars PROVE TypeInv'
  OBVIOUS
<1>0. TypeOK /\ UndoInv /\ active \in Inputs \cup {None} /\ undo \in Nat /\ UndoInv'
  BY UndoStep DEF TypeInv, TypeOK, UndoInv
<1> SUFFICES TypeOK'
  BY <1>0 DEF TypeInv
<1>u. undo' \in 0..1
  BY <1>0 DEF UndoInv, UndoBalanced
<1> USE DispatchAssumption
<1>1. CASE TickBegins \/ TickEnds \/ UNCHANGED vars
  BY <1>0, <1>1 DEF TickBegins, TickEnds, TypeOK, TypeInv, vars, set, live
<1>2. ASSUME NEW r \in Inputs, Take(r) PROVE TypeOK'
  <2>1. taken + 1 \in Makers /\ r \in Requests /\ taken + 1 \in 0..MaxRequests /\ <<>> \in Seq(Outcomes)
    BY <1>0, <1>2 DEF Take, TypeOK, Makers
  <2>2. [no |-> taken + 1, req |-> r, refused |-> TRUE, results |-> <<>>]
          \in Replies
    BY <2>1 DEF Replies
  <2>3. replies' \subseteq Replies
    BY <1>0, <1>2, <2>2 DEF Take, TypeOK
  <2>4. active' \in Requests \cup {None} /\ at' \in Nat
    BY <1>0, <1>2, <2>1 DEF Take, TypeOK
  <2>5. 0 \in 0..Retries
    OBVIOUS
  <2>6. /\ taken' = taken + 1 /\ results' = <<>> /\ attempt' = 0
        /\ UNCHANGED <<inTick, hasUndo, writes, clip, tempo, edits>>
    BY <1>2 DEF Take, set
  <2> QED BY <1>0, <1>u, <2>1, <2>3, <2>4, <2>5, <2>6 DEF TypeOK
<1>4. CASE EmptyBatch
  <2>1. active \in Inputs /\ Finish(<<"invalid">>) /\ <<"invalid">> \in Seq(Outcomes)
    BY <1>0, <1>4 DEF EmptyBatch, Outcomes
  <2>2. /\ replies' \subseteq Replies
        /\ active' = None /\ at' = 0
    BY <1>0, <2>1, FinishType
  <2>3. /\ results' = <<"invalid">> /\ attempt' = 0 /\ 0 \in 0..Retries /\ 0 \in Nat
        /\ UNCHANGED <<inTick, hasUndo, taken, writes, clip, tempo, edits>>
    BY <1>4 DEF EmptyBatch, set
  <2> QED BY <1>0, <1>u, <2>1, <2>2, <2>3 DEF TypeOK
<1>5. ASSUME Running,
             \/ \E outcome \in Outcomes : CommandEnds(outcome)
             \/ UNCHANGED <<active, at, results, replies>> /\ attempt' \in 0..Retries,
             inTick' \in BOOLEAN, UNCHANGED <<hasUndo, taken, edits>>,
             clip' \in [Slots -> Makers \cup {None}], tempo' \in Tempos,
             writes' = writes \/ \E into \in Makers \cup {None} : Written(into)
      PROVE  TypeOK'
  <2>0. active \in Inputs /\ at \in Nat
    BY <1>0, <1>5 DEF Running, TypeOK
  <2>1. writes' \subseteq Writes
    <3>1. CASE writes' = writes
      BY <1>0, <3>1 DEF TypeOK
    <3>2. ASSUME NEW into \in Makers \cup {None}, Written(into)
          PROVE  writes' \subseteq Writes
      BY <1>0, <3>2, WrittenType
    <3> QED BY <1>5, <3>1, <3>2
  <2>2. /\ replies' \subseteq Replies
        /\ active' \in Requests \cup {None} /\ at' \in Nat /\ attempt' \in 0..Retries
        /\ results' \in Seq(Outcomes)
    <3>1. ASSUME NEW outcome \in Outcomes, CommandEnds(outcome)
          PROVE  /\ replies' \subseteq Replies
                 /\ active' \in Requests \cup {None} /\ at' \in Nat /\ attempt' \in 0..Retries
                 /\ results' \in Seq(Outcomes)
      BY <1>0, <2>0, <3>1, EndsType
    <3>2. CASE UNCHANGED <<active, at, results, replies>> /\ attempt' \in 0..Retries
      BY <1>0, <2>0, <3>2 DEF TypeOK
    <3> QED BY <1>5, <3>1, <3>2
  <2> QED BY <1>0, <1>u, <1>5, <2>1, <2>2 DEF TypeOK
<1>6. CASE RejectCommand \/ NoMutation \/ LiveRaises \/ DryTempo
  <2>1. PICK outcome \in Outcomes : CommandEnds(outcome)
    BY <1>6 DEF RejectCommand, NoMutation, LiveRaises, DryTempo, Outcomes
  <2>2. Running /\ UNCHANGED <<inTick, hasUndo, taken, edits, clip, tempo, writes>>
    BY <1>6 DEF RejectCommand, NoMutation, LiveRaises, DryTempo, Runnable, set
  <2>3. inTick' \in BOOLEAN /\ clip' \in [Slots -> Makers \cup {None}] /\ tempo' \in Tempos
    BY <1>0, <2>2 DEF TypeOK
  <2> QED BY <1>5, <2>1, <2>2, <2>3
<1>7. CASE CreateClip
  <2>0. Running /\ UNCHANGED <<inTick, hasUndo, taken, edits, tempo>> /\ taken \in Makers
    BY <1>0, <1>7 DEF CreateClip, Runnable, TypeOK, Makers
  <2>1. PICK outcome \in Outcomes : CommandEnds(outcome)
    BY <1>7 DEF CreateClip, Outcomes
  <2>2. clip' = clip \/ clip' = [clip EXCEPT ![Current.arg] = taken]
    BY <1>7 DEF CreateClip
  <2>3. writes' = writes \/ Written(taken)
    BY <1>7 DEF CreateClip
  <2>4. inTick' \in BOOLEAN /\ clip' \in [Slots -> Makers \cup {None}] /\ tempo' \in Tempos
    BY <1>0, <2>0, <2>2 DEF TypeOK
  <2> QED BY <1>5, <2>0, <2>1, <2>3, <2>4
<1>8. CASE AddNotes
  <2>0. Running /\ UNCHANGED <<inTick, hasUndo, taken, edits, clip, tempo>>
    BY <1>8 DEF AddNotes, Runnable, set
  <2>1. PICK outcome \in Outcomes : CommandEnds(outcome)
    BY <1>8 DEF AddNotes, Outcomes
  <2>3. writes' = writes \/ \E into \in Makers \cup {None} : Written(into)
    <3>1. Current.arg \in MidiSlots => clip[Current.arg] \in Makers \cup {None}
      BY <1>0 DEF TypeOK
    <3> QED BY <1>8, <3>1 DEF AddNotes
  <2>4. inTick' \in BOOLEAN /\ clip' \in [Slots -> Makers \cup {None}] /\ tempo' \in Tempos
    BY <1>0, <2>0 DEF TypeOK
  <2> QED BY <1>5, <2>0, <2>1, <2>3, <2>4
<1>9. CASE DeleteClip
  <2>0. Running /\ Current.name = "delete_clip" /\ UNCHANGED <<inTick, hasUndo, taken, edits, tempo>>
    BY <1>9 DEF DeleteClip, Runnable
  <2>1. PICK outcome \in Outcomes : CommandEnds(outcome)
    BY <1>9 DEF DeleteClip, Outcomes
  <2>2. clip' = clip \/ clip' = [clip EXCEPT ![Current.arg] = None]
    BY <1>9 DEF DeleteClip
  <2>3. writes' = writes \/ Written(clip[Current.arg])
    BY <1>9 DEF DeleteClip
  <2>4. inTick' \in BOOLEAN /\ clip' \in [Slots -> Makers \cup {None}] /\ tempo' \in Tempos
    BY <1>0, <2>0, <2>2 DEF TypeOK
  <2>5. clip[Current.arg] \in Makers \cup {None}
    BY <1>0, <2>0, CurrentType DEF Commands, TypeOK
  <2> QED BY <1>5, <2>0, <2>1, <2>3, <2>4, <2>5
<1>10. CASE WriteTempo
  <2>0. Running /\ Current.name = "set_tempo" /\ UNCHANGED <<hasUndo, taken, edits, clip>>
        /\ tempo' \in {tempo, Current.arg} /\ Written(None) /\ inTick' = FALSE
        /\ UNCHANGED <<active, at, results, replies>> /\ attempt' = 1
    BY <1>10 DEF WriteTempo, Runnable
  <2>1. clip' \in [Slots -> Makers \cup {None}] /\ tempo' \in Tempos
    BY <1>0, <2>0, CurrentType DEF Commands, TypeOK
  <2>2. attempt' \in 0..Retries
    BY <2>0
  <2> QED BY <1>5, <2>0, <2>1, <2>2
<1>11. CASE ReadBack
  <2>0. Running /\ Current.name = "set_tempo" /\ UNCHANGED <<hasUndo, taken, edits, clip>>
    BY <1>11 DEF ReadBack, Runnable
  <2>1. inTick' \in BOOLEAN /\ clip' \in [Slots -> Makers \cup {None}] /\ tempo' \in Tempos
    BY <1>0, <1>11, <2>0, CurrentType DEF ReadBack, Commands, TypeOK
  <2>2. writes' = writes \/ Written(None)
    BY <1>11 DEF ReadBack
  <2>3. \/ \E outcome \in Outcomes : CommandEnds(outcome)
        \/ UNCHANGED <<active, at, results, replies>> /\ attempt' \in 0..Retries
    BY <1>0, <1>11 DEF ReadBack, Outcomes, TypeOK
  <2> QED BY <1>5, <2>0, <2>1, <2>2, <2>3
<1>12. CASE UserEdit
  <2>1. clip' \in [Slots -> Makers \cup {None}]
    BY <1>0, <1>12 DEF UserEdit, TypeOK, User, Makers
  <2>2. tempo' \in Tempos /\ edits' \in 0..MaxEdits
    BY <1>0, <1>12 DEF UserEdit, TypeOK
  <2> QED BY <1>0, <1>12, <2>1, <2>2 DEF UserEdit, TypeOK, live
<1> QED
  BY <1>1, <1>2, <1>4, <1>6, <1>7, <1>8, <1>9, <1>10, <1>11, <1>12 DEF Next, Serve

LEMMA TypeInit == Init => TypeInv
<1> SUFFICES ASSUME Init PROVE TypeInv
  OBVIOUS
<1>1. TypeOK
  <2>1. clip \in [Slots -> Makers \cup {None}]
    BY DispatchAssumption DEF Init, Makers, User
  <2>2. taken \in 0..MaxRequests /\ edits \in 0..MaxEdits /\ attempt \in 0..Retries /\ undo \in 0..1
    BY DispatchAssumption DEF Init
  <2>3. results \in Seq(Outcomes) /\ replies \subseteq Replies /\ writes \subseteq Writes
    BY DEF Init
  <2> QED BY <2>1, <2>2, <2>3 DEF Init, TypeOK
<1>2. UndoInv
  BY DispatchAssumption DEF Init, UndoInv, UndoBalanced, WritesUndoable
<1> QED BY <1>1, <1>2 DEF TypeInv

\* Every variable keeps its type: at most one undo step is open, a waiting command is
\* written no more than Retries times, and a clip is the user's or of a request taken.
THEOREM TypeCorrect == Spec => []TypeOK
<1>1. TypeInv => TypeOK
  BY DEF TypeInv
<1> QED BY <1>1, TypeInit, TypeStep, PTL DEF Spec
------------------------------------------------------------------------------
(*************************** what replies tell *****************************)
\* Command i of request no has written.
WroteIn(no, i) == \E w \in writes : w.req = no /\ w.index = i
DryCommand(c) == c.dry = "yes" /\ c.name \in DryRunnable

\* Writes and replies belong to requests that were taken, and the active one has no
\* reply yet.
TakenOK ==
  /\ \A w \in writes : w.req <= taken
  /\ \A rep \in replies :
       /\ rep.req \in Inputs /\ rep.no <= taken
       /\ rep.no = taken => active = None

\* The request being served: all its commands so far ended well, each has written
\* exactly what it is to write, and the one that waits has written too.
ActiveOK ==
  active # None =>
    LET cs == active.commands IN
    /\ at = Len(results) + 1 /\ (cs # <<>> => at \in DOMAIN cs) /\ (cs = <<>> => at = 1)
    /\ \A i \in DOMAIN results : results[i] = "ok"
    /\ \A i \in DOMAIN cs :
         /\ i > at \/ DryCommand(cs[i]) => ~WroteIn(taken, i)
         /\ i < at /\ cs[i].name \in Mutations /\ cs[i].dry = "no" => WroteIn(taken, i)
    /\ attempt > 0 => WroteIn(taken, at)

TellInv == TypeInv /\ TakenOK /\ ActiveOK /\ RepliesTellTheSet


\* A command ends, of whatever kind: what it has written by then, and why.
Ending(outcome) ==
  /\ Running /\ CommandEnds(outcome) /\ outcome \in Outcomes /\ UNCHANGED <<taken, inTick>>
  /\ writes' = writes \/ (~DryCommand(Current) /\ \E into : Written(into))
  /\ outcome = "ok" /\ Current.name \in Mutations /\ Current.dry = "no" =>
       attempt > 0 \/ \E into : Written(into)
  /\ outcome = "occupied" => Current.name = "create_clip" /\ clip[Current.arg] # None
  /\ \A s \in Slots : \/ clip'[s] = clip[s] \/ clip'[s] = None
                      \/ outcome = "ok" /\ Current.name = "create_clip" /\ Current.arg = s
\* A command writes and waits for the next tick.
Waiting ==
  /\ Running /\ Current.name = "set_tempo" /\ Current.dry # "yes" /\ (active.batch => Current.dry # "bad")
  /\ \E into : Written(into)
  /\ attempt' > 0 /\ inTick' = FALSE /\ UNCHANGED <<taken, active, at, results, replies, clip>>
\* Nothing happens to the request that is served.
Standing == UNCHANGED <<taken, active, at, attempt, results, replies, writes>>

LEMMA StepKinds ==
  ASSUME TypeInv, [Next]_vars
  PROVE  \/ \E r \in Inputs : Take(r)
         \/ EmptyBatch
         \/ \E outcome \in Outcomes : Ending(outcome)
         \/ Waiting
         \/ Standing /\ (clip' = clip \/ (~inTick /\ inTick' = inTick)) /\ (attempt = 0 /\ active # None /\ inTick => inTick')
<1> SUFFICES ASSUME TypeInv, [Next]_vars, \A r \in Inputs : ~Take(r), ~EmptyBatch
             PROVE  (\E outcome \in Outcomes : Ending(outcome)) \/ Waiting
                    \/ (Standing /\ (clip' = clip \/ (~inTick /\ inTick' = inTick))
                                 /\ (attempt = 0 /\ active # None /\ inTick => inTick'))
  OBVIOUS
<1>0. clip \in [Slots -> Makers \cup {None}] /\ inTick \in BOOLEAN /\ attempt \in Nat
  BY DispatchAssumption DEF TypeInv, TypeOK
<1>1. CASE RejectCommand \/ NoMutation \/ LiveRaises
  <2>1. PICK outcome \in Outcomes : CommandEnds(outcome) /\ outcome # "occupied"
                                    /\ (outcome = "ok" => Current.name \notin Mutations)
    BY <1>1 DEF RejectCommand, NoMutation, LiveRaises, Outcomes, Mutations
  <2>2. Running /\ UNCHANGED <<inTick, taken, clip, writes>>
    BY <1>1 DEF RejectCommand, NoMutation, LiveRaises, set
  <2> QED BY <2>1, <2>2 DEF Ending
<1>2. CASE DryTempo
  <2>1. /\ CommandEnds("ok") /\ Running /\ UNCHANGED <<inTick, taken, clip, writes>>
        /\ Current.dry = "yes" /\ "ok" \in Outcomes
    BY <1>2 DEF DryTempo, Runnable, set, Outcomes
  <2> QED BY <2>1 DEF Ending
<1>3. CASE CreateClip
  <2> DEFINE s == Current.arg
  <2>0. Running /\ Current.name = "create_clip" /\ UNCHANGED <<inTick, taken>>
    BY <1>3 DEF CreateClip, Runnable
  <2>1. CASE s \notin MidiSlots
    <3>1. CommandEnds("wrong_type") /\ UNCHANGED <<clip, writes>> /\ "wrong_type" \in Outcomes
      BY <1>3, <2>1 DEF CreateClip, Outcomes
    <3> QED BY <2>0, <3>1 DEF Ending
  <2>2. CASE s \in MidiSlots /\ clip[s] # None
    <3>1. CommandEnds("occupied") /\ UNCHANGED <<clip, writes>> /\ "occupied" \in Outcomes
      BY <1>3, <2>2 DEF CreateClip, Outcomes
    <3> QED BY <2>0, <2>2, <3>1 DEF Ending
  <2>3. CASE s \in MidiSlots /\ clip[s] = None
    <3>1. CommandEnds("ok") /\ "ok" \in Outcomes
      BY <1>3, <2>3 DEF CreateClip, Outcomes
    <3>2. CASE Current.dry = "yes"
      BY <1>3, <2>0, <2>3, <3>1, <3>2 DEF CreateClip, Ending
    <3>3. CASE Current.dry # "yes"
      <4>1. clip' = [clip EXCEPT ![s] = taken] /\ Written(taken)
        BY <1>3, <2>3, <3>3 DEF CreateClip
      <4>2. \A t \in Slots : clip'[t] = clip[t] \/ t = s
        BY <1>0, <4>1
      <4> QED BY <2>0, <3>1, <3>3, <4>1, <4>2 DEF Ending, DryCommand
    <3> QED BY <3>2, <3>3
  <2> QED BY <2>1, <2>2, <2>3
<1>4. CASE AddNotes
  <2>0. Running /\ Current.name = "add_notes_to_clip" /\ UNCHANGED <<inTick, taken, clip>>
    BY <1>4 DEF AddNotes, Runnable, set
  <2>1. CASE CommandEnds("wrong_type") /\ UNCHANGED writes
    BY <2>0, <2>1 DEF Ending, Outcomes
  <2>2. CASE CommandEnds("ok") /\ Written(clip[Current.arg])
    BY <2>0, <2>2 DEF Ending, Outcomes, DryCommand, DryRunnable
  <2> QED BY <1>4, <2>1, <2>2 DEF AddNotes
<1>5. CASE DeleteClip
  <2>0. Running /\ Current.name = "delete_clip" /\ UNCHANGED <<inTick, taken>>
    BY <1>5 DEF DeleteClip, Runnable
  <2>1. CASE CommandEnds("no_clip") /\ UNCHANGED <<clip, writes>>
    BY <2>0, <2>1 DEF Ending, Outcomes
  <2>2. CASE CommandEnds("ok") /\ clip' = [clip EXCEPT ![Current.arg] = None] /\ Written(clip[Current.arg])
    <3>1. \A t \in Slots : clip'[t] = clip[t] \/ clip'[t] = None
      BY <1>0, <2>2
    <3> QED BY <2>0, <2>2, <3>1 DEF Ending, Outcomes, DryCommand, DryRunnable
  <2> QED BY <1>5, <2>1, <2>2 DEF DeleteClip
<1>6. CASE WriteTempo
  BY <1>6 DEF WriteTempo, Runnable, Waiting, InvalidInBatch, BadDry, DryRunnable
<1>7. CASE ReadBack
  <2>0. Running /\ Current.name = "set_tempo" /\ Current.dry # "yes" /\ attempt > 0
        /\ UNCHANGED <<taken, clip>> /\ (active.batch => Current.dry # "bad")
    BY <1>7 DEF ReadBack, Runnable, InvalidInBatch, BadDry, DryRunnable
  <2>1. CASE CommandEnds("ok") /\ UNCHANGED <<inTick, writes>>
    BY <2>0, <2>1 DEF Ending, Outcomes
  <2>2. CASE CommandEnds("unverified") /\ UNCHANGED <<inTick, writes>>
    BY <2>0, <2>2 DEF Ending, Outcomes
  <2>3. CASE /\ Written(None) /\ attempt' = attempt + 1 /\ inTick' = FALSE
             /\ UNCHANGED <<active, at, results, replies>>
    BY <1>0, <2>0, <2>3 DEF Waiting
  <2> QED BY <1>7, <2>1, <2>2, <2>3 DEF ReadBack
<1>8. CASE TickBegins \/ TickEnds
  BY <1>0, <1>8 DEF TickBegins, TickEnds, Standing, set
<1>9. CASE UserEdit \/ UNCHANGED vars
  BY <1>0, <1>9 DEF UserEdit, Standing, vars, live, set
<1> QED BY <1>1, <1>2, <1>3, <1>4, <1>5, <1>6, <1>7, <1>8, <1>9 DEF Next, Serve

\* RepliesTellTheSet, one reply at a time.
Told(rep) ==
  \A i \in DOMAIN rep.req.commands :
    LET c == rep.req.commands[i] IN
    /\ rep.refused \/ i > Len(rep.results) \/ DryCommand(c) => ~WroteIn(rep.no, i)
    /\ i \in DOMAIN rep.results =>
         /\ rep.results[i] = "ok" /\ c.name \in Mutations /\ c.dry = "no" => WroteIn(rep.no, i)
         /\ rep.results[i] # "ok" => i = Len(rep.results)

LEMMA ToldAll == RepliesTellTheSet <=> \A rep \in replies : Told(rep)
BY DEF RepliesTellTheSet, Told, WroteIn, DryCommand

LEMMA ToldAllNext == RepliesTellTheSet' <=> \A rep \in replies' : Told(rep)'
BY DEF RepliesTellTheSet, Told, WroteIn, DryCommand

\* A command that writes adds its own write, and no other.
LEMMA WrittenOne ==
  ASSUME NEW into, Written(into), NEW no, NEW i
  PROVE  WroteIn(no, i)' <=> WroteIn(no, i) \/ (no = taken /\ i = at)
<1> DEFINE x == [req |-> taken, index |-> at, undo |-> undo, into |-> into]
<1>1. x.req = taken /\ x.index = at /\ writes' = writes \cup {x}
  BY DEF Written
<1> HIDE DEF x
<1> QED BY <1>1 DEF WroteIn

LEMMA WrittenNone ==
  ASSUME writes' = writes, NEW no, NEW i
  PROVE  WroteIn(no, i)' <=> WroteIn(no, i)
BY DEF WroteIn

\* What a reply tells stays true: writes to come belong to later requests.
LEMMA ToldStays ==
  ASSUME TellInv, active # None, NEW rep \in replies,
         writes' = writes \/ \E into : Written(into)
  PROVE  Told(rep)'
<1>1. rep.no # taken
  BY DEF TellInv, TakenOK
<1>2. \A i : WroteIn(rep.no, i)' <=> WroteIn(rep.no, i)
  BY <1>1, WrittenOne, WrittenNone
<1>3. Told(rep)
  BY ToldAll DEF TellInv
<1> QED BY <1>2, <1>3 DEF Told, DryCommand

\* The reply to a request whose commands have come to an end.
LEMMA ToldNow ==
  ASSUME TellInv, NEW outcome \in Outcomes, Ending(outcome), Finish(Append(results, outcome)),
         outcome # "ok" \/ at = Len(active.commands),
         NEW rep, rep = [no |-> taken, req |-> active, refused |-> FALSE,
                         results |-> Append(results, outcome)]
  PROVE  Told(rep)'
<1> DEFINE cs == active.commands
           rs == Append(results, outcome)
<1>0. /\ Running /\ TypeOK /\ ActiveOK /\ active \in Inputs \cup {None}
  BY DEF TellInv, TypeInv, UndoInv, Ending
<1>1. /\ active # None /\ at \in 1..Len(cs) /\ Len(cs) \in Nat /\ DOMAIN cs = 1..Len(cs)
      /\ at = Len(results) + 1 /\ results \in Seq(Outcomes)
  BY <1>0, CurrentType DEF ActiveOK, TypeOK
<1>2. /\ Len(rs) = at /\ DOMAIN rs = 1..at /\ rs[at] = outcome
      /\ \A i \in 1..at : i # at => rs[i] = "ok" /\ i < at
  <2>1. \A i \in DOMAIN results : results[i] = "ok"
    BY <1>0, <1>1 DEF ActiveOK
  <2>2. DOMAIN results = 1..Len(results) /\ Len(results) \in Nat
    BY <1>1
  <2> QED BY <1>1, <2>1, <2>2
<1>n. rep.no = taken
  OBVIOUS
<1>3. ASSUME NEW i \in DOMAIN cs
      PROVE  /\ i > at \/ DryCommand(cs[i]) => ~WroteIn(rep.no, i)'
             /\ i < at /\ cs[i].name \in Mutations /\ cs[i].dry = "no" => WroteIn(rep.no, i)'
             /\ i = at /\ outcome = "ok" /\ cs[i].name \in Mutations /\ cs[i].dry = "no" => WroteIn(rep.no, i)'
  <2>1. /\ i > at \/ DryCommand(cs[i]) => ~WroteIn(taken, i)
        /\ i < at /\ cs[i].name \in Mutations /\ cs[i].dry = "no" => WroteIn(taken, i)
        /\ attempt > 0 => WroteIn(taken, at)
    BY <1>0, <1>1 DEF ActiveOK
  <2>2. Current = cs[at]
    BY DEF Current
  <2>3. CASE writes' = writes
    <3>1. WroteIn(rep.no, i)' <=> WroteIn(taken, i)
      BY <1>n, <2>3, WrittenNone
    <3>2. outcome = "ok" /\ cs[at].name \in Mutations /\ cs[at].dry = "no" =>
            attempt > 0 \/ \E into : Written(into)
      BY <2>2 DEF Ending
    <3>3. ASSUME NEW into, Written(into) PROVE WroteIn(taken, at)
      BY <1>n, <2>3, <3>3, WrittenNone, WrittenOne
    <3> QED BY <2>1, <3>1, <3>2, <3>3
  <2>4. CASE ~DryCommand(cs[at]) /\ \E into : Written(into)
    <3>2. WroteIn(rep.no, i)' <=> WroteIn(taken, i) \/ i = at
      BY <1>n, <2>4, WrittenOne
    <3> QED BY <1>1, <2>1, <2>4, <3>2
  <2> QED BY <2>2, <2>3, <2>4 DEF Ending
<1> HIDE DEF rs
<1>4. rep.req = active /\ rep.no = taken /\ rep.refused = FALSE /\ rep.results = rs
  BY DEF rs
<1> HIDE DEF cs
<1>6. rep.req.commands = cs
  BY <1>4 DEF cs
<1> SUFFICES ASSUME NEW i \in DOMAIN cs
    PROVE /\ rep.refused \/ i > Len(rs) \/ DryCommand(cs[i]) => ~WroteIn(rep.no, i)'
          /\ i \in DOMAIN rs =>
               /\ rs[i] = "ok" /\ cs[i].name \in Mutations /\ cs[i].dry = "no" => WroteIn(rep.no, i)'
               /\ rs[i] # "ok" => i = Len(rs)
  BY <1>4, <1>6 DEF Told, DryCommand
<1> QED BY <1>1, <1>2, <1>3, <1>4

LEMMA TellInit == Init => TellInv
BY TypeInit DEF Init, TellInv, TakenOK, ActiveOK, RepliesTellTheSet

LEMMA TellTake ==
  ASSUME TellInv, NEW r \in Inputs, Take(r)
  PROVE  TakenOK' /\ ActiveOK' /\ RepliesTellTheSet'
<1>0. /\ TypeOK /\ TakenOK /\ active = None /\ taken' = taken + 1 /\ writes' = writes /\ taken \in Nat
      /\ results' = <<>> /\ attempt' = 0 /\ r # None
  BY DispatchAssumption DEF TellInv, TypeInv, TypeOK, Take
<1>1. \A w \in writes : w.req \in Int /\ w.req <= taken
  BY <1>0 DEF TypeOK, Writes, Makers, TakenOK
<1>2. \A rep \in replies : rep.no \in Int /\ rep.no <= taken /\ rep.req \in Inputs
  BY <1>0 DEF TypeOK, Replies, Makers, TakenOK
<1>3. \A i : ~WroteIn(taken + 1, i)
  BY <1>0, <1>1 DEF WroteIn
<1>4. ASSUME NEW rep \in replies'
      PROVE  \/ rep \in replies
             \/ /\ rep = [no |-> taken + 1, req |-> r, refused |-> TRUE, results |-> <<>>]
                /\ active' = None
  BY <1>0 DEF Take
<1>5. TakenOK'
  BY <1>0, <1>1, <1>2, <1>4 DEF TakenOK
<1>6. ActiveOK'
  <2> SUFFICES ASSUME active' # None PROVE ActiveOK'
    BY DEF ActiveOK
  <2>1. active' = r /\ at' = 1 /\ r.commands \in Seq(Commands)
    BY <1>0, DispatchAssumption DEF Take, Requests
  <2>2. r.commands # <<>> => 1 \in DOMAIN r.commands
    BY <2>1
  <2>3. \A i \in DOMAIN r.commands : i \in Int /\ i >= 1
    BY <2>1
  <2>4. \A i : ~(\E w \in writes' : w.req = taken' /\ w.index = i)
    BY <1>0, <1>3 DEF WroteIn
  <2> QED BY <1>0, <2>1, <2>2, <2>3, <2>4 DEF ActiveOK, WroteIn
<1>7. RepliesTellTheSet'
  <2> SUFFICES ASSUME NEW rep \in replies' PROVE Told(rep)'
    BY ToldAllNext
  <2>1. \A i : WroteIn(rep.no, i)' <=> WroteIn(rep.no, i)
    BY <1>0, WrittenNone
  <2>2. CASE rep \in replies
    <3>1. Told(rep)
      BY <2>2, ToldAll DEF TellInv
    <3> QED BY <2>1, <3>1 DEF Told, DryCommand
  <2>3. CASE rep = [no |-> taken + 1, req |-> r, refused |-> TRUE, results |-> <<>>]
    <3>1. rep.refused /\ rep.results = <<>> /\ \A i : ~WroteIn(rep.no, i)
      BY <1>3, <2>3
    <3> QED BY <2>1, <3>1 DEF Told
  <2> QED BY <1>4, <2>2, <2>3
<1> QED BY <1>5, <1>6, <1>7

LEMMA TellEnding ==
  ASSUME TellInv, NEW outcome \in Outcomes, Ending(outcome)
  PROVE  TakenOK' /\ ActiveOK' /\ RepliesTellTheSet'
<1> DEFINE cs == active.commands
<1>0. /\ TypeOK /\ TakenOK /\ ActiveOK /\ active \in Inputs \cup {None} /\ taken' = taken
      /\ Running /\ CommandEnds(outcome) /\ results' = Append(results, outcome) /\ attempt' = 0
      /\ taken \in Int
  BY DEF TellInv, TypeInv, UndoInv, Ending, CommandEnds, TypeOK
<1>1. /\ active # None /\ active \in Inputs /\ at \in 1..Len(cs) /\ Len(cs) \in Nat /\ DOMAIN cs = 1..Len(cs)
      /\ at = Len(results) + 1 /\ results \in Seq(Outcomes)
  BY <1>0, CurrentType DEF ActiveOK, TypeOK
<1>2. \A w \in writes' : w \in writes \/ w.req = taken
  BY DEF Ending, Written
<1>3. writes' = writes \/ \E into : Written(into)
  BY DEF Ending
<1>4. CASE outcome = "ok" /\ at < Len(cs)
  <2>1. at' = at + 1 /\ active' = active /\ replies' = replies
    BY <1>0, <1>4 DEF CommandEnds
  <2>2. TakenOK'
    BY <1>0, <1>2, <2>1 DEF TakenOK
  <2>3. RepliesTellTheSet'
    BY <1>1, <1>3, <2>1, ToldStays, ToldAllNext
  <2>4. PICK n : n = taken
    OBVIOUS
  <2>5. ASSUME NEW i \in DOMAIN cs
        PROVE  /\ i > at \/ DryCommand(cs[i]) => ~WroteIn(n, i)'
               /\ i <= at /\ cs[i].name \in Mutations /\ cs[i].dry = "no" => WroteIn(n, i)'
    <3>1. /\ i > at \/ DryCommand(cs[i]) => ~WroteIn(n, i)
          /\ i < at /\ cs[i].name \in Mutations /\ cs[i].dry = "no" => WroteIn(n, i)
          /\ attempt > 0 => WroteIn(n, at)
      BY <1>0, <1>1, <2>4 DEF ActiveOK
    <3>2. Current = cs[at] /\ i \in Int /\ at \in Int
      BY <1>1 DEF Current
    <3>3. outcome = "ok" /\ cs[at].name \in Mutations /\ cs[at].dry = "no" =>
            attempt > 0 \/ \E into : Written(into)
      BY <3>2 DEF Ending
    <3>4. CASE writes' = writes
      <4>1. WroteIn(n, i)' <=> WroteIn(n, i)
        BY <3>4, WrittenNone
      <4>2. ASSUME NEW into, Written(into) PROVE WroteIn(n, at)
        BY <2>4, <3>4, <4>2, WrittenNone, WrittenOne
      <4> QED BY <1>4, <3>1, <3>2, <3>3, <4>1, <4>2
    <3>5. CASE ~DryCommand(cs[at]) /\ \E into : Written(into)
      <4>1. WroteIn(n, i)' <=> WroteIn(n, i) \/ i = at
        BY <2>4, <3>5, WrittenOne
      <4> QED BY <3>1, <3>2, <3>5, <4>1
    <3> QED BY <3>2, <3>4, <3>5 DEF Ending
  <2>6. \A i \in DOMAIN cs : WroteIn(n, i)' <=> \E w \in writes' : w.req = taken' /\ w.index = i
    BY <1>0, <2>4 DEF WroteIn
  <2>7. /\ at' = Len(results') + 1 /\ at' \in DOMAIN cs /\ cs # <<>>
        /\ \A i \in DOMAIN results' : results'[i] = "ok"
    <3>1. \A i \in DOMAIN results : results[i] = "ok"
      BY <1>0, <1>1 DEF ActiveOK
    <3>2. Len(results') = Len(results) + 1 /\ Len(results) \in Nat
          /\ \A i \in DOMAIN results' : results'[i] = "ok"
      BY <1>0, <1>1, <1>4, <3>1
    <3> QED BY <1>1, <1>4, <2>1, <3>2
  <2>8. \A i \in DOMAIN cs : (i > at' => i > at) /\ (i < at' => i <= at)
    BY <1>1, <2>1
  <2>9. ActiveOK'
    BY <1>0, <2>1, <2>5, <2>6, <2>7, <2>8 DEF ActiveOK, WroteIn, DryCommand
  <2> QED BY <2>2, <2>3, <2>9
<1>5. CASE ~(outcome = "ok" /\ at < Len(cs))
  <2> DEFINE rep == [no |-> taken, req |-> active, refused |-> FALSE, results |-> Append(results, outcome)]
  <2>1. Finish(Append(results, outcome)) /\ (outcome # "ok" \/ at = Len(cs))
    BY <1>0, <1>1, <1>5 DEF CommandEnds
  <2>2. active' = None /\ replies' = replies \cup {rep}
    BY <2>1 DEF Finish
  <2>3. rep.no = taken /\ rep.req = active
    OBVIOUS
  <2> HIDE DEF rep
  <2>4. TakenOK'
    BY <1>0, <1>1, <1>2, <2>2, <2>3 DEF TakenOK
  <2>5. ActiveOK'
    BY <2>2 DEF ActiveOK
  <2>6. ASSUME NEW q \in replies' PROVE Told(q)'
    <3>1. CASE q \in replies
      BY <1>1, <1>3, <3>1, ToldStays
    <3>2. CASE q = rep
      BY <2>1, <3>2, ToldNow DEF rep
    <3> QED BY <2>2, <3>1, <3>2
  <2> QED BY <2>4, <2>5, <2>6, ToldAllNext
<1> QED BY <1>4, <1>5

LEMMA TellWaiting ==
  ASSUME TellInv, Waiting
  PROVE  TakenOK' /\ ActiveOK' /\ RepliesTellTheSet'
<1> DEFINE cs == active.commands
<1>0. /\ TypeOK /\ TakenOK /\ ActiveOK /\ active \in Inputs \cup {None} /\ Running /\ taken \in Int
      /\ UNCHANGED <<taken, active, at, results, replies>>
  BY DEF TellInv, TypeInv, TypeOK, UndoInv, Waiting
<1>1. /\ active # None /\ at \in 1..Len(cs) /\ Len(cs) \in Nat /\ DOMAIN cs = 1..Len(cs)
  BY <1>0, CurrentType
<1>2. PICK into : Written(into)
  BY DEF Waiting
<1>3. \A w \in writes' : w \in writes \/ w.req = taken
  BY <1>2 DEF Written
<1>4. TakenOK'
  BY <1>0, <1>1, <1>3 DEF TakenOK
<1>5. RepliesTellTheSet'
  BY <1>0, <1>1, <1>2, ToldStays, ToldAllNext
<1>6. \A i : (\E w \in writes' : w.req = taken' /\ w.index = i) <=> WroteIn(taken, i) \/ i = at
  <2>1. PICK n : n = taken
    OBVIOUS
  <2>2. \A i : WroteIn(n, i)' <=> WroteIn(taken, i) \/ i = at
    BY <1>2, <2>1, WrittenOne
  <2> QED BY <1>0, <2>1, <2>2 DEF WroteIn
<1>7. ~DryCommand(cs[at])
  BY DEF Waiting, Current, DryCommand
<1>8. ActiveOK'
  <2>1. /\ at = Len(results) + 1 /\ (cs # <<>> => at \in DOMAIN cs) /\ (cs = <<>> => at = 1)
        /\ \A i \in DOMAIN results : results[i] = "ok"
        /\ \A i \in DOMAIN cs :
             /\ i > at \/ DryCommand(cs[i]) => ~WroteIn(taken, i)
             /\ i < at /\ cs[i].name \in Mutations /\ cs[i].dry = "no" => WroteIn(taken, i)
    BY <1>0, <1>1 DEF ActiveOK
  <2>2. \A i \in DOMAIN cs :
          /\ i > at \/ DryCommand(cs[i]) => ~(WroteIn(taken, i) \/ i = at)
          /\ i < at /\ cs[i].name \in Mutations /\ cs[i].dry = "no" => WroteIn(taken, i)
    BY <1>1, <1>7, <2>1
  <2> HIDE DEF cs
  <2>3. \A i \in DOMAIN cs :
          /\ i > at \/ DryCommand(cs[i]) => ~(\E w \in writes' : w.req = taken' /\ w.index = i)
          /\ i < at /\ cs[i].name \in Mutations /\ cs[i].dry = "no"
               => \E w \in writes' : w.req = taken' /\ w.index = i
    BY <1>6, <2>2
  <2>4. \E w \in writes' : w.req = taken' /\ w.index = at
    BY <1>6
  <2>5. active'.commands = cs
    BY <1>0 DEF cs
  <2> QED BY <1>0, <2>1, <2>3, <2>4, <2>5 DEF ActiveOK, WroteIn, DryCommand
<1> QED BY <1>4, <1>5, <1>8

LEMMA TellStep == TellInv /\ [Next]_vars => TellInv'
<1> SUFFICES ASSUME TellInv, [Next]_vars PROVE TellInv'
  OBVIOUS
<1>0. TypeInv /\ TypeInv'
  BY TypeStep DEF TellInv
<1>1. CASE EmptyBatch
  <2> DEFINE rep == [no |-> taken, req |-> active, refused |-> FALSE, results |-> <<"invalid">>]
  <2>1. /\ active' = None /\ replies' = replies \cup {rep} /\ taken' = taken /\ writes' = writes
        /\ active # None /\ active \in Inputs /\ active.commands = <<>> /\ taken \in Int
    BY <1>0, <1>1 DEF EmptyBatch, Finish, TypeInv, TypeOK, UndoInv
  <2>2. rep.no = taken /\ rep.req = active
    OBVIOUS
  <2> HIDE DEF rep
  <2>3. TakenOK' /\ ActiveOK'
    BY <2>1, <2>2 DEF TellInv, TakenOK, ActiveOK
  <2>4. ASSUME NEW q \in replies' PROVE Told(q)'
    <3>1. CASE q \in replies
      BY <2>1, <3>1, ToldStays
    <3>2. CASE q = rep
      BY <2>1, <2>2, <3>2 DEF Told
    <3> QED BY <2>1, <3>1, <3>2
  <2> QED BY <1>0, <2>3, <2>4, ToldAllNext DEF TellInv
<1>2. CASE Standing
  BY <1>0, <1>2 DEF Standing, TellInv, TakenOK, ActiveOK, RepliesTellTheSet, WroteIn
<1> QED BY <1>0, <1>1, <1>2, StepKinds, TellTake, TellEnding, TellWaiting DEF TellInv

\* A reply tells the truth about the Set, whatever Live, the user and the ticks in between
\* do: nothing of a refused request or after the first error was written, and what is
\* reported done was. (dispatch.py, _run_batch_steps)
THEOREM RepliesAreTrue == Spec => []RepliesTellTheSet
<1>1. TellInv => RepliesTellTheSet
  BY DEF TellInv
<1> QED BY <1>1, TellInit, TellStep, PTL DEF Spec
------------------------------------------------------------------------------
(*************************** admission *************************************)
\* What may put a clip into a slot after the batch was admitted: a command that waits,
\* since the user edits meanwhile, or one that makes a clip there.
MayFill(c, s) == Waits(c) \/ (c.name = "create_clip" /\ c.arg = s)

\* While a batch is served, a slot it was promised empty is empty, or one of its own
\* commands before this one, or this one if it waits, may have filled it.
PreOK ==
  active # None =>
    LET cs == active.commands IN
    /\ attempt = 0 => inTick
    /\ attempt > 0 => at \in DOMAIN cs /\ cs[at].name = "set_tempo" /\ (active.batch => Waits(cs[at]))
    /\ \A s \in active.pre :
         /\ active.batch /\ s \in Slots
         /\ clip[s] = None \/ \E j \in DOMAIN cs : j <= at /\ (j = at => attempt > 0) /\ MayFill(cs[j], s)

AdmitInv == TellInv /\ PreOK /\ AdmissionLasts

\* AdmissionLasts, one reply at a time.
Kept(rep) ==
  \A i \in DOMAIN rep.results :
    rep.results[i] = "occupied" /\ rep.req.commands[i].arg \in rep.req.pre =>
      \E j \in 1..(i - 1) : MayFill(rep.req.commands[j], rep.req.commands[i].arg)

LEMMA KeptAll == AdmissionLasts <=> \A rep \in replies : Kept(rep)
BY DEF AdmissionLasts, Kept, MayFill

LEMMA KeptAllNext == AdmissionLasts' <=> \A rep \in replies' : Kept(rep)
BY DEF AdmissionLasts, Kept, MayFill, Waits

LEMMA AdmitInit == Init => AdmitInv
BY TellInit DEF Init, AdmitInv, PreOK, AdmissionLasts

\* A command that ends leaves the promise kept.
LEMMA AdmitEnding ==
  ASSUME AdmitInv, NEW outcome \in Outcomes, Ending(outcome)
  PROVE  PreOK' /\ AdmissionLasts'
<1> DEFINE cs == active.commands
<1>0. /\ TypeOK /\ ActiveOK /\ PreOK /\ active \in Inputs \cup {None} /\ taken' = taken
      /\ Running /\ CommandEnds(outcome) /\ results' = Append(results, outcome) /\ attempt' = 0
      /\ inTick /\ inTick' = inTick /\ attempt \in Nat
  BY DispatchAssumption DEF AdmitInv, TellInv, TypeInv, UndoInv, Ending, CommandEnds, TypeOK, Running
<1>1. /\ active # None /\ active \in Inputs /\ at \in 1..Len(cs) /\ Len(cs) \in Nat /\ DOMAIN cs = 1..Len(cs)
      /\ at = Len(results) + 1 /\ results \in Seq(Outcomes) /\ Current = cs[at]
  BY <1>0, CurrentType DEF ActiveOK, TypeOK, Current
<1>2. ASSUME NEW s \in active.pre
      PROVE  /\ active.batch /\ s \in Slots
             /\ clip[s] = None \/ \E j \in DOMAIN cs : j <= at /\ (j = at => attempt > 0) /\ MayFill(cs[j], s)
  BY <1>0, <1>1 DEF PreOK
<1>3. CASE outcome = "ok" /\ at < Len(cs)
  <2>1. at' = at + 1 /\ active' = active /\ replies' = replies
    BY <1>0, <1>3 DEF CommandEnds
  <2>2. AdmissionLasts'
    BY <2>1, KeptAll, KeptAllNext DEF AdmitInv
  <2>3. ASSUME NEW s \in active.pre
        PROVE  clip'[s] = None \/ \E j \in DOMAIN cs : j <= at' /\ j # at' /\ MayFill(cs[j], s)
    <3>1. \/ clip'[s] = clip[s] \/ clip'[s] = None
          \/ Current.name = "create_clip" /\ Current.arg = s
      BY <1>2 DEF Ending
    <3>2. CASE Current.name = "create_clip" /\ Current.arg = s
      <4>1. at \in DOMAIN cs /\ MayFill(cs[at], s) /\ at <= at' /\ at # at'
        BY <1>1, <2>1, <3>2 DEF MayFill
      <4> QED BY <4>1
    <3>3. CASE clip'[s] = clip[s]
      <4>1. CASE clip[s] = None
        BY <3>3, <4>1
      <4>2. ASSUME NEW j \in DOMAIN cs, j <= at, MayFill(cs[j], s)
            PROVE  j <= at' /\ j # at'
        BY <1>1, <2>1, <4>2
      <4> QED BY <1>2, <4>1, <4>2
    <3> QED BY <3>1, <3>2, <3>3
  <2>4. active'.commands = cs /\ active'.pre = active.pre /\ active'.batch = active.batch
    BY <2>1
  <2> HIDE DEF cs
  <2>5. PreOK'
    BY <1>0, <1>2, <2>3, <2>4 DEF PreOK, MayFill, Waits
  <2> QED BY <2>2, <2>5
<1>4. CASE ~(outcome = "ok" /\ at < Len(cs))
  <2> DEFINE rs == Append(results, outcome)
             rep == [no |-> taken, req |-> active, refused |-> FALSE, results |-> rs]
  <2>1. active' = None /\ replies' = replies \cup {rep}
    BY <1>0, <1>4 DEF CommandEnds, Finish
  <2>2. DOMAIN rs = 1..at /\ rs[at] = outcome /\ \A i \in 1..at : i # at => rs[i] = "ok"
    <3>1. \A i \in DOMAIN results : results[i] = "ok"
      BY <1>0, <1>1 DEF ActiveOK
    <3> QED BY <1>1, <3>1
  <2>3. rep.req = active /\ rep.results = rs
    OBVIOUS
  <2> HIDE DEF rep, rs
  <2>4. ASSUME outcome = "occupied", cs[at].arg \in active.pre
        PROVE  \E j \in 1..(at - 1) : MayFill(cs[j], cs[at].arg)
    <3>1. cs[at].name = "create_clip" /\ clip[cs[at].arg] # None
      BY <1>1, <2>4 DEF Ending
    <3>2. ~(attempt > 0)
      BY <1>0, <1>1, <3>1 DEF PreOK
    <3>3. PICK j \in DOMAIN cs : j <= at /\ (j = at => attempt > 0) /\ MayFill(cs[j], cs[at].arg)
      BY <1>2, <2>4, <3>1
    <3>4. j \in 1..(at - 1)
      BY <1>1, <3>2, <3>3
    <3> QED BY <3>3, <3>4
  <2>5. Kept(rep)
    <3>1. \A i \in DOMAIN rs : rs[i] = "occupied" => i = at /\ outcome = "occupied"
      BY <2>2
    <3> QED BY <2>3, <2>4, <3>1 DEF Kept
  <2>6. AdmissionLasts'
    BY <2>1, <2>5, KeptAll, KeptAllNext DEF AdmitInv
  <2> QED BY <2>1, <2>6 DEF PreOK
<1> QED BY <1>3, <1>4

LEMMA AdmitStep == AdmitInv /\ [Next]_vars => AdmitInv'
<1> SUFFICES ASSUME AdmitInv, [Next]_vars PROVE PreOK' /\ AdmissionLasts'
  BY TellStep DEF AdmitInv
<1>0. TypeInv /\ TypeOK /\ attempt \in Nat /\ inTick \in BOOLEAN /\ PreOK /\ AdmissionLasts /\ ActiveOK
      /\ active \in Inputs \cup {None} /\ taken \in Nat
  BY DispatchAssumption DEF AdmitInv, TellInv, TypeInv, TypeOK, UndoInv
<1>1. ASSUME NEW r \in Inputs, Take(r) PROVE PreOK' /\ AdmissionLasts'
  <2>1. /\ active = None /\ clip' = clip /\ attempt' = 0 /\ inTick' = inTick /\ inTick
    BY <1>1 DEF Take, set
  <2>2. ASSUME NEW rep \in replies' PROVE Kept(rep)
    <3>1. CASE rep \in replies
      BY <1>0, <3>1, KeptAll
    <3>2. CASE rep = [no |-> taken + 1, req |-> r, refused |-> TRUE, results |-> <<>>]
      BY <3>2 DEF Kept
    <3> QED BY <1>1, <3>1, <3>2 DEF Take
  <2>3. CASE active' = None
    BY <2>2, <2>3, KeptAllNext DEF PreOK
  <2>4. CASE active' # None
    <3>1. active' = r /\ Admitted(r) /\ r \in Requests
      BY <1>1, <2>1, <2>4, DispatchAssumption DEF Take, Refused
    <3>2. \A s \in r.pre : r.batch /\ s \in Slots /\ clip[s] = None
      BY <3>1, DispatchAssumption DEF Admitted, Requests
    <3>3. PreOK'
      BY <2>1, <3>1, <3>2 DEF PreOK
    <3> QED BY <2>2, <3>3, KeptAllNext
  <2> QED BY <2>3, <2>4
<1>2. CASE EmptyBatch
  <2>1. active' = None /\ replies' = replies \cup
          {[no |-> taken, req |-> active, refused |-> FALSE, results |-> <<"invalid">>]}
    BY <1>2 DEF EmptyBatch, Finish
  <2>2. Kept([no |-> taken, req |-> active, refused |-> FALSE, results |-> <<"invalid">>])
    BY DEF Kept
  <2> QED BY <1>0, <2>1, <2>2, KeptAll, KeptAllNext DEF PreOK
<1>3. ASSUME NEW outcome \in Outcomes, Ending(outcome) PROVE PreOK' /\ AdmissionLasts'
  BY <1>3, AdmitEnding
<1>4. CASE Waiting
  <2>1. /\ UNCHANGED <<active, at, replies, clip>> /\ attempt' > 0 /\ Running
        /\ Current.name = "set_tempo" /\ Current.dry # "yes" /\ (active.batch => Current.dry # "bad")
    BY <1>4 DEF Waiting
  <2>2. active # None /\ at \in DOMAIN active.commands /\ Current = active.commands[at] /\ Current \in Commands
    BY <1>0, <2>1, CurrentType DEF Running, Current
  <2>3. active.batch => Waits(Current)
    BY <2>1, <2>2 DEF Commands, Waits
  <2>4. attempt' # 0
    BY <2>1
  <2>5. PreOK'
    BY <1>0, <2>1, <2>2, <2>3, <2>4 DEF PreOK, MayFill, Waits
  <2>6. AdmissionLasts'
    BY <1>0, <2>1, KeptAll, KeptAllNext
  <2> QED BY <2>5, <2>6
<1>5. CASE Standing /\ (clip' = clip \/ (~inTick /\ inTick' = inTick))
           /\ (attempt = 0 /\ active # None /\ inTick => inTick')
  <2>1. AdmissionLasts'
    BY <1>0, <1>5, KeptAll, KeptAllNext DEF Standing
  <2>2. PreOK'
    <3> SUFFICES ASSUME active # None PROVE PreOK'
      BY <1>5 DEF Standing, PreOK
    <3>1. CASE clip' = clip
      BY <1>0, <1>5, <3>1 DEF Standing, PreOK, MayFill, Waits
    <3>2. CASE ~inTick
      <4>1. attempt > 0 /\ at \in DOMAIN active.commands /\ (active.batch => Waits(active.commands[at]))
        BY <1>0, <3>2 DEF PreOK
      <4>2. \A s \in active.pre : active.batch /\ s \in Slots
        BY <1>0 DEF PreOK
      <4>3. at <= at /\ attempt # 0
        BY <1>0, <4>1 DEF TypeOK
      <4> QED BY <1>0, <1>5, <4>1, <4>2, <4>3 DEF Standing, PreOK, MayFill, Waits
    <3> QED BY <1>5, <3>1, <3>2
  <2> QED BY <2>1, <2>2
<1> QED BY <1>0, <1>1, <1>2, <1>3, <1>4, <1>5, StepKinds

\* A batch that was admitted finds a clip in a slot it was promised empty only after one of
\* its own commands waited for Live, or made that clip. (preconditions.py, _admit_batch)
THEOREM AdmissionIsKept == Spec => []AdmissionLasts
<1>1. AdmitInv => AdmissionLasts
  BY DEF AdmitInv
<1> QED BY <1>1, AdmitInit, AdmitStep, PTL DEF Spec

-------------------------------------------------------------------------------
(*************************** the receipts of groove_apply *******************)

\* The batch of an applier as it was sent, and whether none was.
Meant(a) == BatchFor(a, sentTo[a])
Unsent(a) ==
  /\ \A i \in DOMAIN queue : queue[i] # a
  /\ \A i \in DOMAIN served : served[i] # a

\* The batches on their way, each of one applier that waits for its answer or has had it.
OnceInv ==
  /\ pc \in [Appliers -> {"idle", "status", "fetch", "fetching", "stamp", "snapshot",
                          "call", "await", "done"}]
  /\ sentTo \in [Appliers -> Scripts \cup {None}] /\ script \in Scripts
  /\ queue \in Seq(Appliers) /\ served \in Seq(Appliers) /\ Len(served) = taken
  /\ \A i, j \in DOMAIN queue : queue[i] = queue[j] => i = j
  /\ \A i, j \in DOMAIN served : served[i] = served[j] => i = j
  /\ \A i \in DOMAIN queue, j \in DOMAIN served : queue[i] # served[j]
  /\ \A a \in Appliers : pc[a] \notin {"await", "done"} => Unsent(a)
  /\ \A i \in DOMAIN queue : sentTo[queue[i]] = script
  /\ \A i \in DOMAIN served : sentTo[served[i]] \in Scripts

\* Live serves the batches of the appliers, as they were sent.
BatchInv ==
  /\ active # None => /\ taken \in DOMAIN served /\ active = Meant(served[taken])
                      /\ ~WroteIn(taken, at)
  /\ \A rep \in replies : rep.no \in DOMAIN served /\ rep.req = Meant(served[rep.no])
  /\ \A w \in writes : w.req \in DOMAIN served

\* How a batch that was begun may end.
Ends(rs, a) ==
  \/ Len(rs) = 1 /\ rs[1] \in {"exception", "occupied"}
  \/ Len(rs) = 1 /\ rs[1] = "wrong_type" /\ SlotOf[a] \notin MidiSlots
  \/ Len(rs) = 2 /\ rs[1] = "ok" /\ rs[2] \in {"ok", "wrong_type", "exception"}
EndInv ==
  \A rep \in replies :
    /\ ~rep.refused => Ends(rep.results, served[rep.no])
    /\ \A i \in DOMAIN rep.results : rep.results[i] # "ok" => ~WroteIn(rep.no, i)

\* What a receipt has been drawn from.
ReceiptInv ==
  /\ receipt \in [Appliers -> {"none", "preview", "rejected", "committed", "partial", "unknown"}]
  /\ stage \in [Appliers -> {"none", "capability", "epoch", "precondition", "batch",
                             "transport_after_send"}]
  /\ \A a \in Appliers :
       /\ receipt[a] # "none" => pc[a] = "done"
       /\ receipt[a] = "rejected" /\ stage[a] \notin {"precondition", "batch"} => Unsent(a)
       /\ receipt[a] = "rejected" /\ stage[a] = "precondition" =>
            \E rep \in RepliesTo(a) : rep.refused
       /\ receipt[a] = "partial" =>
            \E rep \in RepliesTo(a) : ~rep.refused /\ Len(rep.results) = 2 /\ rep.results[2] # "ok"
       /\ receipt[a] = "committed" =>
            \E rep \in RepliesTo(a) : ~rep.refused /\ ~(Len(rep.results) = 2 /\ rep.results[2] # "ok")

ApplyInv == AdmitInv /\ OnceInv /\ BatchInv /\ EndInv /\ ReceiptInv

(*********************** Live's thread *************************************)
\* The batch of an applier: a clip, then its notes, and neither is a dry run.
LEMMA BatchOf ==
  ASSUME NEW a \in Appliers, NEW sc \in Scripts
  PROVE  /\ BatchFor(a, sc) \in Inputs /\ BatchFor(a, sc) # None
         /\ BatchFor(a, sc).batch /\ Len(BatchFor(a, sc).commands) = 2
         /\ DOMAIN BatchFor(a, sc).commands = 1..2
         /\ BatchFor(a, sc).commands[1] = [name |-> "create_clip", arg |-> SlotOf[a], dry |-> "no"]
         /\ BatchFor(a, sc).commands[2] = [name |-> "add_notes_to_clip", arg |-> SlotOf[a], dry |-> "no"]
         /\ sc = "v1" => BatchFor(a, sc).pre = {SlotOf[a]}
<1>1. BatchFor(a, sc) \in Inputs /\ BatchFor(a, sc) # None
  BY GrooveAssumption, DispatchAssumption
<1> QED
  BY <1>1 DEF BatchFor

\* Every step is one of Dispatch, or stops it.
LEMMA LiveOrNot ==
  ASSUME OnceInv, [GrooveNext]_allVars
  PROVE  [Next]_vars \/ Restart
<1>1. CASE TakeBatch
  <2>1. Head(queue) \in Appliers /\ script \in Scripts
    BY <1>1 DEF TakeBatch, OnceInv
  <2>2. BatchFor(Head(queue), script) \in Inputs
    BY <2>1, GrooveAssumption
  <2> QED
    BY <1>1, <2>2 DEF TakeBatch, Next, Serve
<1>2. CASE LiveStep
  BY <1>2 DEF LiveStep, Next, Serve
<1>3. ASSUME NEW a \in Appliers, Begin(a) \/ ApplyStep(a) PROVE UNCHANGED vars
  BY <1>3 DEF Begin, ApplyStep, Status, FetchBegins, Connect, FetchBreaks, FetchAnswered, FetchFails,
              Stamp, Snapshot, Call, Answered, TimedOut, Ambiguous
<1> QED
  BY <1>1, <1>2, <1>3 DEF GrooveNext, allVars

LEMMA AdmitKeeps ==
  ASSUME AdmitInv, OnceInv, [GrooveNext]_allVars
  PROVE  AdmitInv'
<1>1. CASE [Next]_vars
  BY <1>1, AdmitStep
<1>2. CASE Restart
  <2>1. /\ inTick' = FALSE /\ active' = None /\ at' = 0 /\ attempt' = 0 /\ undo' = 0
        /\ UNCHANGED <<hasUndo, taken, results, replies, writes, set, edits>>
    BY <1>2 DEF Restart
  <2>2. TypeOK' /\ UndoInv'
    <3>1. 0 \in 0..Retries /\ 0 \in 0..1 /\ 0 \in Nat
      BY DispatchAssumption
    <3>2. TypeOK'
      BY <2>1, <3>1 DEF AdmitInv, TellInv, TypeInv, TypeOK, set
    <3>3. UndoInv'
      BY <2>1, DispatchAssumption
         DEF AdmitInv, TellInv, TypeInv, UndoInv, UndoBalanced, WritesUndoable
    <3> QED
      BY <3>2, <3>3
  <2>3. TakenOK' /\ ActiveOK' /\ PreOK'
    BY <2>1 DEF AdmitInv, TellInv, TakenOK, ActiveOK, PreOK
  <2>4. RepliesTellTheSet' /\ AdmissionLasts'
    BY <2>1 DEF AdmitInv, TellInv, RepliesTellTheSet, AdmissionLasts, Waits
  <2> QED
    BY <2>2, <2>3, <2>4 DEF AdmitInv, TellInv, TypeInv
<1> QED
  BY <1>1, <1>2, LiveOrNot

(*********************** the calls *****************************************)
Afterwards == {"await", "done"}

\* A step of a call, but for the one that sends: nothing of the batches changes, a call that
\* has sent does not start again, and what a receipt says has its reason.
Silent(a) ==
  /\ UNCHANGED <<vars, queue, served, sentTo, script>>
  /\ pc' \in [Appliers -> {"idle", "status", "fetch", "fetching", "stamp", "snapshot",
                           "call", "await", "done"}]
  /\ \A b \in Appliers : b # a => pc'[b] = pc[b]
  /\ pc'[a] \notin Afterwards => pc[a] \notin Afterwards

Keeps == UNCHANGED <<receipt, stage>>
Draws(a) ==
  \E state \in {"preview", "rejected", "committed", "partial", "unknown"},
     where \in {"none", "capability", "epoch", "precondition", "batch", "transport_after_send"} :
    /\ Return(a, state, where)
    /\ state = "rejected" /\ where \notin {"precondition", "batch"} => pc[a] \notin Afterwards
    /\ state = "rejected" /\ where = "precondition" => \E rep \in RepliesTo(a) : rep.refused
    /\ state = "partial" =>
         \E rep \in RepliesTo(a) : ~rep.refused /\ Len(rep.results) = 2 /\ rep.results[2] # "ok"
    /\ state = "committed" =>
         \E rep \in RepliesTo(a) : ~rep.refused /\ ~(Len(rep.results) = 2 /\ rep.results[2] # "ok")

LEMMA GoToGoes ==
  ASSUME OnceInv, NEW a \in Appliers,
         NEW where \in {"idle", "status", "fetch", "fetching", "stamp", "snapshot",
                        "call", "await", "done"},
         GoTo(a, where)
  PROVE  /\ pc' \in [Appliers -> {"idle", "status", "fetch", "fetching", "stamp", "snapshot",
                                  "call", "await", "done"}]
         /\ pc'[a] = where /\ \A b \in Appliers : b # a => pc'[b] = pc[b]
BY DEF OnceInv, GoTo

\* Sending is the one step of a call that touches the batches.
Sends(a) ==
  /\ pc[a] = "call" /\ epoch = snap[a] /\ GoTo(a, "await")
  /\ queue' = IF alive THEN Append(queue, a) ELSE queue
  /\ sentTo' = IF alive THEN [sentTo EXCEPT ![a] = script] ELSE sentTo
  /\ UNCHANGED <<receipt, stage, script, served, vars>>

LEMMA CallSteps ==
  ASSUME OnceInv, NEW a \in Appliers, Begin(a) \/ ApplyStep(a)
  PROVE  \/ Silent(a) /\ (Keeps \/ Draws(a)) /\ pc[a] # "done"
         \/ Sends(a)
<1> DEFINE Places == {"idle", "status", "fetch", "fetching", "stamp", "snapshot",
                      "call", "await", "done"}
<1>1. ASSUME UNCHANGED <<vars, queue, served, sentTo, script>>, Keeps, pc[a] \notin Afterwards,
             NEW where \in Places, GoTo(a, where)
      PROVE  Silent(a) /\ Keeps /\ pc[a] # "done"
  BY <1>1, GoToGoes DEF Silent, Afterwards
<1>2. ASSUME UNCHANGED <<vars, queue, served, sentTo, script>>, Draws(a), pc[a] # "done"
      PROVE  Silent(a) /\ Draws(a) /\ pc[a] # "done"
  <2>1. GoTo(a, "done")
    BY <1>2 DEF Draws, Return
  <2> QED
    BY <1>2, <2>1, GoToGoes DEF Silent, Afterwards
<1>3. ASSUME UNCHANGED <<vars, queue, served, sentTo, script>>, pc[a] # "done",
             NEW state, NEW where, Return(a, state, where),
             \/ /\ <<state, where>> \in {<<"rejected", "none">>, <<"rejected", "capability">>,
                                         <<"rejected", "epoch">>}
                /\ pc[a] \notin Afterwards
             \/ <<state, where>> \in {<<"preview", "none">>, <<"rejected", "batch">>,
                                      <<"unknown", "transport_after_send">>}
      PROVE  Silent(a) /\ Draws(a) /\ pc[a] # "done"
  <2>1. Draws(a)
    BY <1>3 DEF Draws
  <2> QED
    BY <1>2, <1>3, <2>1
<1>4. CASE Begin(a)
  <2>1. UNCHANGED <<vars, queue, served, sentTo, script>> /\ pc[a] = "idle"
    BY <1>4 DEF Begin, bridge
  <2>2. CASE \E state \in {"rejected", "preview"} : Return(a, state, "none")
    <3>1. PICK state \in {"rejected", "preview"} : Return(a, state, "none")
      BY <2>2
    <3> QED
      BY <1>3, <2>1, <3>1 DEF Afterwards
  <2>3. CASE GoTo(a, "status") /\ UNCHANGED <<receipt, stage>>
    BY <1>1, <2>1, <2>3 DEF Afterwards, Keeps
  <2> QED
    BY <1>4, <2>2, <2>3 DEF Begin
<1>5. CASE Status(a) \/ FetchBegins(a) \/ Stamp(a)
  <2>1. /\ UNCHANGED <<vars, queue, served, sentTo, script>> /\ Keeps
        /\ pc[a] \in {"status", "fetch", "stamp"}
        /\ \E where \in {"snapshot", "fetch", "fetching"} : GoTo(a, where)
    BY <1>5 DEF Status, FetchBegins, Stamp, bridge, Keeps
  <2> QED
    BY <1>1, <2>1 DEF Afterwards
<1>6. CASE Connect(a) \/ FetchBreaks(a)
  <2>1. /\ UNCHANGED <<vars, queue, served, sentTo, script, pc>> /\ Keeps
        /\ pc[a] = "fetching"
    BY <1>6 DEF Connect, FetchBreaks, bridge, Keeps
  <2> QED
    BY <2>1 DEF Silent, OnceInv
<1>7. CASE FetchAnswered(a) \/ FetchFails(a)
  <2>1. /\ UNCHANGED <<vars, queue, served, sentTo, script>> /\ pc[a] = "fetching"
        /\ (GoTo(a, "stamp") /\ Keeps) \/ Return(a, "rejected", "capability")
    BY <1>7 DEF FetchAnswered, FetchFails, bridge, Keeps
  <2> QED
    BY <1>1, <1>3, <2>1 DEF Afterwards
<1>8. CASE Snapshot(a)
  <2>1. /\ UNCHANGED <<vars, queue, served, sentTo, script>> /\ pc[a] = "snapshot"
        /\ (GoTo(a, "call") /\ Keeps) \/ Return(a, "rejected", "capability")
    BY <1>8 DEF Snapshot, bridge, Keeps
  <2> QED
    BY <1>1, <1>3, <2>1 DEF Afterwards
<1>9. CASE Call(a)
  <2>1. CASE ~connected \/ epoch # snap[a]
    <3>1. /\ UNCHANGED <<vars, queue, served, sentTo, script>> /\ pc[a] = "call"
          /\ Return(a, "rejected", "epoch")
      BY <1>9, <2>1 DEF Call
    <3> QED
      BY <1>3, <3>1 DEF Afterwards
  <2>2. CASE ~(~connected \/ epoch # snap[a])
    BY <1>9, <2>2 DEF Call, Sends
  <2> QED
    BY <2>1, <2>2
<1>10. CASE Answered(a)
  <2>1. UNCHANGED <<vars, queue, served, sentTo, script>> /\ pc[a] = "await"
    BY <1>10 DEF Answered, bridge
  <2>2. PICK rep \in RepliesTo(a) : \E r \in ReceiptsOf(rep) : Return(a, r[1], r[2])
    BY <1>10 DEF Answered
  <2>3. PICK r \in ReceiptsOf(rep) : Return(a, r[1], r[2])
    BY <2>2
  <2>4. \/ rep.refused /\ r \in {<<"rejected", "precondition">>, <<"rejected", "batch">>}
        \/ ~rep.refused /\ Len(rep.results) = 2 /\ rep.results[2] # "ok" /\ r = <<"partial", "batch">>
        \/ ~rep.refused /\ ~(Len(rep.results) = 2 /\ rep.results[2] # "ok") /\ r = <<"committed", "batch">>
    BY <2>3 DEF ReceiptsOf
  <2>5. Draws(a)
    BY <2>3, <2>4 DEF Draws
  <2> QED
    BY <1>2, <2>1, <2>5
<1>11. CASE TimedOut(a) \/ Ambiguous(a)
  <2>1. /\ UNCHANGED <<vars, queue, served, sentTo, script>> /\ pc[a] = "await"
        /\ Return(a, "rejected", "batch") \/ Return(a, "unknown", "transport_after_send")
    BY <1>11 DEF TimedOut, Ambiguous, bridge
  <2> QED
    BY <1>3, <2>1
<1> QED
  BY <1>4, <1>5, <1>6, <1>7, <1>8, <1>9, <1>10, <1>11 DEF ApplyStep

(*********************** the batches ***************************************)
LEMMA OnceSilent ==
  ASSUME OnceInv, NEW a \in Appliers, Silent(a)
  PROVE  OnceInv'
<1>1. UNCHANGED <<queue, served, sentTo, script, taken>>
  BY DEF Silent, vars, live
<1>2. \A b \in Appliers : pc'[b] \notin Afterwards => pc[b] \notin Afterwards
  BY DEF Silent
<1>3. pc' \in [Appliers -> {"idle", "status", "fetch", "fetching", "stamp", "snapshot",
                            "call", "await", "done"}]
  BY DEF Silent
<1> QED
  BY <1>1, <1>2, <1>3 DEF OnceInv, Unsent, Afterwards

LEMMA OnceSends ==
  ASSUME OnceInv, NEW a \in Appliers, Sends(a)
  PROVE  OnceInv'
<1>1. /\ queue \in Seq(Appliers) /\ DOMAIN queue = 1..Len(queue) /\ Len(queue) \in Nat
      /\ sentTo \in [Appliers -> Scripts \cup {None}] /\ script \in Scripts /\ Unsent(a)
  BY DEF OnceInv, Sends
<1>2. /\ pc' \in [Appliers -> {"idle", "status", "fetch", "fetching", "stamp", "snapshot",
                               "call", "await", "done"}]
      /\ pc'[a] = "await" /\ \A b \in Appliers : b # a => pc'[b] = pc[b]
  BY GoToGoes DEF Sends
<1>3. UNCHANGED <<served, script, taken>>
  BY DEF Sends, vars, live
<1>4. CASE ~alive
  <2>1. UNCHANGED <<queue, sentTo>>
    BY <1>4 DEF Sends
  <2> QED
    BY <1>2, <1>3, <2>1 DEF OnceInv, Unsent
<1>5. CASE alive
  <2>1. queue' = Append(queue, a) /\ sentTo' = [sentTo EXCEPT ![a] = script]
    BY <1>5 DEF Sends
  <2>2. /\ queue' \in Seq(Appliers) /\ Len(queue') = Len(queue) + 1
        /\ \A i \in 1..Len(queue) : queue'[i] = queue[i]
        /\ queue'[Len(queue) + 1] = a
    BY <1>1, <2>1, AppendProperties
  <2>3. \A i \in DOMAIN queue' : \/ i \in DOMAIN queue /\ queue'[i] = queue[i]
                                 \/ i = Len(queue) + 1 /\ queue'[i] = a
    BY <1>1, <2>2
  <2>4. /\ sentTo' \in [Appliers -> Scripts \cup {None}] /\ sentTo'[a] = script
        /\ \A b \in Appliers : b # a => sentTo'[b] = sentTo[b]
    BY <1>1, <2>1
  <2>5. \A i, j \in DOMAIN queue' : queue'[i] = queue'[j] => i = j
    <3>1. \A i \in DOMAIN queue : queue[i] # a
      BY <1>1 DEF Unsent
    <3> QED
      BY <2>3, <3>1 DEF OnceInv
  <2>6. \A i \in DOMAIN queue', j \in DOMAIN served : queue'[i] # served[j]
    BY <1>1, <2>3 DEF OnceInv, Unsent
  <2>7. \A b \in Appliers : pc'[b] \notin {"await", "done"} => Unsent(b)'
    BY <1>2, <1>3, <2>3 DEF OnceInv, Unsent
  <2>8. \A i \in DOMAIN queue' : sentTo'[queue'[i]] = script
    <3>1. \A i \in DOMAIN queue : queue[i] \in Appliers
      BY <1>1
    <3> QED
      BY <1>1, <2>3, <2>4, <3>1 DEF OnceInv, Unsent
  <2>9. \A i \in DOMAIN served : sentTo'[served[i]] \in Scripts
    <3>1. \A i \in DOMAIN served : served[i] \in Appliers /\ served[i] # a
      BY <1>1 DEF OnceInv, Unsent
    <3> QED
      BY <2>4, <3>1 DEF OnceInv
  <2> QED
    BY <1>2, <1>3, <2>2, <2>4, <2>5, <2>6, <2>7, <2>8, <2>9 DEF OnceInv
<1> QED
  BY <1>4, <1>5

\* The oldest batch goes from the queue to those served.
LEMMA TakenOne ==
  ASSUME OnceInv, TakeBatch
  PROVE  /\ 1 \in DOMAIN queue /\ Head(queue) = queue[1] /\ queue[1] \in Appliers
         /\ queue' \in Seq(Appliers) /\ served' \in Seq(Appliers)
         /\ \A i \in DOMAIN queue' : i + 1 \in DOMAIN queue /\ queue'[i] = queue[i + 1] /\ i + 1 # 1
         /\ Len(served') = Len(served) + 1 /\ served'[Len(served) + 1] = queue[1]
         /\ \A i \in DOMAIN served : i \in DOMAIN served' /\ served'[i] = served[i]
         /\ \A i \in DOMAIN served' : i \in DOMAIN served \/ i = Len(served) + 1
<1>1. /\ queue # <<>> /\ queue' = Tail(queue) /\ served' = Append(served, Head(queue))
      /\ queue \in Seq(Appliers) /\ served \in Seq(Appliers)
  BY DEF TakeBatch, OnceInv
<1>2. /\ DOMAIN queue = 1..Len(queue) /\ Len(queue) \in Nat /\ Len(queue) > 0
      /\ Head(queue) = queue[1] /\ queue[1] \in Appliers
  BY <1>1, EmptySeq
<1>3. /\ queue' \in Seq(Appliers) /\ Len(queue') = Len(queue) - 1
      /\ \A i \in 1..Len(queue') : queue'[i] = queue[i + 1]
  BY <1>1, HeadTailProperties
<1>4. \A i \in DOMAIN queue' : i + 1 \in DOMAIN queue /\ queue'[i] = queue[i + 1] /\ i + 1 # 1
  <2>1. DOMAIN queue' = 1..(Len(queue) - 1)
    BY <1>2, <1>3
  <2> QED
    BY <1>2, <1>3, <2>1
<1>5. /\ served' \in Seq(Appliers) /\ Len(served') = Len(served) + 1
      /\ \A i \in 1..Len(served) : served'[i] = served[i]
      /\ served'[Len(served) + 1] = queue[1]
  BY <1>1, <1>2, AppendProperties
<1>6. DOMAIN served = 1..Len(served) /\ DOMAIN served' = 1..(Len(served) + 1) /\ Len(served) \in Nat
  BY <1>1, <1>5
<1> QED
  BY <1>2, <1>3, <1>4, <1>5, <1>6

LEMMA OnceTakes ==
  ASSUME OnceInv, TakeBatch
  PROVE  OnceInv'
<1>1. UNCHANGED <<pc, sentTo, script>> /\ taken' = taken + 1
  BY DEF TakeBatch, Take, client
<1>2. \A i, j \in DOMAIN queue' : queue'[i] = queue'[j] => i = j
  <2>1. ASSUME NEW i \in DOMAIN queue', NEW j \in DOMAIN queue', queue'[i] = queue'[j]
        PROVE  i = j
    <3>1. i + 1 = j + 1
      BY <2>1, TakenOne DEF OnceInv
    <3>2. i \in Nat /\ j \in Nat
      BY TakenOne
    <3> QED
      BY <3>1, <3>2
  <2> QED
    BY <2>1
<1>3. \A i, j \in DOMAIN served' : served'[i] = served'[j] => i = j
  <2>1. \A i \in DOMAIN served : served'[i] # queue[1]
    BY TakenOne DEF OnceInv
  <2> QED
    BY <2>1, TakenOne DEF OnceInv
<1>4. \A i \in DOMAIN queue', j \in DOMAIN served' : queue'[i] # served'[j]
  <2>1. ASSUME NEW i \in DOMAIN queue', NEW j \in DOMAIN served'
        PROVE  queue'[i] # served'[j]
    <3>1. i + 1 \in DOMAIN queue /\ queue'[i] = queue[i + 1] /\ i + 1 # 1 /\ 1 \in DOMAIN queue
      BY TakenOne
    <3>2. CASE j \in DOMAIN served
      <4>1. served'[j] = served[j]
        BY <3>2, TakenOne
      <4> QED
        BY <3>1, <3>2, <4>1 DEF OnceInv
    <3>3. CASE j = Len(served) + 1
      <4>1. served'[j] = queue[1]
        BY <3>3, TakenOne
      <4> QED
        BY <3>1, <4>1 DEF OnceInv
    <3> QED
      BY <3>2, <3>3, TakenOne
  <2> QED
    BY <2>1
<1>5. \A a \in Appliers : pc'[a] \notin {"await", "done"} => Unsent(a)'
  <2>1. \A i \in DOMAIN queue' : \E j \in DOMAIN queue : queue'[i] = queue[j]
    BY TakenOne
  <2>2. \A i \in DOMAIN served' : \/ \E j \in DOMAIN served : served'[i] = served[j]
                                  \/ \E j \in DOMAIN queue : served'[i] = queue[j]
    BY TakenOne
  <2> QED
    BY <1>1, <2>1, <2>2 DEF OnceInv, Unsent
<1>6. \A i \in DOMAIN queue' : sentTo'[queue'[i]] = script'
  BY <1>1, TakenOne DEF OnceInv
<1>7. Len(served') = taken'
  BY <1>1, TakenOne DEF OnceInv
<1>8. \A i \in DOMAIN served' : sentTo'[served'[i]] \in Scripts
  <2>1. sentTo[queue[1]] \in Scripts
    BY TakenOne DEF OnceInv
  <2> QED
    BY <1>1, <2>1, TakenOne DEF OnceInv
<1> QED
  BY <1>1, <1>2, <1>3, <1>4, <1>5, <1>6, <1>7, <1>8, TakenOne DEF OnceInv

LEMMA OnceKeeps ==
  ASSUME AdmitInv, OnceInv, [GrooveNext]_allVars
  PROVE  OnceInv'
<1>1. CASE UNCHANGED allVars
  BY <1>1 DEF allVars, vars, live, client, bridge, OnceInv, Unsent
<1>2. ASSUME NEW a \in Appliers, Begin(a) \/ ApplyStep(a) PROVE OnceInv'
  BY <1>2, CallSteps, OnceSilent, OnceSends
<1>3. CASE LiveStep
  <2>1. UNCHANGED <<client, bridge, taken>>
    BY <1>3 DEF LiveStep, TickBegins, TickEnds, CreateClip, AddNotes, LiveRaises, UserEdit, live
  <2> QED
    BY <2>1 DEF client, bridge, OnceInv, Unsent
<1>4. CASE Restart
  <2>1. UNCHANGED <<pc, served, sentTo, taken>> /\ script' \in Scripts /\ queue' = <<>>
    BY <1>4 DEF Restart, client
  <2> QED
    BY <2>1 DEF OnceInv, Unsent
<1> QED
  BY <1>1, <1>2, <1>3, <1>4, OnceTakes DEF GrooveNext

(*********************** how a batch ends **********************************)
LEMMA MeantStays ==
  ASSUME OnceInv, BatchInv, EndInv, UNCHANGED <<taken, active, at, replies, writes, served>>,
         \A i \in DOMAIN served : sentTo'[served[i]] = sentTo[served[i]]
  PROVE  BatchInv' /\ EndInv'
<1>1. \A i \in DOMAIN served : Meant(served[i])' = Meant(served[i])
  BY DEF Meant, BatchFor
<1>2. \A no, i : WroteIn(no, i)' <=> WroteIn(no, i)
  BY DEF WroteIn
<1>3. BatchInv'
  BY <1>1, <1>2 DEF BatchInv
<1>4. EndInv'
  BY <1>2 DEF EndInv, Ends
<1> QED
  BY <1>3, <1>4

LEMMA ServedWrites ==
  ASSUME BatchInv, taken \in DOMAIN served, writes' = writes \/ \E into : Written(into)
  PROVE  \A w \in writes' : w.req \in DOMAIN served
<1>1. CASE writes' = writes
  BY <1>1 DEF BatchInv
<1>2. ASSUME NEW into, Written(into) PROVE \A w \in writes' : w.req \in DOMAIN served
  BY <1>2 DEF BatchInv, Written
<1> QED
  BY <1>1, <1>2

\* The reply that ends a batch has one of the few endings.
LEMMA EndsBatch ==
  ASSUME AdmitInv, OnceInv, BatchInv, EndInv, active # None, taken' = taken, served' = served,
         sentTo' = sentTo, active' = None, writes' = writes \/ \E into : Written(into),
         NEW rs, Ends(rs, served[taken]),
         \A i \in DOMAIN rs : rs[i] # "ok" => i = at /\ writes' = writes,
         replies' = replies \cup {[no |-> taken, req |-> active, refused |-> FALSE, results |-> rs]}
  PROVE  BatchInv' /\ EndInv'
<1> DEFINE new == [no |-> taken, req |-> active, refused |-> FALSE, results |-> rs]
<1>1. /\ taken \in DOMAIN served /\ active = Meant(served[taken]) /\ ~WroteIn(taken, at)
      /\ \A rep \in replies : rep.no # taken
  BY DEF BatchInv, AdmitInv, TellInv, TakenOK
<1>2. /\ new.no = taken /\ new.req = active /\ ~new.refused /\ new.results = rs
      /\ replies' = replies \cup {new}
  OBVIOUS
<1> HIDE DEF new
<1>3. \A i : Meant(served[i])' = Meant(served[i])
  BY DEF Meant, BatchFor
<1>4. ASSUME NEW rep \in replies, NEW i PROVE WroteIn(rep.no, i)' <=> WroteIn(rep.no, i)
  BY <1>1, WrittenOne, WrittenNone
<1>5. BatchInv'
  <2>1. ASSUME NEW rep \in replies'
        PROVE  rep.no \in DOMAIN served /\ rep.req = Meant(served[rep.no])
    BY <1>1, <1>2 DEF BatchInv
  <2>2. \A w \in writes' : w.req \in DOMAIN served
    BY <1>1, ServedWrites DEF BatchInv
  <2> QED
    BY <1>3, <2>1, <2>2 DEF BatchInv
<1>6. ASSUME NEW i \in DOMAIN rs, rs[i] # "ok" PROVE ~WroteIn(taken, i)'
  BY <1>1, <1>6, WrittenNone
<1>7. EndInv'
  <2>1. ASSUME NEW rep \in replies'
        PROVE  /\ ~rep.refused => Ends(rep.results, served[rep.no])
               /\ \A i \in DOMAIN rep.results : rep.results[i] # "ok" => ~WroteIn(rep.no, i)'
    <3>1. CASE rep \in replies
      BY <1>4, <3>1 DEF EndInv
    <3>2. CASE rep = new
      BY <1>2, <1>6, <3>2
    <3> QED
      BY <1>2, <3>1, <3>2
  <2> QED
    BY <2>1 DEF EndInv, Ends
<1> QED
  BY <1>5, <1>7

\* The request being served, in plain terms.
LEMMA ServedNow ==
  ASSUME AdmitInv, OnceInv, BatchInv, Running
  PROVE  /\ taken \in DOMAIN served /\ served[taken] \in Appliers /\ active = Meant(served[taken])
         /\ ~WroteIn(taken, at) /\ Len(active.commands) = 2 /\ active.batch /\ active \in Inputs
         /\ \/ at = 1 /\ results = <<>> /\ ~WroteIn(taken, 2)
               /\ Current = [name |-> "create_clip", arg |-> SlotOf[served[taken]], dry |-> "no"]
            \/ at = 2 /\ results = <<"ok">>
               /\ Current = [name |-> "add_notes_to_clip", arg |-> SlotOf[served[taken]], dry |-> "no"]
<1>1. /\ active # None /\ taken \in DOMAIN served /\ active = Meant(served[taken])
      /\ ~WroteIn(taken, at)
  BY DEF Running, BatchInv
<1>2. served[taken] \in Appliers
  BY <1>1 DEF OnceInv
<1>3. active \in Inputs
  BY <1>1 DEF AdmitInv, TellInv, TypeInv, UndoInv
<1>4. sentTo[served[taken]] \in Scripts
  BY <1>1 DEF OnceInv
<1> DEFINE cs == active.commands
<1>5. /\ Len(cs) = 2 /\ DOMAIN cs = 1..2 /\ active.batch
      /\ cs[1] = [name |-> "create_clip", arg |-> SlotOf[served[taken]], dry |-> "no"]
      /\ cs[2] = [name |-> "add_notes_to_clip", arg |-> SlotOf[served[taken]], dry |-> "no"]
  BY <1>1, <1>2, <1>4, BatchOf DEF Meant
<1>6. at \in 1..2 /\ at = Len(results) + 1 /\ results \in Seq(Outcomes)
      /\ (\A i \in DOMAIN results : results[i] = "ok")
      /\ \A i \in 1..2 : i > at => ~WroteIn(taken, i)
  BY <1>1, <1>5 DEF Running, AdmitInv, TellInv, TypeInv, TypeOK, ActiveOK
<1>7. CASE at = 1
  <2>1. results = <<>> /\ ~WroteIn(taken, 2)
    BY <1>6, <1>7
  <2> QED
    BY <1>1, <1>2, <1>3, <1>5, <1>7, <2>1 DEF Current
<1>8. CASE at = 2
  <2>0. Len(results) \in Nat /\ DOMAIN results = 1..Len(results)
    BY <1>6
  <2>1. Len(results) = 1 /\ results[1] = "ok"
    <3>1. Len(results) = 1
      BY <1>6, <1>8, <2>0
    <3> QED
      BY <1>6, <2>0, <3>1
  <2>2. results = <<"ok">>
    <3>1. results \in Seq(Outcomes) /\ DOMAIN results = 1..1
      BY <1>6, <2>1
    <3> QED
      BY <2>1, <3>1
  <2> QED
    BY <1>1, <1>2, <1>3, <1>5, <1>8, <2>2 DEF Current
<1> QED
  BY <1>6, <1>7, <1>8

\* A batch is taken: it begins, or is refused.
LEMMA EndTakes ==
  ASSUME AdmitInv, OnceInv, BatchInv, EndInv, TakeBatch
  PROVE  BatchInv' /\ EndInv'
<1> DEFINE r == BatchFor(Head(queue), script)
           new == [no |-> taken + 1, req |-> r, refused |-> TRUE, results |-> <<>>]
<1>1. /\ Take(r) /\ sentTo' = sentTo /\ Len(served) = taken /\ taken \in Nat
      /\ sentTo[queue[1]] = script
  BY TakenOne, DispatchAssumption DEF TakeBatch, OnceInv, AdmitInv, TellInv, TypeInv, TypeOK
<1>2. /\ active = None /\ taken' = taken + 1 /\ writes' = writes
      /\ \/ replies' = replies \cup {new} /\ active' = active
         \/ replies' = replies /\ active' = r /\ at' = 1
  BY <1>1 DEF Take
<1>3. /\ served'[taken + 1] = queue[1] /\ taken + 1 \in DOMAIN served'
      /\ \A i \in DOMAIN served : i \in DOMAIN served' /\ served'[i] = served[i]
  BY <1>1, TakenOne
<1>4. r = BatchFor(queue[1], sentTo[queue[1]])
  BY <1>1, TakenOne
<1>5. sentTo' = sentTo
  BY <1>1
<1>6. \A no, i : WroteIn(no, i)' <=> WroteIn(no, i)
  BY <1>2 DEF WroteIn
<1>7. new.no = taken + 1 /\ new.req = r /\ new.refused /\ new.results = <<>>
  OBVIOUS
<1>8. r = Meant(served'[taken + 1])
  BY <1>3, <1>4 DEF Meant
<1> HIDE DEF r, new
<1>9. BatchInv'
  <2>1. active' # None => /\ taken' \in DOMAIN served' /\ active' = Meant(served'[taken'])
                          /\ ~WroteIn(taken + 1, at')
    <3>1. ~\E w \in writes : w.req = taken + 1
      BY <1>1 DEF AdmitInv, TellInv, TakenOK, TypeInv, TypeOK, Writes, Makers
    <3> QED
      BY <1>2, <1>3, <1>8, <3>1 DEF WroteIn
  <2>2. ASSUME NEW rep \in replies'
        PROVE  rep.no \in DOMAIN served' /\ rep.req = Meant(served'[rep.no])
    <3>1. CASE rep \in replies
      BY <1>3, <1>5, <3>1 DEF BatchInv
    <3>2. CASE rep = new
      BY <1>3, <1>7, <1>8, <3>2
    <3> QED
      BY <1>2, <3>1, <3>2
  <2>3. active' # None => ~(\E w \in writes' : w.req = taken' /\ w.index = at')
    BY <1>2, <2>1 DEF WroteIn
  <2>4. \A w \in writes' : w.req \in DOMAIN served'
    BY <1>2, <1>3 DEF BatchInv
  <2> QED
    BY <1>5, <2>1, <2>2, <2>3, <2>4 DEF BatchInv, WroteIn, Meant
<1>10. EndInv'
  <2>1. ASSUME NEW rep \in replies'
        PROVE  /\ ~rep.refused => Ends(rep.results, served'[rep.no])
               /\ \A i \in DOMAIN rep.results : rep.results[i] # "ok" => ~WroteIn(rep.no, i)'
    <3>1. CASE rep \in replies
      BY <1>3, <1>6, <3>1 DEF EndInv, BatchInv
    <3>2. CASE rep = new
      BY <1>7, <3>2
    <3> QED
      BY <1>2, <3>1, <3>2
  <2> QED
    BY <2>1 DEF EndInv, Ends
<1> QED
  BY <1>9, <1>10

\* The outcome of the second command, after that of the first.
LEMMA SecondOutcome ==
  ASSUME NEW x \in Outcomes, results = <<"ok">>
  PROVE  /\ Len(Append(results, x)) = 2 /\ DOMAIN Append(results, x) = 1..2
         /\ Append(results, x)[1] = "ok" /\ Append(results, x)[2] = x
<1>1. results \in Seq(Outcomes) /\ Len(results) = 1 /\ results[1] = "ok"
  BY DEF Outcomes
<1>2. \A s \in Seq(Outcomes) :
        /\ Append(s, x) \in Seq(Outcomes) /\ Len(Append(s, x)) = Len(s) + 1
        /\ \A i \in 1..Len(s) : Append(s, x)[i] = s[i]
        /\ Append(s, x)[Len(s) + 1] = x
  BY AppendProperties
<1> DEFINE rs == Append(results, x)
<1>3. /\ rs \in Seq(Outcomes) /\ Len(rs) = 2
      /\ rs[1] = "ok" /\ rs[2] = x
  BY <1>1, <1>2
<1> HIDE DEF rs
<1>4. DOMAIN rs = 1..2
  BY <1>3
<1> QED
  BY <1>3, <1>4 DEF rs

\* A command of a batch ends.
LEMMA EndLive ==
  ASSUME AdmitInv, OnceInv, BatchInv, EndInv, LiveStep
  PROVE  BatchInv' /\ EndInv'
<1>0. UNCHANGED <<served, sentTo>>
  BY DEF LiveStep, bridge
<1>1. CASE TickBegins \/ TickEnds \/ UserEdit
  <2>1. UNCHANGED <<taken, active, at, replies, writes>>
    BY <1>1 DEF TickBegins, TickEnds, UserEdit, live
  <2> QED
    BY <1>0, <2>1, MeantStays
<1>2. CASE LiveRaises
  <2>1. Running /\ CommandEnds("exception") /\ UNCHANGED <<taken, writes>>
    BY <1>2 DEF LiveRaises
  <2> DEFINE rs == Append(results, "exception")
  <2>2. Finish(rs)
    BY <2>1 DEF CommandEnds
  <2>3. /\ Ends(rs, served[taken])
        /\ \A i \in DOMAIN rs : rs[i] # "ok" => i = at
    <3>1. CASE at = 1
      <4>1. rs = <<"exception">>
        BY <2>1, <3>1, ServedNow
      <4>2. Len(rs) = 1 /\ DOMAIN rs = 1..1 /\ rs[1] = "exception"
        BY <4>1
      <4> HIDE DEF rs
      <4> QED
        BY <3>1, <4>2 DEF Ends
    <3>2. CASE at = 2
      <4>1. results = <<"ok">>
        BY <2>1, <3>2, ServedNow
      <4>2. /\ Len(rs) = 2 /\ DOMAIN rs = 1..2
            /\ rs[1] = "ok" /\ rs[2] = "exception"
        BY <4>1, SecondOutcome DEF Outcomes
      <4> HIDE DEF rs
      <4> QED
        BY <3>2, <4>2 DEF Ends
    <3> QED
      BY <2>1, <3>1, <3>2, ServedNow
  <2> HIDE DEF rs
  <2> QED
    BY <1>0, <2>1, <2>2, <2>3, EndsBatch DEF Finish, Running
<1>3. CASE AddNotes
  <2>1. Running /\ Current.name = "add_notes_to_clip" /\ taken' = taken
    BY <1>3 DEF AddNotes, Runnable
  <2>2. PICK x \in {"wrong_type", "ok"} :
          /\ CommandEnds(x) /\ (x # "ok" => writes' = writes)
          /\ writes' = writes \/ \E into : Written(into)
    BY <1>3 DEF AddNotes
  <2>3. /\ at = 2 /\ results = <<"ok">> /\ Len(active.commands) = 2
    BY <2>1, ServedNow
  <2> DEFINE rs == Append(results, x)
  <2>4. Finish(rs)
    BY <2>2, <2>3 DEF CommandEnds
  <2>5. /\ Ends(rs, served[taken])
        /\ \A i \in DOMAIN rs : rs[i] # "ok" => i = at /\ writes' = writes
    <3>1. Len(rs) = 2 /\ DOMAIN rs = 1..2 /\ rs[1] = "ok" /\ rs[2] = x
      BY <2>3, SecondOutcome DEF Outcomes
    <3> HIDE DEF rs
    <3> QED
      BY <2>2, <2>3, <3>1 DEF Ends
  <2> HIDE DEF rs
  <2> QED
    BY <1>0, <2>1, <2>2, <2>4, <2>5, EndsBatch DEF Finish, Running
<1>4. CASE CreateClip
  <2>1. Running /\ Current.name = "create_clip" /\ taken' = taken
    BY <1>4 DEF CreateClip, Runnable
  <2>2. /\ at = 1 /\ results = <<>> /\ Len(active.commands) = 2 /\ ~WroteIn(taken, 2)
        /\ Current.arg = SlotOf[served[taken]]
    BY <2>1, ServedNow
  <2>3. CASE CommandEnds("ok")
    <3>1. at' = 2 /\ UNCHANGED <<active, replies>>
      BY <2>2, <2>3 DEF CommandEnds
    <3>2. writes' = writes \/ \E into : Written(into)
      BY <1>4 DEF CreateClip
    <3>3. \A i : Meant(served[i])' = Meant(served[i])
      BY <1>0 DEF Meant, BatchFor
    <3>4. active # None /\ \A rep \in replies : rep.no # taken
      BY <2>1 DEF Running, AdmitInv, TellInv, TakenOK
    <3>5. ASSUME NEW rep \in replies, NEW i PROVE WroteIn(rep.no, i)' <=> WroteIn(rep.no, i)
      BY <3>2, <3>4, WrittenOne, WrittenNone
    <3>6. ASSUME NEW no, no = taken PROVE ~WroteIn(no, 2)'
      <4>1. ~WroteIn(no, 2) /\ at # 2
        BY <2>2, <3>6
      <4> QED
        BY <3>2, <4>1, WrittenOne, WrittenNone
    <3>7. BatchInv'
      <4>1. active' # None => ~(\E w \in writes' : w.req = taken' /\ w.index = at')
        BY <2>1, <3>1, <3>6 DEF WroteIn
      <4>2. \A w \in writes' : w.req \in DOMAIN served
        BY <2>1, <3>2, ServedWrites DEF BatchInv, Running
      <4> QED
        BY <1>0, <2>1, <3>1, <3>3, <4>1, <4>2 DEF BatchInv, WroteIn
    <3>8. EndInv'
      <4>1. ASSUME NEW rep \in replies'
            PROVE  /\ ~rep.refused => Ends(rep.results, served[rep.no])
                   /\ \A i \in DOMAIN rep.results : rep.results[i] # "ok" => ~WroteIn(rep.no, i)'
        BY <3>1, <3>5 DEF EndInv
      <4> QED
        BY <1>0, <4>1 DEF EndInv, Ends
    <3> QED
      BY <3>7, <3>8
  <2>4. ASSUME ~CommandEnds("ok") PROVE BatchInv' /\ EndInv'
    <3>1. PICK x \in {"wrong_type", "occupied"} :
            /\ CommandEnds(x) /\ writes' = writes
            /\ x = "wrong_type" => SlotOf[served[taken]] \notin MidiSlots
      BY <1>4, <2>2, <2>4 DEF CreateClip
    <3>2. Finish(<<x>>)
      BY <2>2, <3>1 DEF CommandEnds
    <3>3. Len(<<x>>) = 1 /\ DOMAIN <<x>> = 1..1 /\ <<x>>[1] = x
      OBVIOUS
    <3>4. Ends(<<x>>, served[taken])
      BY <3>1, <3>3 DEF Ends
    <3>5. \A i \in DOMAIN <<x>> : i = at
      BY <2>2, <3>3
    <3> QED
      BY <1>0, <2>1, <3>1, <3>2, <3>4, <3>5, EndsBatch DEF Finish, Running
  <2> QED
    BY <2>3, <2>4
<1> QED
  BY <1>1, <1>2, <1>3, <1>4 DEF LiveStep

LEMMA EndKeeps ==
  ASSUME AdmitInv, OnceInv, BatchInv, EndInv, [GrooveNext]_allVars
  PROVE  BatchInv' /\ EndInv'
<1>1. ASSUME NEW a \in Appliers, Silent(a) PROVE BatchInv' /\ EndInv'
  BY <1>1, MeantStays DEF Silent, vars, live
<1>2. ASSUME NEW a \in Appliers, Sends(a) PROVE BatchInv' /\ EndInv'
  <2>1. \A i \in DOMAIN served : served[i] # a /\ served[i] \in Appliers
    BY <1>2 DEF Sends, OnceInv, Unsent
  <2>2. \A i \in DOMAIN served : sentTo'[served[i]] = sentTo[served[i]]
    BY <1>2, <2>1 DEF Sends, OnceInv
  <2> QED
    BY <1>2, <2>2, MeantStays DEF Sends, vars, live
<1>3. CASE Restart
  <2>1. active' = None /\ UNCHANGED <<taken, replies, writes, served, sentTo>>
    BY <1>3 DEF Restart
  <2>2. \A i \in DOMAIN served : Meant(served[i])' = Meant(served[i])
    BY <2>1 DEF Meant, BatchFor
  <2>3. \A no, i : WroteIn(no, i)' <=> WroteIn(no, i)
    BY <2>1 DEF WroteIn
  <2>4. BatchInv'
    BY <2>1, <2>2 DEF BatchInv
  <2>5. EndInv'
    BY <2>1, <2>3 DEF EndInv, Ends
  <2> QED
    BY <2>4, <2>5
<1>4. CASE UNCHANGED allVars
  BY <1>4, MeantStays DEF allVars, vars, live, bridge
<1> QED
  BY <1>1, <1>2, <1>3, <1>4, CallSteps, EndTakes, EndLive DEF GrooveNext

(*********************** what receipts are drawn from **********************)
\* A receipt has its reason.
Drawn(a) ==
  /\ receipt[a] # "none" => pc[a] = "done"
  /\ receipt[a] = "rejected" /\ stage[a] \notin {"precondition", "batch"} => Unsent(a)
  /\ receipt[a] = "rejected" /\ stage[a] = "precondition" =>
       \E rep \in RepliesTo(a) : rep.refused
  /\ receipt[a] = "partial" =>
       \E rep \in RepliesTo(a) : ~rep.refused /\ Len(rep.results) = 2 /\ rep.results[2] # "ok"
  /\ receipt[a] = "committed" =>
       \E rep \in RepliesTo(a) : ~rep.refused /\ ~(Len(rep.results) = 2 /\ rep.results[2] # "ok")

\* A reason stays one when Live's thread goes on, or Live ends.
LEMMA ReasonsLast ==
  ASSUME OnceInv, BatchInv, TakeBatch \/ LiveStep \/ Restart, NEW a \in Appliers
  PROVE  (Unsent(a) => Unsent(a)') /\ RepliesTo(a) \subseteq RepliesTo(a)'
<1>1. CASE TakeBatch
  <2>1. replies \subseteq replies'
    BY <1>1 DEF TakeBatch, Take
  <2>2. Unsent(a) => Unsent(a)'
    BY <1>1, TakenOne DEF Unsent
  <2>3. \A i \in DOMAIN served : served'[i] = served[i]
    BY <1>1, TakenOne
  <2> QED
    BY <2>1, <2>2, <2>3 DEF RepliesTo, BatchInv
<1>2. CASE LiveStep
  <2>1. UNCHANGED <<queue, served>>
    BY <1>2 DEF LiveStep, bridge
  <2>2. replies \subseteq replies'
    <3>1. ASSUME NEW x, CommandEnds(x) PROVE replies \subseteq replies'
      BY <3>1 DEF CommandEnds, Finish
    <3> QED
      BY <1>2, <3>1 DEF LiveStep, TickBegins, TickEnds, CreateClip, AddNotes, LiveRaises, UserEdit, live
  <2> QED
    BY <2>1, <2>2 DEF RepliesTo, Unsent
<1>3. CASE Restart
  BY <1>3 DEF Restart, RepliesTo, Unsent
<1> QED
  BY <1>1, <1>2, <1>3

LEMMA ReceiptsKeep ==
  ASSUME OnceInv, BatchInv, ReceiptInv, [GrooveNext]_allVars
  PROVE  ReceiptInv'
<1> DEFINE States == {"none", "preview", "rejected", "committed", "partial", "unknown"}
           Stages == {"none", "capability", "epoch", "precondition", "batch",
                      "transport_after_send"}
<1>0. /\ receipt \in [Appliers -> States] /\ stage \in [Appliers -> Stages]
      /\ \A b \in Appliers : Drawn(b)
  BY DEF ReceiptInv, Drawn
<1> SUFFICES /\ receipt' \in [Appliers -> States] /\ stage' \in [Appliers -> Stages]
             /\ \A b \in Appliers : Drawn(b)'
  BY DEF ReceiptInv, Drawn
<1>1. ASSUME NEW a \in Appliers, Silent(a), Keeps, pc[a] # "done"
      PROVE  /\ receipt' = receipt /\ stage' = stage
             /\ \A b \in Appliers : Drawn(b)'
  <2>1. UNCHANGED <<queue, served, replies>> /\ \A b \in Appliers : b # a => pc'[b] = pc[b]
    BY <1>1 DEF Silent, vars, live
  <2> QED
    BY <1>0, <1>1, <2>1 DEF Keeps, Drawn, Unsent, RepliesTo
<1>2. ASSUME NEW a \in Appliers, Silent(a), Draws(a)
      PROVE  /\ receipt' \in [Appliers -> States] /\ stage' \in [Appliers -> Stages]
             /\ \A b \in Appliers : Drawn(b)'
  <2>1. UNCHANGED <<queue, served, replies>> /\ \A b \in Appliers : b # a => pc'[b] = pc[b]
    BY <1>2 DEF Silent, vars, live
  <2>2. PICK state \in States \ {"none"} : \E where \in Stages :
          /\ Return(a, state, where)
          /\ state = "rejected" /\ where \notin {"precondition", "batch"} => pc[a] \notin Afterwards
          /\ state = "rejected" /\ where = "precondition" => \E rep \in RepliesTo(a) : rep.refused
          /\ state = "partial" =>
               \E rep \in RepliesTo(a) : ~rep.refused /\ Len(rep.results) = 2 /\ rep.results[2] # "ok"
          /\ state = "committed" =>
               \E rep \in RepliesTo(a) : ~rep.refused /\ ~(Len(rep.results) = 2 /\ rep.results[2] # "ok")
    BY <1>2 DEF Draws
  <2>3. PICK where \in Stages :
          /\ Return(a, state, where)
          /\ state = "rejected" /\ where \notin {"precondition", "batch"} => pc[a] \notin Afterwards
          /\ state = "rejected" /\ where = "precondition" => \E rep \in RepliesTo(a) : rep.refused
          /\ state = "partial" =>
               \E rep \in RepliesTo(a) : ~rep.refused /\ Len(rep.results) = 2 /\ rep.results[2] # "ok"
          /\ state = "committed" =>
               \E rep \in RepliesTo(a) : ~rep.refused /\ ~(Len(rep.results) = 2 /\ rep.results[2] # "ok")
    BY <2>2
  <2>4. /\ receipt' = [receipt EXCEPT ![a] = state] /\ stage' = [stage EXCEPT ![a] = where]
        /\ pc'[a] = "done"
    BY <2>3, GoToGoes DEF Return
  <2>5. /\ receipt' \in [Appliers -> States] /\ stage' \in [Appliers -> Stages]
        /\ receipt'[a] = state /\ stage'[a] = where
        /\ \A b \in Appliers : b # a => receipt'[b] = receipt[b] /\ stage'[b] = stage[b]
    BY <1>0, <2>4
  <2>6. Drawn(a)'
    <3>1. pc[a] \notin Afterwards => Unsent(a)
      BY DEF OnceInv, Afterwards
    <3> QED
      BY <2>1, <2>3, <2>4, <2>5, <3>1 DEF Drawn, Unsent, RepliesTo
  <2>7. ASSUME NEW b \in Appliers, b # a PROVE Drawn(b)'
    BY <1>0, <2>1, <2>5, <2>7 DEF Drawn, Unsent, RepliesTo
  <2> QED
    BY <2>5, <2>6, <2>7
<1>3. ASSUME NEW a \in Appliers, Sends(a)
      PROVE  receipt' = receipt /\ stage' = stage /\ \A b \in Appliers : Drawn(b)'
  <2>1. /\ UNCHANGED <<receipt, stage, served, replies>> /\ receipt[a] = "none"
        /\ pc'[a] = "await" /\ \A b \in Appliers : b # a => pc'[b] = pc[b]
    BY <1>0, <1>3, GoToGoes DEF Sends, Drawn, vars, live
  <2>2. ASSUME NEW b \in Appliers, b # a, Unsent(b) PROVE Unsent(b)'
    <3>1. CASE ~alive
      BY <1>3, <2>1, <2>2, <3>1 DEF Sends, Unsent
    <3>2. CASE alive
      <4>1. queue' = Append(queue, a) /\ queue \in Seq(Appliers)
        BY <1>3, <3>2 DEF Sends, OnceInv
      <4>2. /\ Len(queue') = Len(queue) + 1 /\ queue' \in Seq(Appliers)
            /\ \A i \in 1..Len(queue) : queue'[i] = queue[i]
            /\ queue'[Len(queue) + 1] = a
        BY <4>1, AppendProperties
      <4>3. \A i \in DOMAIN queue' : (i \in DOMAIN queue /\ queue'[i] = queue[i]) \/ queue'[i] = a
        BY <4>1, <4>2
      <4> QED
        BY <2>1, <2>2, <4>3 DEF Unsent
    <3> QED
      BY <3>1, <3>2
  <2>3. ASSUME NEW b \in Appliers PROVE Drawn(b)'
    BY <1>0, <2>1, <2>2 DEF Drawn, RepliesTo
  <2> QED
    BY <2>1, <2>3
<1>4. CASE TakeBatch \/ LiveStep \/ Restart
  <2>1. UNCHANGED <<receipt, stage, pc>>
    BY <1>4 DEF TakeBatch, LiveStep, Restart, client
  <2>2. ASSUME NEW b \in Appliers PROVE Drawn(b)'
    <3>1. (Unsent(b) => Unsent(b)') /\ RepliesTo(b) \subseteq RepliesTo(b)'
      BY <1>4, ReasonsLast
    <3> QED
      BY <1>0, <2>1, <3>1 DEF Drawn
  <2> QED
    BY <1>0, <2>1, <2>2
<1>5. CASE UNCHANGED allVars
  BY <1>0, <1>5 DEF allVars, vars, live, client, bridge, Drawn, Unsent, RepliesTo
<1> QED
  BY <1>0, <1>1, <1>2, <1>3, <1>4, <1>5, CallSteps DEF GrooveNext

(*********************** the theorems **************************************)
LEMMA ApplyInit == GrooveInit => ApplyInv
<1> SUFFICES ASSUME GrooveInit PROVE ApplyInv
  OBVIOUS
<1>1. AdmitInv
  BY AdmitInit DEF GrooveInit
<1>2. /\ taken = 0 /\ active = None /\ replies = {} /\ writes = {}
      /\ queue = <<>> /\ served = <<>> /\ script \in Scripts
      /\ pc = [a \in Appliers |-> "idle"] /\ receipt = [a \in Appliers |-> "none"]
      /\ stage = [a \in Appliers |-> "none"] /\ sentTo = [a \in Appliers |-> None]
  BY DEF GrooveInit, Init
<1>3. OnceInv
  BY <1>2 DEF OnceInv, Unsent
<1>4. BatchInv /\ EndInv
  BY <1>2 DEF BatchInv, EndInv
<1>5. ReceiptInv
  BY <1>2 DEF ReceiptInv
<1> QED
  BY <1>1, <1>3, <1>4, <1>5 DEF ApplyInv

LEMMA ApplyKeeps == ApplyInv /\ [GrooveNext]_allVars => ApplyInv'
BY AdmitKeeps, OnceKeeps, EndKeeps, ReceiptsKeep DEF ApplyInv

\* A reply to a batch: the batch is over, and what it has written is what the reply's
\* request has written.
LEMMA Settled ==
  ASSUME ApplyInv, NEW a \in Appliers, NEW rep \in RepliesTo(a)
  PROVE  /\ rep \in replies /\ served[rep.no] = a /\ ~Pending(a)
         /\ \A i : Wrote(a, i) <=> WroteIn(rep.no, i)
         /\ rep.req = Meant(a) /\ sentTo[a] \in Scripts /\ rep.results \in Seq(Outcomes)
<1>1. rep \in replies /\ served[rep.no] = a /\ rep.no \in DOMAIN served /\ rep.req = Meant(a)
  BY DEF RepliesTo, ApplyInv, BatchInv
<1>2. ~Pending(a)
  <2>1. \A i \in DOMAIN queue : queue[i] # a
    BY <1>1 DEF ApplyInv, OnceInv
  <2>2. active # None => taken \in DOMAIN served /\ rep.no # taken
    BY <1>1 DEF ApplyInv, BatchInv, AdmitInv, TellInv, TakenOK
  <2>3. active # None => served[taken] # a
    BY <1>1, <2>2 DEF ApplyInv, OnceInv
  <2> QED
    BY <2>1, <2>3 DEF Pending
<1>3. ASSUME NEW i PROVE Wrote(a, i) <=> WroteIn(rep.no, i)
  <2>1. \A w \in writes : w.req \in DOMAIN served
    BY DEF ApplyInv, BatchInv
  <2>2. \A w \in writes : served[w.req] = a <=> w.req = rep.no
    BY <1>1, <2>1 DEF ApplyInv, OnceInv
  <2> QED
    BY <2>2 DEF Wrote, WroteIn
<1>4. sentTo[a] \in Scripts
  BY <1>1 DEF ApplyInv, OnceInv
<1>5. rep.results \in Seq(Outcomes)
  BY <1>1 DEF ApplyInv, AdmitInv, TellInv, TypeInv, TypeOK, Replies
<1> QED
  BY <1>1, <1>2, <1>3, <1>4, <1>5

\* What the reply to a batch says of its two commands is so.
LEMMA ToldOfBatch ==
  ASSUME ApplyInv, NEW a \in Appliers, NEW rep \in RepliesTo(a)
  PROVE  /\ rep.refused => ~Wrote(a, 1) /\ ~Wrote(a, 2)
         /\ ~rep.refused => Ends(rep.results, a)
         /\ \A i \in DOMAIN rep.results :
              /\ rep.results[i] = "ok" /\ i \in 1..2 => Wrote(a, i)
              /\ rep.results[i] # "ok" => ~Wrote(a, i)
         /\ sentTo[a] = "v1" /\ 1 \in DOMAIN rep.results => rep.results[1] # "occupied"
<1> DEFINE cs == rep.req.commands
<1>1. /\ rep \in replies /\ served[rep.no] = a /\ \A i : Wrote(a, i) <=> WroteIn(rep.no, i)
      /\ rep.req = BatchFor(a, sentTo[a]) /\ sentTo[a] \in Scripts
  BY Settled DEF Meant
<1>2. /\ DOMAIN cs = 1..2
      /\ cs[1] = [name |-> "create_clip", arg |-> SlotOf[a], dry |-> "no"]
      /\ cs[2] = [name |-> "add_notes_to_clip", arg |-> SlotOf[a], dry |-> "no"]
      /\ sentTo[a] = "v1" => rep.req.pre = {SlotOf[a]}
  BY <1>1, BatchOf
<1>3. \A i \in DOMAIN cs : cs[i].dry = "no" /\ cs[i].name \in Mutations /\ cs[i].arg = SlotOf[a]
  BY <1>2 DEF Mutations
<1>4. \A i \in DOMAIN cs :
        /\ rep.refused => ~WroteIn(rep.no, i)
        /\ i \in DOMAIN rep.results /\ rep.results[i] = "ok" => WroteIn(rep.no, i)
  BY <1>1, <1>3 DEF ApplyInv, AdmitInv, TellInv, RepliesTellTheSet, WroteIn
<1>5. /\ ~rep.refused => Ends(rep.results, a)
      /\ \A i \in DOMAIN rep.results : rep.results[i] # "ok" => ~WroteIn(rep.no, i)
  BY <1>1 DEF ApplyInv, EndInv
<1>6. ASSUME sentTo[a] = "v1", 1 \in DOMAIN rep.results PROVE rep.results[1] # "occupied"
  <2>1. cs[1].arg \in rep.req.pre
    BY <1>2, <1>3, <1>6
  <2>2. rep.results[1] = "occupied" => \E j \in 1..(1 - 1) : TRUE
    BY <1>1, <1>6, <2>1 DEF ApplyInv, AdmitInv, AdmissionLasts
  <2> QED
    BY <2>2
<1> QED
  BY <1>1, <1>2, <1>4, <1>5, <1>6

\* A call that was refused before its batch began has written nothing, and no batch of it
\* is on its way to write later: whether Live's thread refused the batch, or the client
\* would not send it at the epoch of the snapshot. (groove_intelligence/apply.py)
THEOREM RefusalsAreFinal == GrooveSpec => []RefusedIsFinal
<1>1. ASSUME ApplyInv PROVE RefusedIsFinal
  <2> SUFFICES ASSUME NEW a \in Appliers, receipt[a] = "rejected", stage[a] # "batch"
               PROVE  ~Pending(a) /\ \A i \in 1..2 : ~Wrote(a, i)
    BY DEF RefusedIsFinal
  <2>1. CASE stage[a] = "precondition"
    <3>1. PICK rep \in RepliesTo(a) : rep.refused
      BY <1>1, <2>1 DEF ApplyInv, ReceiptInv
    <3>2. ~Pending(a) /\ ~Wrote(a, 1) /\ ~Wrote(a, 2)
      BY <1>1, <3>1, Settled, ToldOfBatch
    <3> QED
      BY <3>2
  <2>2. CASE stage[a] # "precondition"
    <3>1. Unsent(a)
      BY <1>1, <2>2 DEF ApplyInv, ReceiptInv
    <3> QED
      BY <1>1, <3>1 DEF ApplyInv, BatchInv, Unsent, Pending, Wrote
  <2> QED
    BY <2>1, <2>2
<1> QED
  BY <1>1, ApplyInit, ApplyKeeps, PTL DEF GrooveSpec

\* A partial receipt is drawn only when the clip of this call was made and its notes were
\* not added, and nothing of the batch is left to be done. (apply.py, _receipt_from_bridge)
THEOREM PartialsAreClips == GrooveSpec => []PartialIsAClip
<1>1. ASSUME ApplyInv PROVE PartialIsAClip
  <2> SUFFICES ASSUME NEW a \in Appliers, receipt[a] = "partial"
               PROVE  Wrote(a, 1) /\ ~Wrote(a, 2) /\ ~Pending(a)
    BY DEF PartialIsAClip
  <2>1. PICK rep \in RepliesTo(a) : ~rep.refused /\ Len(rep.results) = 2 /\ rep.results[2] # "ok"
    BY <1>1 DEF ApplyInv, ReceiptInv
  <2>2. DOMAIN rep.results = 1..2 /\ ~Pending(a)
    BY <1>1, <2>1, Settled
  <2>3. rep.results[1] = "ok"
    BY <1>1, <2>1, ToldOfBatch DEF Ends
  <2> QED
    BY <1>1, <2>1, <2>2, <2>3, ToldOfBatch
<1> QED
  BY <1>1, ApplyInit, ApplyKeeps, PTL DEF GrooveSpec

\* A committed receipt of the script whose capability was required tells of notes in the
\* clip of this groove, unless Live raised an exception at the first command or the track
\* is no MIDI track: the slot was still empty when the clip was made, since nothing comes
\* between the admission of a batch and its first command. (apply.py, preconditions.py)
THEOREM CommittedAreWritten == GrooveSpec => []CommittedIsWritten
<1>1. ASSUME ApplyInv PROVE CommittedIsWritten
  <2> SUFFICES ASSUME NEW a \in Appliers, receipt[a] = "committed", SlotOf[a] \in MidiSlots,
                      sentTo[a] = "v1",
                      \A rep \in RepliesTo(a) : rep.results # <<"exception">>
               PROVE  Wrote(a, 1) /\ Wrote(a, 2) /\ ~Pending(a)
    BY DEF CommittedIsWritten
  <2>1. PICK rep \in RepliesTo(a) : ~rep.refused /\ ~(Len(rep.results) = 2 /\ rep.results[2] # "ok")
    BY <1>1 DEF ApplyInv, ReceiptInv
  <2> DEFINE rs == rep.results
  <2>2. rs \in Seq(Outcomes) /\ ~Pending(a) /\ rs # <<"exception">>
    BY <1>1, Settled
  <2>3. Ends(rs, a) /\ (1 \in DOMAIN rs => rs[1] # "occupied")
        /\ \A i \in DOMAIN rs : rs[i] = "ok" /\ i \in 1..2 => Wrote(a, i)
    BY <1>1, <2>1, ToldOfBatch
  <2>4. ~(Len(rs) = 2 /\ rs[2] # "ok")
    BY <2>1
  <2> HIDE DEF rs
  <2>5. ~(Len(rs) = 1 /\ rs[1] = "exception")
    BY <2>2
  <2>6. Len(rs) = 2 /\ rs[1] = "ok" /\ rs[2] = "ok"
    <3>1. Len(rs) = 1 => 1 \in DOMAIN rs
      BY <2>2
    <3> QED
      BY <2>3, <2>4, <2>5, <3>1 DEF Ends
  <2>7. DOMAIN rs = 1..2
    BY <2>2, <2>6
  <2> QED
    BY <2>2, <2>3, <2>6, <2>7
<1> QED
  BY <1>1, ApplyInit, ApplyKeeps, PTL DEF GrooveSpec

(*********************** the epochs ****************************************)
EpochInv ==
  /\ snap \in [Appliers -> 0..MaxEpoch] /\ cache \in [0..MaxEpoch -> BOOLEAN]
  /\ lock \in Appliers \cup {None}
  /\ epoch \in 0..MaxEpoch /\ connected \in BOOLEAN /\ (connected <=> epoch % 2 = 1)
  /\ alive \in BOOLEAN /\ restarts \in 0..MaxRestarts

LEMMA EpochKeeps == EpochInv /\ [GrooveNext]_allVars => EpochInv'
<1> SUFFICES ASSUME EpochInv, [GrooveNext]_allVars PROVE EpochInv'
  OBVIOUS
<1>1. CASE UNCHANGED allVars
  BY <1>1 DEF allVars, client, bridge, EpochInv
<1>2. CASE TakeBatch \/ LiveStep \/ Restart
  <2>1. UNCHANGED <<snap, lock, epoch, connected, cache>>
    BY <1>2 DEF TakeBatch, LiveStep, Restart, client
  <2>2. alive' \in BOOLEAN
    BY <1>2 DEF TakeBatch, LiveStep, Restart, bridge, EpochInv
  <2>3. restarts' = restarts \/ (restarts' = restarts + 1 /\ restarts < MaxRestarts)
    BY <1>2 DEF TakeBatch, LiveStep, Restart, bridge
  <2>4. restarts' \in 0..MaxRestarts
    BY <2>3, GrooveAssumption DEF EpochInv
  <2> QED
    BY <2>1, <2>2, <2>4 DEF EpochInv
<1>3. ASSUME NEW a \in Appliers, Begin(a) \/ ApplyStep(a) PROVE EpochInv'
  <2>1. restarts' = restarts /\ alive' \in BOOLEAN
    BY <1>3 DEF Begin, ApplyStep, Status, FetchBegins, Connect, FetchBreaks, FetchAnswered,
                FetchFails, Stamp, Snapshot, Call, Answered, TimedOut, Ambiguous, bridge, EpochInv
  <2>2. lock' \in Appliers \cup {None}
    BY <1>3 DEF Begin, ApplyStep, Status, FetchBegins, Connect, FetchBreaks, FetchAnswered,
                FetchFails, Stamp, Snapshot, Call, Answered, TimedOut, Ambiguous, EpochInv
  <2>3. snap' \in [Appliers -> 0..MaxEpoch] /\ cache' \in [0..MaxEpoch -> BOOLEAN]
    BY <1>3 DEF Begin, ApplyStep, Status, FetchBegins, Connect, FetchBreaks, FetchAnswered,
                FetchFails, Stamp, Snapshot, Call, Answered, TimedOut, Ambiguous, EpochInv
  <2>4. \/ UNCHANGED <<epoch, connected>>
        \/ ~connected /\ epoch < MaxEpoch /\ connected' = TRUE /\ epoch' = epoch + 1
        \/ Disconnected /\ (connected => epoch < MaxEpoch)
    BY <1>3 DEF Begin, ApplyStep, Status, FetchBegins, Connect, FetchBreaks, FetchAnswered,
                FetchFails, Stamp, Snapshot, Call, Answered, TimedOut, Ambiguous
  <2>5. epoch' \in 0..MaxEpoch /\ connected' \in BOOLEAN /\ (connected' <=> epoch' % 2 = 1)
    <3>1. /\ epoch \in Nat /\ MaxEpoch \in Nat /\ epoch <= MaxEpoch
          /\ (connected <=> epoch % 2 = 1) /\ connected \in BOOLEAN
      BY GrooveAssumption DEF EpochInv
    <3>2. CASE UNCHANGED <<epoch, connected>>
      BY <3>2 DEF EpochInv
    <3>3. CASE ~connected /\ epoch < MaxEpoch /\ connected' = TRUE /\ epoch' = epoch + 1
      BY <3>1, <3>3
    <3>4. CASE Disconnected /\ (connected => epoch < MaxEpoch)
      <4>1. CASE connected
        <5>1. connected' = FALSE /\ epoch' = epoch + 1
          BY <3>4, <4>1 DEF Disconnected
        <5>2. epoch' \in 0..MaxEpoch /\ epoch' % 2 # 1
          BY <3>1, <3>4, <4>1, <5>1
        <5> QED
          BY <5>1, <5>2, Zenon
      <4>2. CASE ~connected
        <5>1. connected' = FALSE /\ epoch' = epoch
          BY <3>4, <4>2 DEF Disconnected
        <5>2. epoch' \in 0..MaxEpoch /\ epoch' % 2 # 1
          BY <3>1, <4>2, <5>1
        <5> QED
          BY <5>1, <5>2, Zenon
      <4> QED
        BY <4>1, <4>2
    <3> QED
      BY <2>4, <3>2, <3>3, <3>4
  <2> QED
    BY <2>1, <2>2, <2>3, <2>5 DEF EpochInv
<1> QED
  BY <1>1, <1>2, <1>3 DEF GrooveNext

\* Every variable of the calls keeps its type, and the connection is open exactly in the
\* odd epochs, whoever opens and closes it. (client.py, _connection_epoch)
THEOREM GrooveTypeCorrect == GrooveSpec => []GrooveTypeOK
<1>1. GrooveInit => EpochInv
  <2>1. 0 \in 0..MaxEpoch /\ 0 \in 0..MaxRestarts /\ 0 % 2 = 0
    BY GrooveAssumption
  <2>2. GrooveInit => connected \in BOOLEAN /\ (connected <=> epoch % 2 = 1) /\ epoch = 0
    <3>1. GrooveInit => connected = FALSE /\ epoch = 0 /\ epoch % 2 # 1
      BY <2>1 DEF GrooveInit
    <3> QED
      BY <3>1, Zenon
  <2>3. GrooveInit => alive \in BOOLEAN
    BY DEF GrooveInit
  <2> QED
    BY <2>1, <2>2, <2>3 DEF GrooveInit, EpochInv
<1>2. ASSUME ApplyInv, EpochInv PROVE GrooveTypeOK
  <2>1. connected = (epoch % 2 = 1)
    BY <1>2 DEF EpochInv
  <2> QED
    BY <1>2, <2>1 DEF ApplyInv, OnceInv, ReceiptInv, EpochInv, GrooveTypeOK
<1> QED
  BY <1>1, <1>2, EpochKeeps, ApplyInit, ApplyKeeps, PTL DEF GrooveSpec
==============================================================================
