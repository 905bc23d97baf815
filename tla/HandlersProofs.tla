---------------------------- MODULE HandlersProofs ----------------------------
(***************************************************************************)
(* What a command of Handlers promises, for any values of its parameters,  *)
(* any number of retries, points and steps, and whatever Live and the user *)
(* do between two ticks.                                                   *)
(*                                                                         *)
(* A handler is what is left of it, so each invariant speaks of the        *)
(* statements to come: that what was asked for is still to be seen, that   *)
(* nothing is refused behind a write, that a save comes before a quit.     *)
(* Each is shown of the handlers as they begin, from the pieces that they  *)
(* are put together from, and is kept as statements are taken off.         *)
(* The two reads that compute are at the end: they change nothing, so what *)
(* is shown of them is what the search and the count come to.              *)
(***************************************************************************)
EXTENDS Handlers, SequenceTheorems, FiniteSetTheorems, WellFoundedInduction, TLAPS

Loop == {"loopStart", "loopEnd"}
OnField == {"write", "call", "see"}

Dos == OnField \cup {"begin", "refuse", "wait", "obtain", "has_envelopes", "copy", "copied",
                     "remove", "removed", "create", "name", "step", "until"}

\* A statement about a field writes, calls or reads one; saving and quitting are calls,
\* what is saved is what was asked for, and no call moves the loop.
Stmts ==
  {s \in [do : Dos, field : Fields \cup {"lane"}, value : Nat, tries : Nat] :
     /\ s.do \in OnField <=> s.field \in Fields
     /\ s.field \in {"saved", "quit"} => s.do = "call"
     /\ s.field = "saved" => s.value = Asked
     /\ s.field \in Loop => s.do # "call"}

\* The loop is written only right before a tick.
LoopWaits(h) ==
  \A i \in DOMAIN h : h[i].do = "write" /\ h[i].field \in Loop =>
    i < Len(h) /\ h[i + 1].do = "wait"

Begun(h) == \A i \in DOMAIN h : h[i].do # "begin"
Unrefused(h) == \A i \in DOMAIN h : h[i].do # "refuse"

\* A piece of a handler.
Piece(h) == h \in Seq(Stmts) /\ LoopWaits(h) /\ Begun(h)

\* No statement about the field of w = <<field, value>> is about another value.
Only(h, w) == \A i \in DOMAIN h : h[i].field = w[1] => h[i].value = w[2]
\* w is still to be done or seen, and nothing behind that is about another value.
Pending(h, w) ==
  \E i \in DOMAIN h :
    /\ h[i].do \in {"see", "call"} /\ h[i].field = w[1] /\ h[i].value = w[2]
    /\ \A j \in DOMAIN h : j > i /\ h[j].field = w[1] => h[j].value = w[2]

-------------------------------------------------------------------------------
(*************************** sequences *************************************)
LEMMA TailFacts ==
  ASSUME NEW S, NEW s \in Seq(S), s # <<>>
  PROVE  /\ Tail(s) \in Seq(S) /\ Len(Tail(s)) = Len(s) - 1
         /\ \A i \in 1..(Len(s) - 1) : Tail(s)[i] = s[i + 1]
         /\ Head(s) = s[1] /\ Head(s) \in S /\ Len(s) > 0
  OBVIOUS

LEMMA SeqDomain ==
  ASSUME NEW S, NEW s \in Seq(S)
  PROVE  DOMAIN s = 1..Len(s) /\ Len(s) \in Nat /\ \A i \in 1..Len(s) : s[i] \in S
  OBVIOUS

LEMMA ConcatFacts ==
  ASSUME NEW S, NEW s \in Seq(S), NEW t \in Seq(S)
  PROVE  /\ s \o t \in Seq(S) /\ Len(s \o t) = Len(s) + Len(t)
         /\ \A i \in 1..Len(s) : (s \o t)[i] = s[i]
         /\ \A i \in 1..Len(t) : (s \o t)[Len(s) + i] = t[i]
  OBVIOUS

LEMMA SmallConcats ==
  ASSUME NEW a, NEW b, NEW c
  PROVE  /\ <<a>> \o <<>> = <<a>> /\ <<a>> \o <<b>> = <<a, b>>
         /\ (<<a>> \o <<>>) \o <<>> = <<a>>
         /\ (<<a>> \o <<>>) \o <<b>> = <<a, b>>
         /\ (<<a>> \o <<b>>) \o <<c>> = <<a, b, c>>
<1> DEFINE S == {a, b, c}
<1>1. <<a>> \in Seq(S) /\ <<b>> \in Seq(S) /\ <<c>> \in Seq(S) /\ <<a, b>> \in Seq(S)
  OBVIOUS
<1>2. <<a>> \o <<>> = <<a>>
  BY <1>1
<1>3. <<a>> \o <<b>> = <<a, b>>
  <2> DEFINE u == <<a>> \o <<b>>  v == <<a, b>>
  <2>1. /\ u \in Seq(S) /\ Len(u) = 1 + 1
        /\ \A i \in 1..1 : u[i] = <<a>>[i]
        /\ \A i \in 1..1 : u[1 + i] = <<b>>[i]
    BY <1>1, ConcatFacts
  <2>2. v \in Seq(S) /\ Len(v) = 2 /\ v[1] = a /\ v[2] = b
    BY <1>1
  <2> HIDE DEF u, v
  <2>3. u[1] = a /\ u[2] = b /\ Len(u) = 2
    BY <2>1
  <2>4. \A i \in 1..Len(u) : u[i] = v[i]
    BY <2>2, <2>3
  <2>5. u = v
    BY <2>1, <2>2, <2>3, <2>4, SeqEqual
  <2> QED BY <2>5 DEF u, v
<1>4. <<a, b, c>> = <<a, b>> \o <<c>>
  OBVIOUS
<1> QED BY <1>2, <1>3, <1>4

LEMMA TailOfThree ==
  ASSUME NEW a, NEW b, NEW c
  PROVE  Tail(<<a, b, c>>) = <<b, c>>
<1> DEFINE S == {a, b, c}  u == Tail(<<a, b, c>>)  v == <<b, c>>
<1>1. <<a, b, c>> \in Seq(S) /\ Len(<<a, b, c>>) = 3 /\ <<a, b, c>> # <<>>
  OBVIOUS
<1>2. /\ u \in Seq(S) /\ Len(u) = 3 - 1
      /\ \A i \in 1..(3 - 1) : u[i] = <<a, b, c>>[i + 1]
  BY <1>1, TailFacts
<1>3. v \in Seq(S) /\ Len(v) = 2 /\ v[1] = b /\ v[2] = c
  OBVIOUS
<1> HIDE DEF u, v
<1>4. u[1] = b /\ u[2] = c /\ Len(u) = 2
  BY <1>2
<1>5. \A i \in 1..Len(u) : u[i] = v[i]
  BY <1>3, <1>4
<1>6. u = v
  BY <1>2, <1>3, <1>4, <1>5, SeqEqual
<1> QED BY <1>6 DEF u, v

LEMMA LanesAreStmts ==
  \A do \in Dos : do \notin OnField => Lane(do) \in Stmts
  BY DEF Lane, Stmt, Stmts, OnField, Fields, Loop

LEMMA FieldStmts ==
  ASSUME NEW f \in Fields, NEW v \in Nat, NEW n \in Nat, NEW do \in OnField,
         f \in {"saved", "quit"} => do = "call", f = "saved" => v = Asked,
         f \in Loop => do # "call"
  PROVE  Stmt(do, f, v, n) \in Stmts
<1> DEFINE x == Stmt(do, f, v, n)
<1>1. x.do = do /\ x.field = f /\ x.value = v /\ x.tries = n
  BY DEF Stmt
<1>2. x \in [do : Dos, field : Fields \cup {"lane"}, value : Nat, tries : Nat]
  BY DEF Stmt, Dos
<1> HIDE DEF x
<1>3. x \in Stmts
  BY <1>1, <1>2 DEF Stmts
<1> QED BY <1>3 DEF x

LEMMA WaitIs == Wait \in Stmts /\ Wait.do = "wait" /\ Wait.field = "lane"
  BY LanesAreStmts DEF Wait, Lane, Stmt, OnField, Dos

LEMMA EmptyPiece == Piece(<<>>) /\ Unrefused(<<>>)
  BY DEF Piece, LoopWaits, Begun, Unrefused

\* A property that is written, waited for and seen.
LEMMA VerifiedIs ==
  ASSUME NEW f \in Fields \ {"saved", "quit"}, NEW v \in Nat, NEW n \in Nat \ {0}
  PROVE  /\ Piece(Verified(f, v, n)) /\ Unrefused(Verified(f, v, n)) /\ Len(Verified(f, v, n)) = 3
         /\ Verified(f, v, n)[1] = Write(f, v) /\ Verified(f, v, n)[2] = Wait
         /\ Verified(f, v, n)[3] = See(f, v, n - 1)
<1>1. Write(f, v) \in Stmts /\ See(f, v, n - 1) \in Stmts
  <2>1. "write" \in OnField /\ "see" \in OnField /\ "write" # "call" /\ "see" # "call"
    BY DEF OnField
  <2>2. n - 1 \in Nat /\ 0 \in Nat
    OBVIOUS
  <2>3. Stmt("write", f, v, 0) \in Stmts
    BY <2>1, <2>2, FieldStmts
  <2>4. Stmt("see", f, v, n - 1) \in Stmts
    BY <2>1, <2>2, FieldStmts
  <2> QED BY <2>3, <2>4 DEF Write, See
<1>2. Write(f, v).do = "write" /\ See(f, v, n - 1).do = "see"
  BY DEF Write, See, Stmt
<1> DEFINE w == Write(f, v)  s == See(f, v, n - 1)
<1>3. Verified(f, v, n) = <<w, Wait, s>>
  BY DEF Verified
<1> HIDE DEF w, s
<1>4. w \in Stmts /\ s \in Stmts /\ w.do = "write" /\ s.do = "see"
  BY <1>1, <1>2 DEF w, s
<1>5. Piece(<<w, Wait, s>>) /\ Unrefused(<<w, Wait, s>>)
  BY <1>4, WaitIs DEF Piece, LoopWaits, Begun, Unrefused
<1> QED BY <1>3, <1>5 DEF w, s

LEMMA VerifiedPending ==
  ASSUME NEW f \in Fields \ {"saved", "quit"}, NEW v \in Nat, NEW n \in Nat \ {0}
  PROVE  /\ Pending(Verified(f, v, n), <<f, v>>) /\ Only(Verified(f, v, n), <<f, v>>)
         /\ \A w : w[1] # f /\ w[1] # "lane" => Only(Verified(f, v, n), w)
<1> DEFINE h == Verified(f, v, n)
<1>1. Len(h) = 3 /\ h[1] = Write(f, v) /\ h[2] = Wait /\ h[3] = See(f, v, n - 1) /\ h \in Seq(Stmts)
  BY VerifiedIs DEF Piece
<1> HIDE DEF h
<1>2. DOMAIN h = 1..3
  BY <1>1
<1>3. h[1].field = f /\ h[1].value = v /\ h[3].field = f /\ h[3].value = v /\ h[3].do = "see"
  BY <1>1 DEF Write, See, Stmt
<1>4. h[2].field = "lane" /\ f # "lane"
  BY <1>1, WaitIs DEF Fields
<1>5. Pending(h, <<f, v>>)
  BY <1>2, <1>3, <1>4 DEF Pending
<1>6. Only(h, <<f, v>>)
  BY <1>2, <1>3, <1>4 DEF Only
<1>7. \A w : w[1] # f /\ w[1] # "lane" => Only(h, w)
  BY <1>2, <1>3, <1>4 DEF Only
<1> QED BY <1>5, <1>6, <1>7 DEF h

\* Where the elements of a concatenation come from.
LEMMA ConcatFrom ==
  ASSUME NEW S, NEW s \in Seq(S), NEW t \in Seq(S), NEW i \in DOMAIN (s \o t)
  PROVE  \/ i \in DOMAIN s /\ (s \o t)[i] = s[i]
         \/ i \in Int /\ i > Len(s) /\ i - Len(s) \in DOMAIN t /\ (s \o t)[i] = t[i - Len(s)]
<1> DEFINE h == s \o t
<1>1. /\ h \in Seq(S) /\ Len(h) = Len(s) + Len(t) /\ Len(s) \in Nat /\ Len(t) \in Nat
      /\ \A k \in 1..Len(s) : h[k] = s[k]
      /\ \A k \in 1..Len(t) : h[Len(s) + k] = t[k]
  BY ConcatFacts
<1>2. i \in DOMAIN h
  OBVIOUS
<1> HIDE DEF h
<1>3. DOMAIN h = 1..Len(h) /\ DOMAIN s = 1..Len(s) /\ DOMAIN t = 1..Len(t)
  BY <1>1
<1>4. CASE i <= Len(s)
  <2>1. i \in DOMAIN s /\ h[i] = s[i]
    BY <1>1, <1>2, <1>3, <1>4
  <2> QED BY <2>1 DEF h
<1>5. CASE ~(i <= Len(s))
  <2>1. i - Len(s) \in 1..Len(t) /\ Len(s) + (i - Len(s)) = i /\ i > Len(s)
    BY <1>1, <1>2, <1>3, <1>5
  <2>2. h[i] = t[i - Len(s)]
    BY <1>1, <2>1
  <2>3. i \in Int /\ i > Len(s) /\ i - Len(s) \in DOMAIN t /\ h[i] = t[i - Len(s)]
    BY <1>1, <1>2, <1>3, <2>1, <2>2
  <2> QED BY <2>3 DEF h
<1> QED BY <1>4, <1>5

LEMMA PieceConcat ==
  ASSUME NEW s, NEW t, Piece(s), Piece(t)
  PROVE  Piece(s \o t) /\ (Unrefused(s) /\ Unrefused(t) => Unrefused(s \o t))
<1> DEFINE h == s \o t
<1>1. /\ h \in Seq(Stmts) /\ Len(h) = Len(s) + Len(t) /\ Len(s) \in Nat /\ Len(t) \in Nat
      /\ \A i \in 1..Len(s) : h[i] = s[i]
      /\ \A i \in 1..Len(t) : h[Len(s) + i] = t[i]
  BY ConcatFacts DEF Piece
<1>2. \A i \in DOMAIN h : \/ i \in DOMAIN s /\ h[i] = s[i]
                          \/ i - Len(s) \in DOMAIN t /\ h[i] = t[i - Len(s)]
  <2> SUFFICES ASSUME NEW i \in DOMAIN h
               PROVE  \/ i \in DOMAIN s /\ h[i] = s[i]
                      \/ i - Len(s) \in DOMAIN t /\ h[i] = t[i - Len(s)]
    OBVIOUS
  <2>1. s \in Seq(Stmts) /\ t \in Seq(Stmts)
    BY DEF Piece
  <2>2. \/ i \in DOMAIN s /\ h[i] = s[i]
        \/ i \in Int /\ i > Len(s) /\ i - Len(s) \in DOMAIN t /\ h[i] = t[i - Len(s)]
    BY <2>1, ConcatFrom, Zenon
  <2> QED BY <2>2
<1> HIDE DEF h
<1>3. Begun(h) /\ (Unrefused(s) /\ Unrefused(t) => Unrefused(h))
  BY <1>2 DEF Begun, Unrefused, Piece
<1>4. LoopWaits(h)
  <2> SUFFICES ASSUME NEW i \in DOMAIN h, h[i].do = "write", h[i].field \in Loop
               PROVE  i < Len(h) /\ h[i + 1].do = "wait"
    BY DEF LoopWaits
  <2>1. CASE i \in DOMAIN s /\ h[i] = s[i]
    <3>1. i < Len(s) /\ s[i + 1].do = "wait" /\ i \in 1..Len(s)
      BY <2>1 DEF Piece, LoopWaits
    <3>2. i + 1 \in 1..Len(s)
      BY <1>1, <3>1
    <3> QED BY <1>1, <3>1, <3>2
  <2>2. CASE i - Len(s) \in DOMAIN t /\ h[i] = t[i - Len(s)]
    <3> DEFINE k == i - Len(s)
    <3>1. k \in 1..Len(t) /\ k < Len(t) /\ t[k + 1].do = "wait"
      BY <2>2 DEF Piece, LoopWaits
    <3>2. k + 1 \in 1..Len(t)
      BY <1>1, <3>1
    <3>3. h[Len(s) + (k + 1)] = t[k + 1]
      BY <1>1, <3>2
    <3>4. i = Len(s) + k /\ Len(s) + (k + 1) = i + 1 /\ i \in Int
      BY <1>1, <3>1
    <3> QED BY <1>1, <3>1, <3>3, <3>4
  <2> QED BY <1>2, <2>1, <2>2
<1> QED BY <1>1, <1>3, <1>4 DEF Piece, h

LEMMA OnlyConcat ==
  ASSUME NEW s \in Seq(Stmts), NEW t \in Seq(Stmts), NEW w, Only(s, w), Only(t, w)
  PROVE  Only(s \o t, w)
<1> SUFFICES ASSUME NEW i \in DOMAIN (s \o t), (s \o t)[i].field = w[1]
             PROVE  (s \o t)[i].value = w[2]
  BY DEF Only
<1>1. \/ i \in DOMAIN s /\ (s \o t)[i] = s[i]
      \/ i - Len(s) \in DOMAIN t /\ (s \o t)[i] = t[i - Len(s)]
  BY ConcatFrom
<1> QED BY <1>1 DEF Only

LEMMA PendingLeft ==
  ASSUME NEW s \in Seq(Stmts), NEW t \in Seq(Stmts), NEW w, Pending(s, w), Only(t, w)
  PROVE  Pending(s \o t, w)
<1> DEFINE h == s \o t
<1>1. PICK i \in DOMAIN s :
        /\ s[i].do \in {"see", "call"} /\ s[i].field = w[1] /\ s[i].value = w[2]
        /\ \A j \in DOMAIN s : j > i /\ s[j].field = w[1] => s[j].value = w[2]
  BY DEF Pending
<1>2. i \in DOMAIN h /\ h[i] = s[i]
  BY ConcatFacts
<1>3. \A j \in DOMAIN h : j > i /\ h[j].field = w[1] => h[j].value = w[2]
  BY <1>1, ConcatFrom DEF Only
<1> HIDE DEF h
<1>4. Pending(h, w)
  BY <1>1, <1>2, <1>3 DEF Pending
<1> QED BY <1>4 DEF h

LEMMA PendingRight ==
  ASSUME NEW s \in Seq(Stmts), NEW t \in Seq(Stmts), NEW w, Pending(t, w)
  PROVE  Pending(s \o t, w)
<1> DEFINE h == s \o t
<1>1. PICK i \in DOMAIN t :
        /\ t[i].do \in {"see", "call"} /\ t[i].field = w[1] /\ t[i].value = w[2]
        /\ \A j \in DOMAIN t : j > i /\ t[j].field = w[1] => t[j].value = w[2]
  BY DEF Pending
<1>2. i \in 1..Len(t) /\ Len(s) \in Nat /\ Len(t) \in Nat
  OBVIOUS
<1>3. Len(s) + i \in DOMAIN h /\ h[Len(s) + i] = t[i]
  BY <1>2, ConcatFacts
<1>4. \A j \in DOMAIN h : j > Len(s) + i /\ h[j].field = w[1] => h[j].value = w[2]
  <2> SUFFICES ASSUME NEW j \in DOMAIN h, j > Len(s) + i, h[j].field = w[1]
               PROVE  h[j].value = w[2]
    OBVIOUS
  <2>1. \/ j \in DOMAIN s /\ h[j] = s[j]
        \/ j \in Int /\ j > Len(s) /\ j - Len(s) \in DOMAIN t /\ h[j] = t[j - Len(s)]
    BY ConcatFrom
  <2>2. ~(j \in DOMAIN s)
    BY <1>2
  <2>3. j - Len(s) > i
    BY <1>2, <2>1, <2>2
  <2> QED BY <1>1, <2>1, <2>2, <2>3
<1> HIDE DEF h
<1>5. Pending(h, w)
  BY <1>1, <1>3, <1>4 DEF Pending
<1> QED BY <1>5 DEF h

-------------------------------------------------------------------------------
(*************************** the handlers **********************************)
LEMMA OnePiece ==
  ASSUME NEW x \in Stmts, x.do \notin {"begin", "refuse"}, ~(x.do = "write" /\ x.field \in Loop)
  PROVE  Piece(<<x>>) /\ Unrefused(<<x>>)
  BY DEF Piece, LoopWaits, Begun, Unrefused

LEMMA OpsOf ==
  ASSUME NEW c \in Commands
  PROVE  c.op \in Plain \cup EnvelopeOps \cup Creating \cup
           {"set_clip_properties", "set_arrangement_clip", "save_set", "quit_ableton",
            "set_parameter_value", "fire_clip", "fire_scene", "set_tempo", "set_plugin_preset",
            "add_notes_pattern", "search_browser", "diagnose_midi_clip", "live_fade"}
  BY DEF Commands, Addressed, EnvelopeOps

LEMMA HandlerOf ==
  ASSUME NEW c
  PROVE  /\ c.op = "set_track_property" => Handler(c) = Verified("mute", Asked, Retries)
         /\ c.op \in {"set_track_color", "set_clip_color"} => Handler(c) = Verified("color", Asked, 1)
         /\ c.op = "set_plugin_preset" => Handler(c) = Verified("preset", Preset(c), 2)
         /\ c.op = "set_parameter_value" => Handler(c) = Verified("param", Asked, 2)
         /\ c.op = "rename_track" => Handler(c) = <<Write("trackName", Asked)>>
         /\ c.op = "clear_clip_notes" => Handler(c) = <<Call("notes", Asked), Wait>>
         /\ c.op = "set_clip_properties" => Handler(c) = ClipProperties(c)
         /\ c.op = "set_arrangement_clip" => Handler(c) = PlacedProperties(c)
         /\ c.op \in EnvelopeOps => Handler(c) = Automation(PointsOf(c))
         /\ c.op = "live_fade" =>
              Handler(c) = IF c.seconds = 0 THEN <<Write("volume", Asked), Wait>> ELSE Fade
         /\ c.op = "add_notes_pattern" => Handler(c) = <<Call("notes", Asked)>>
         /\ c.op = "fire_clip" => Handler(c) = FireClip(c)
         /\ c.op = "fire_scene" => Handler(c) = FireScene(c)
         /\ c.op = "set_tempo" => Handler(c) = SetTempo(c)
         /\ c.op \in {"start_playback", "stop_playback", "set_loop", "set_loop_start", "set_loop_length"} =>
              Handler(c) = Verified(Transport[c.op], Asked, Retries)
         /\ c.op = "duplicate" => Handler(c) = <<Lane("copy"), Lane("copied")>>
         /\ c.op = "delete" => Handler(c) = <<Lane("remove"), Lane("removed")>>
         /\ c.op = "move" =>
              Handler(c) = <<Lane("copy"), Lane("copied"), Lane("remove"), Lane("removed")>>
         /\ c.op = "hierarchy" => Handler(c) = <<Lane("refuse")>>
         /\ c.op \in {"search_browser", "diagnose_midi_clip"} => Handler(c) = <<>>
         /\ c.op \in Creating => Handler(c) = <<Lane("create"), Lane("name")>>
         /\ c.op = "save_set" => Handler(c) = SaveSet(c)
         /\ c.op = "quit_ableton" => Handler(c) = Quit(c)
  BY DEF Handler, EnvelopeOps, Creating, Transport

LEMMA LanePiece ==
  ASSUME NEW do \in Dos, do \notin OnField, do \notin {"begin", "refuse"}
  PROVE  Piece(<<Lane(do)>>) /\ Unrefused(<<Lane(do)>>)
<1>1. Lane(do) \in Stmts /\ Lane(do).do = do
  BY LanesAreStmts DEF Lane, Stmt
<1> QED BY <1>1, OnePiece DEF OnField

LEMMA CallPiece ==
  ASSUME NEW f \in Fields \ Loop, NEW v \in Nat, f = "saved" => v = Asked
  PROVE  Piece(<<Call(f, v)>>) /\ Unrefused(<<Call(f, v)>>) /\ Call(f, v) \in Stmts
<1>1. Stmt("call", f, v, 0) \in Stmts
  BY FieldStmts DEF OnField
<1>2. Call(f, v) \in Stmts /\ Call(f, v).do = "call"
  BY <1>1 DEF Call, Stmt
<1> QED BY <1>2, OnePiece

LEMMA WritePiece ==
  ASSUME NEW f \in Fields \ (Loop \cup {"saved", "quit"}), NEW v \in Nat
  PROVE  Piece(<<Write(f, v)>>) /\ Unrefused(<<Write(f, v)>>) /\ Write(f, v) \in Stmts
<1>1. Stmt("write", f, v, 0) \in Stmts
  BY FieldStmts DEF OnField
<1>2. Write(f, v) \in Stmts /\ Write(f, v).do = "write" /\ Write(f, v).field = f
  BY <1>1 DEF Write, Stmt
<1> QED BY <1>2, OnePiece

LEMMA SeePiece ==
  ASSUME NEW f \in Fields \ {"saved", "quit"}, NEW v \in Nat
  PROVE  Piece(<<See(f, v, 0)>>) /\ Unrefused(<<See(f, v, 0)>>) /\ See(f, v, 0) \in Stmts
<1>1. Stmt("see", f, v, 0) \in Stmts
  BY FieldStmts DEF OnField
<1>2. See(f, v, 0) \in Stmts /\ See(f, v, 0).do = "see"
  BY <1>1 DEF See, Stmt
<1> QED BY <1>2, OnePiece

LEMMA TwoLanes ==
  ASSUME NEW d \in Dos, d \notin OnField, d \notin {"begin", "refuse"},
         NEW e \in Dos, e \notin OnField, e \notin {"begin", "refuse"}
  PROVE  Piece(<<Lane(d), Lane(e)>>) /\ Unrefused(<<Lane(d), Lane(e)>>)
<1>1. <<Lane(d), Lane(e)>> = <<Lane(d)>> \o <<Lane(e)>>
  OBVIOUS
<1> QED BY <1>1, LanePiece, PieceConcat

\* What the code assumes of the counters.
LEMMA Bounds ==
  /\ Retries \in Nat \ {0} /\ Points \in Nat \ {0} /\ FadeSteps \in Nat \ {0}
  /\ Interval \in Nat \ {0} /\ TickTime \in Nat \ {0}
  BY HandlersAssumption

LEMMA PresetIsNat ==
  ASSUME NEW c \in Commands, c.op = "set_plugin_preset", Cardinality(PresetsMeant(c)) = 1
  PROVE  Preset(c) \in Nat /\ PresetsMeant(c) = {Preset(c)}
<1>2. DOMAIN Presets = 1..Len(Presets) /\ Len(Presets) \in Nat
  <2>1. Presets \in Seq(STRING \ {""})
    BY HandlersAssumption
  <2> QED BY <2>1, SeqDomain, Zenon
<1>3. PresetsMeant(c) \subseteq 1..Len(Presets)
  BY <1>2 DEF PresetsMeant, Positions
<1>4. IsFiniteSet(1..Len(Presets))
  BY <1>2, FS_Interval
<1>5. IsFiniteSet(PresetsMeant(c))
  BY <1>3, <1>4, FS_Subset
<1>6. PICK x : PresetsMeant(c) = {x}
  BY <1>5, FS_Singleton
<1>7. Preset(c) = x
  BY <1>6 DEF Preset
<1> QED BY <1>2, <1>3, <1>6, <1>7

LEMMA ClipTypes ==
  ASSUME NEW c \in Commands, c.op = "set_clip_properties"
  PROVE  c.start \in Beats \cup {-1} /\ c.end \in Beats \cup {-1} /\ c.name \in BOOLEAN
<1>1. c \in [op : {"set_clip_properties"}, start : Beats \cup {-1}, end : Beats \cup {-1}, name : BOOLEAN]
  BY DEF Commands, Plain, EnvelopeOps, Addressed, Creating, Transport
<1> QED BY <1>1

\* The three parts of set_clip_properties.
StartOf(c) == IF c.start = -1 THEN <<>> ELSE Verified("loopStart", c.start, Retries)
EndOf(c)   == IF c.end = -1 THEN <<>> ELSE Verified("loopEnd", c.end, Retries)
NameOf(c)  == IF c.name THEN Verified("clipName", Asked, Retries) ELSE <<>>

LEMMA ClipParts ==
  ASSUME NEW c \in Commands, c.op = "set_clip_properties"
  PROVE  /\ Piece(StartOf(c)) /\ Unrefused(StartOf(c))
         /\ Piece(EndOf(c)) /\ Unrefused(EndOf(c))
         /\ Piece(NameOf(c)) /\ Unrefused(NameOf(c))
         /\ \/ ClipProperties(c) = (EndOf(c) \o StartOf(c)) \o NameOf(c)
            \/ ClipProperties(c) = (StartOf(c) \o EndOf(c)) \o NameOf(c)
<1>1. c.start # -1 => c.start \in Nat
  BY ClipTypes DEF Beats
<1>2. c.end # -1 => c.end \in Nat
  BY ClipTypes DEF Beats
<1>3. {"loopStart", "loopEnd", "clipName"} \subseteq Fields \ {"saved", "quit"}
  BY DEF Fields
<1>4. Piece(StartOf(c)) /\ Unrefused(StartOf(c))
  BY <1>1, <1>3, EmptyPiece, VerifiedIs, Bounds DEF StartOf
<1>5. Piece(EndOf(c)) /\ Unrefused(EndOf(c))
  BY <1>2, <1>3, EmptyPiece, VerifiedIs, Bounds DEF EndOf
<1>6. Piece(NameOf(c)) /\ Unrefused(NameOf(c))
  BY <1>3, EmptyPiece, VerifiedIs, Bounds DEF NameOf, Asked
<1>7. \/ ClipProperties(c) = (EndOf(c) \o StartOf(c)) \o NameOf(c)
      \/ ClipProperties(c) = (StartOf(c) \o EndOf(c)) \o NameOf(c)
  BY Zenon DEF ClipProperties, StartOf, EndOf, NameOf
<1> QED BY <1>4, <1>5, <1>6, <1>7

LEMMA ClipPiece ==
  ASSUME NEW c \in Commands, c.op = "set_clip_properties"
  PROVE  Piece(ClipProperties(c)) /\ Unrefused(ClipProperties(c))
  BY ClipParts, PieceConcat

LEMMA AutomationPiece ==
  ASSUME NEW n \in Nat
  PROVE  /\ Piece(Automation(n)) /\ Unrefused(Automation(n))
         /\ Piece([i \in 1..n |-> Call("envelope", Cleared + i)])
         /\ Piece(<<Call("envelope", Cleared), Lane("obtain")>>)
         /\ Piece(<<Wait, Lane("has_envelopes")>>)
<1> DEFINE h == [i \in 1..n |-> Call("envelope", Cleared + i)]
<1>1. "envelope" \in Fields \ Loop /\ "envelope" # "saved" /\ Cleared \in Nat
  BY DEF Fields, Loop, Cleared
<1>2. \A i \in 1..n : Call("envelope", Cleared + i) \in Stmts /\ Call("envelope", Cleared + i).do = "call"
  <2> SUFFICES ASSUME NEW i \in 1..n
               PROVE  Call("envelope", Cleared + i) \in Stmts /\ Call("envelope", Cleared + i).do = "call"
    OBVIOUS
  <2>1. Cleared + i \in Nat
    BY <1>1
  <2>2. Call("envelope", Cleared + i) \in Stmts
    BY <1>1, <2>1, CallPiece
  <2> QED BY <2>2 DEF Call, Stmt
<1>3. h \in Seq(Stmts) /\ DOMAIN h = 1..n /\ \A i \in 1..n : h[i].do = "call"
  BY <1>2
<1> HIDE DEF h
<1>4. Piece(h) /\ Unrefused(h)
  BY <1>3 DEF Piece, LoopWaits, Begun, Unrefused
<1>5. Piece(<<Call("envelope", Cleared)>>) /\ Unrefused(<<Call("envelope", Cleared)>>)
  BY <1>1, CallPiece
<1>6. Piece(<<Lane("obtain")>>) /\ Unrefused(<<Lane("obtain")>>)
  BY LanePiece DEF Dos, OnField
<1>7. Piece(<<Wait, Lane("has_envelopes")>>) /\ Unrefused(<<Wait, Lane("has_envelopes")>>)
  BY TwoLanes DEF Dos, OnField, Wait
<1>8. <<Call("envelope", Cleared), Lane("obtain")>> = <<Call("envelope", Cleared)>> \o <<Lane("obtain")>>
  OBVIOUS
<1>9. /\ Piece(<<Call("envelope", Cleared), Lane("obtain")>>)
      /\ Unrefused(<<Call("envelope", Cleared), Lane("obtain")>>)
  BY <1>5, <1>6, <1>8, PieceConcat
<1>10. Automation(n) = (<<Call("envelope", Cleared), Lane("obtain")>> \o h) \o <<Wait, Lane("has_envelopes")>>
  BY DEF Automation, h
<1>11. Piece(Automation(n)) /\ Unrefused(Automation(n))
  BY <1>4, <1>7, <1>9, <1>10, PieceConcat
<1> QED BY <1>4, <1>7, <1>9, <1>11 DEF h

LEMMA ExpandedFinite ==
  ASSUME NEW times \in Seq(Nat), NEW hold
  PROVE  IsFiniteSet(Expanded(times, hold))
<1> DEFINE Span(i) == times[i + 1] - times[i]
           Many(i) == IF hold /\ Span(i) > 0 THEN 1 ELSE Span(i)
           Steps(i) == {<<i, k>> : k \in 1..Many(i)}
           N == Len(times) - 1
           all == {Steps(i) : i \in 1..N}
           union == UNION all
           end == <<Len(times), 1>>
<1>1. \A i \in 1..N : Many(i) \in Int
  OBVIOUS
<1>2. N \in Int
  OBVIOUS
<1>3. Expanded(times, hold) = {end} \cup union
  BY DEF Expanded
<1> HIDE DEF Span, N, end
<1>4. ASSUME NEW i \in 1..N
      PROVE  IsFiniteSet(Steps(i))
  <2> HIDE DEF Many
  <2>1. IsFiniteSet(1..Many(i))
    BY <1>1, FS_Interval
  <2> DEFINE f == [k \in 1..Many(i) |-> <<i, k>>]
  <2>2. f \in Surjection(1..Many(i), Steps(i))
    BY DEF Surjection
  <2> QED BY <2>1, <2>2, FS_Surjection
<1> HIDE DEF Many, Steps
<1>5. IsFiniteSet(1..N)
  BY <1>2, FS_Interval
<1> DEFINE g == [i \in 1..N |-> Steps(i)]
<1>6. g \in Surjection(1..N, all)
  BY DEF Surjection
<1>7. IsFiniteSet(all)
  BY <1>5, <1>6, FS_Surjection
<1>8. \A T \in all : IsFiniteSet(T)
  BY <1>4
<1> HIDE DEF g, all
<1>9. IsFiniteSet(union)
  BY <1>7, <1>8, FS_UNION
<1> HIDE DEF union
<1>10. IsFiniteSet(union \cup {end}) /\ union \cup {end} = {end} \cup union
  BY <1>9, FS_AddElement
<1> QED BY <1>3, <1>10

LEMMA PointsAreNat ==
  ASSUME NEW c \in Commands, c.op \in EnvelopeOps
  PROVE  PointsOf(c) \in Nat
<1>1. CASE c.op = "create_clip_automation"
  BY <1>1, Bounds DEF PointsOf
<1>2. CASE c.op = "create_clip_automation_curve"
  <2>1. c \in [op : {"create_clip_automation_curve"}, name : {"own"}, dev : {None}, chain : {None},
               inner : {None}, inRange : BOOLEAN, times : Curves, hold : BOOLEAN]
    BY <1>2 DEF Commands, Plain, EnvelopeOps, Addressed, Creating, Transport
  <2>2. c.times \in Seq(Nat)
    BY <2>1, HandlersAssumption
  <2>3. IsFiniteSet(Expanded(c.times, c.hold))
    BY <2>2, ExpandedFinite
  <2> QED BY <1>2, <2>3, FS_CardinalityType DEF PointsOf
<1> QED BY <1>1, <1>2 DEF EnvelopeOps

LEMMA FadePiece == Piece(Fade) /\ Unrefused(Fade) /\ DOMAIN Fade = 1..(3 * FadeSteps)
<1>1. FadeSteps \in Nat
  BY Bounds
<1>2. \A k \in Nat : FadeValue(k) \in Nat
  BY DEF FadeValue, Asked, Cleared
<1>3. Lane("step") \in Stmts /\ Lane("step").do = "step"
  BY LanesAreStmts DEF Lane, Stmt, Dos, OnField
<1>4. Lane("until") \in Stmts /\ Lane("until").do = "until"
  BY LanesAreStmts DEF Lane, Stmt, Dos, OnField
<1>5. \A k \in Nat : /\ Write("volume", FadeValue(k)) \in Stmts
                     /\ Write("volume", FadeValue(k)).do = "write"
                     /\ Write("volume", FadeValue(k)).field = "volume"
  <2> TAKE k \in Nat
  <2>1. FadeValue(k) \in Nat /\ "volume" \in Fields \ (Loop \cup {"saved", "quit"})
    BY <1>2 DEF Fields, Loop
  <2>2. Write("volume", FadeValue(k)) \in Stmts
    BY <2>1, WritePiece
  <2> QED BY <2>2 DEF Write, Stmt
<1>6. ASSUME NEW i \in 1..(3 * FadeSteps)
      PROVE  /\ Fade[i] \in Stmts /\ Fade[i].do \in {"step", "until", "write"}
             /\ Fade[i].do = "write" => Fade[i].field = "volume"
  <2>1. i \div 3 \in Nat /\ i \in Nat
    BY <1>1
  <2>2. CASE i % 3 = 1
    <3>1. Fade[i] = Lane("step")
      BY <2>2 DEF Fade
    <3> QED BY <1>3, <3>1
  <2>3. CASE i % 3 = 2
    <3>1. Fade[i] = Lane("until")
      BY <2>3 DEF Fade
    <3> QED BY <1>4, <3>1
  <2>4. CASE i % 3 \notin {1, 2}
    <3>1. Fade[i] = Write("volume", FadeValue(i \div 3))
      BY <2>4 DEF Fade
    <3> QED BY <1>5, <2>1, <3>1
  <2> QED BY <2>2, <2>3, <2>4
<1>7. DOMAIN Fade = 1..(3 * FadeSteps) /\ 3 * FadeSteps \in Nat
  BY <1>1 DEF Fade
<1>8. Fade = [i \in 1..(3 * FadeSteps) |-> Fade[i]]
  BY DEF Fade
<1>9. Fade \in Seq(Stmts)
  BY <1>6, <1>7, <1>8
<1>10. "volume" \notin Loop
  BY DEF Loop
<1> QED BY <1>6, <1>7, <1>9, <1>10 DEF Piece, LoopWaits, Begun, Unrefused

LEMMA QuitPiece ==
  ASSUME NEW c
  PROVE  Piece(Quit(c)) /\ Unrefused(Quit(c))
<1> DEFINE saves == IF c.save /\ c.api THEN <<Call("saved", Asked)>> ELSE <<>>
           quits == IF c.save /\ ~c.api /\ ~c.force THEN <<>> ELSE <<Call("quit", Asked)>>
<1>1. Asked \in Nat /\ "saved" \in Fields \ Loop /\ "quit" \in Fields \ Loop
  BY DEF Asked, Fields, Loop
<1>2. Piece(saves) /\ Unrefused(saves)
  BY <1>1, CallPiece, EmptyPiece
<1>3. Piece(quits) /\ Unrefused(quits)
  BY <1>1, CallPiece, EmptyPiece
<1>4. Piece(<<Wait>>) /\ Unrefused(<<Wait>>)
  BY LanePiece DEF Wait, Dos, OnField
<1> HIDE DEF saves, quits
<1>5. (Piece(<<Wait>> \o saves) /\ Unrefused(<<Wait>> \o saves))
  BY <1>2, <1>4, PieceConcat
<1>6. Piece((<<Wait>> \o saves) \o quits) /\ Unrefused((<<Wait>> \o saves) \o quits)
  BY <1>3, <1>5, PieceConcat
<1>7. Quit(c) = (<<Wait>> \o saves) \o quits
  BY DEF Quit, saves, quits
<1> QED BY <1>6, <1>7

\* The parts of set_arrangement_clip_properties.
PlacedWrites(c) == (IF c.name THEN <<Write("placedName", Asked)>> ELSE <<>>)
PlacedRefusal(c) == (IF c.muted = "other" THEN <<Lane("refuse")>> ELSE <<>>)
PlacedMutes(c) == (IF c.muted = "boolean" THEN <<Write("placedMuted", Asked)>> ELSE <<>>)
PlacedSees(c) == (IF c.name THEN <<See("placedName", Asked, 0)>> ELSE <<>>)
PlacedSeesMuted(c) == (IF c.muted = "boolean" THEN <<See("placedMuted", Asked, 0)>> ELSE <<>>)

LEMMA PlacedParts ==
  ASSUME NEW c
  PROVE  /\ Piece(PlacedWrites(c)) /\ Piece(PlacedRefusal(c)) /\ Piece(PlacedMutes(c))
         /\ Piece(PlacedSees(c)) /\ Piece(PlacedSeesMuted(c)) /\ Piece(<<Wait>>)
         /\ PlacedProperties(c) = (((PlacedWrites(c) \o PlacedRefusal(c)) \o PlacedMutes(c)) \o <<Wait>>)
                                    \o (PlacedSees(c) \o PlacedSeesMuted(c))
         /\ Piece(PlacedProperties(c))
<1>1. Asked \in Nat /\ {"placedName", "placedMuted"} \subseteq Fields \ (Loop \cup {"saved", "quit"})
  BY DEF Asked, Fields, Loop
<1>2. Piece(PlacedWrites(c)) /\ Piece(PlacedMutes(c))
  BY <1>1, WritePiece, EmptyPiece DEF PlacedWrites, PlacedMutes
<1>3. Piece(PlacedSees(c)) /\ Piece(PlacedSeesMuted(c))
  BY <1>1, SeePiece, EmptyPiece DEF PlacedSees, PlacedSeesMuted
<1>4. Lane("refuse") \in Stmts /\ Lane("refuse").do = "refuse"
  BY LanesAreStmts DEF Lane, Stmt, Dos, OnField
<1>5. Piece(<<Lane("refuse")>>)
  BY <1>4 DEF Piece, LoopWaits, Begun
<1>6. Piece(PlacedRefusal(c))
  BY <1>5, EmptyPiece DEF PlacedRefusal
<1>7. Piece(<<Wait>>)
  BY LanePiece DEF Wait, Dos, OnField
<1>8. PlacedProperties(c) = (((PlacedWrites(c) \o PlacedRefusal(c)) \o PlacedMutes(c)) \o <<Wait>>)
                              \o (PlacedSees(c) \o PlacedSeesMuted(c))
  BY Zenon DEF PlacedProperties, PlacedWrites, PlacedRefusal, PlacedMutes, PlacedSees, PlacedSeesMuted
<1>9. Piece(PlacedProperties(c))
  <2>1. Piece(PlacedWrites(c) \o PlacedRefusal(c))
    BY <1>2, <1>6, PieceConcat
  <2>2. Piece((PlacedWrites(c) \o PlacedRefusal(c)) \o PlacedMutes(c))
    BY <1>2, <2>1, PieceConcat
  <2>3. Piece(((PlacedWrites(c) \o PlacedRefusal(c)) \o PlacedMutes(c)) \o <<Wait>>)
    BY <1>7, <2>2, PieceConcat
  <2>4. Piece(PlacedSees(c) \o PlacedSeesMuted(c))
    BY <1>3, PieceConcat
  <2> QED BY <1>8, <2>3, <2>4, PieceConcat
<1> QED BY <1>2, <1>3, <1>6, <1>7, <1>8, <1>9

\* Every handler is put together from pieces, and refuses at most as its first statement,
\* but for the one of set_arrangement_clip_properties.
LEMMA HandlerPiece ==
  ASSUME NEW c \in Commands,
         c.op = "set_plugin_preset" => Cardinality(PresetsMeant(c)) = 1
  PROVE  /\ Piece(Handler(c))
         /\ \/ Unrefused(Handler(c)) \/ Len(Handler(c)) = 1
            \/ c.op = "set_arrangement_clip"
<1> DEFINE Ok(h) == Piece(h) /\ Unrefused(h)
<1>1. Asked \in Nat /\ {"mute", "color", "preset", "param"} \subseteq Fields \ {"saved", "quit"}
  BY DEF Asked, Fields
<1>2. CASE c.op = "set_track_property"
  BY <1>1, <1>2, HandlerOf, VerifiedIs, Bounds
<1>3. CASE c.op \in {"set_track_color", "set_clip_color"}
  BY <1>1, <1>3, HandlerOf, VerifiedIs
<1>4. CASE c.op = "set_plugin_preset"
  <2>1. Preset(c) \in Nat
    BY <1>4, PresetIsNat
  <2> QED BY <1>1, <1>4, <2>1, HandlerOf, VerifiedIs
<1>5. CASE c.op = "set_parameter_value"
  BY <1>1, <1>5, HandlerOf, VerifiedIs
<1>6. CASE c.op = "rename_track"
  <2>1. "trackName" \in Fields \ (Loop \cup {"saved", "quit"})
    BY DEF Fields, Loop
  <2> QED BY <1>1, <1>6, <2>1, HandlerOf, WritePiece
<1>7. CASE c.op = "clear_clip_notes"
  <2>1. "notes" \in Fields \ Loop /\ "notes" # "saved"
    BY DEF Fields, Loop
  <2>2. Ok(<<Call("notes", Asked)>>)
    BY <1>1, <2>1, CallPiece
  <2>3. Ok(<<Wait>>)
    BY LanePiece DEF Wait, Dos, OnField
  <2>4. <<Call("notes", Asked), Wait>> = <<Call("notes", Asked)>> \o <<Wait>>
    OBVIOUS
  <2> QED BY <1>7, <2>2, <2>3, <2>4, HandlerOf, PieceConcat
<1>8. CASE c.op = "set_clip_properties"
  BY <1>8, HandlerOf, ClipPiece
<1>9. CASE c.op = "set_arrangement_clip"
  BY <1>9, HandlerOf, PlacedParts
<1>10. CASE c.op \in EnvelopeOps
  BY <1>10, HandlerOf, PointsAreNat, AutomationPiece
<1>11. CASE c.op = "live_fade"
  <2>1. "volume" \in Fields \ (Loop \cup {"saved", "quit"})
    BY DEF Fields, Loop
  <2>2. Ok(<<Write("volume", Asked)>>)
    BY <1>1, <2>1, WritePiece
  <2>3. Ok(<<Wait>>)
    BY LanePiece DEF Wait, Dos, OnField
  <2>4. <<Write("volume", Asked), Wait>> = <<Write("volume", Asked)>> \o <<Wait>>
    OBVIOUS
  <2> QED BY <1>11, <2>2, <2>3, <2>4, HandlerOf, PieceConcat, FadePiece
<1>12. CASE c.op = "add_notes_pattern"
  <2>1. "notes" \in Fields \ Loop /\ "notes" # "saved"
    BY DEF Fields, Loop
  <2> QED BY <1>1, <1>12, <2>1, HandlerOf, CallPiece
<1>13. CASE c.op \in {"fire_clip", "fire_scene", "hierarchy"}
  <2>1. {"clipFired", "sceneFired"} \subseteq Fields \ (Loop \cup {"saved"})
    BY DEF Fields, Loop
  <2>2. Lane("refuse") \in Stmts /\ Lane("refuse").do = "refuse"
    BY LanesAreStmts DEF Lane, Stmt, Dos, OnField
  <2>3. Piece(<<Lane("refuse")>>) /\ Len(<<Lane("refuse")>>) = 1
    BY <2>2 DEF Piece, LoopWaits, Begun
  <2>4. Ok(<<Call("clipFired", Asked)>>) /\ Ok(<<Call("sceneFired", Asked)>>)
    BY <1>1, <2>1, CallPiece
  <2> QED BY <1>13, <2>3, <2>4, HandlerOf DEF FireClip, FireScene
<1>14. CASE c.op = "set_tempo"
  <2>1. "tempo" \in Fields \ {"saved", "quit"}
    BY DEF Fields
  <2> QED BY <1>1, <1>14, <2>1, HandlerOf, VerifiedIs, EmptyPiece, Bounds DEF SetTempo
<1>15. CASE c.op \in {"start_playback", "stop_playback", "set_loop", "set_loop_start", "set_loop_length"}
  <2>1. Transport[c.op] \in Fields \ {"saved", "quit"}
    BY <1>15 DEF Fields, Transport
  <2> QED BY <1>1, <1>15, <2>1, HandlerOf, VerifiedIs, Bounds
<1>16. CASE c.op \in {"duplicate", "delete"} \cup Creating
  BY <1>16, HandlerOf, TwoLanes DEF Dos, OnField
<1>17. CASE c.op = "move"
  <2>1. Ok(<<Lane("copy"), Lane("copied")>>) /\ Ok(<<Lane("remove"), Lane("removed")>>)
    BY TwoLanes DEF Dos, OnField
  <2>2. <<Lane("copy"), Lane("copied"), Lane("remove"), Lane("removed")>> =
          <<Lane("copy"), Lane("copied")>> \o <<Lane("remove"), Lane("removed")>>
    OBVIOUS
  <2> QED BY <1>17, <2>1, <2>2, HandlerOf, PieceConcat
<1>18. CASE c.op \in {"search_browser", "diagnose_midi_clip"}
  BY <1>18, HandlerOf, EmptyPiece
<1>19. CASE c.op = "save_set"
  <2>1. "saved" \in Fields \ Loop
    BY DEF Fields, Loop
  <2> QED BY <1>1, <1>19, <2>1, HandlerOf, CallPiece, EmptyPiece DEF SaveSet
<1>20. CASE c.op = "quit_ableton"
  BY <1>20, HandlerOf, QuitPiece
<1>21. DOMAIN Transport \ {"set_tempo"} =
         {"start_playback", "stop_playback", "set_loop", "set_loop_start", "set_loop_length"}
  BY DEF Transport
<1> QED
  BY <1>2, <1>3, <1>4, <1>5, <1>6, <1>7, <1>8, <1>9, <1>10, <1>11, <1>12, <1>13, <1>14, <1>15,
     <1>16, <1>17, <1>18, <1>19, <1>20, <1>21, OpsOf DEF Plain

\* What is left of a quit, from the parameters: nothing quits an unsaved Set by itself.
LEMMA QuitIs ==
  ASSUME NEW c
  PROVE  \/ Quit(c) = <<Wait, Call("saved", Asked), Call("quit", Asked)>>
         \/ Quit(c) = <<Wait, Call("quit", Asked)>> /\ (c.save => ~c.api /\ c.force)
         \/ Quit(c) = <<Wait>>
<1> DEFINE x == Call("saved", Asked)  y == Call("quit", Asked)
           saves == IF c.save /\ c.api THEN <<x>> ELSE <<>>
           quits == IF c.save /\ ~c.api /\ ~c.force THEN <<>> ELSE <<y>>
<1>1. Quit(c) = (<<Wait>> \o saves) \o quits
  BY DEF Quit
<1>2. \/ saves = <<x>> /\ quits = <<y>>
      \/ saves = <<>> /\ quits = <<y>> /\ (c.save => ~c.api /\ c.force)
      \/ saves = <<>> /\ quits = <<>>
  OBVIOUS
<1> HIDE DEF x, y, saves, quits
<1>3. (<<Wait>> \o <<x>>) \o <<y>> = <<Wait, x, y>>
  BY SmallConcats
<1>4. (<<Wait>> \o <<>>) \o <<y>> = <<Wait, y>> /\ (<<Wait>> \o <<>>) \o <<>> = <<Wait>>
  BY SmallConcats
<1>5. \/ Quit(c) = <<Wait, x, y>>
      \/ Quit(c) = <<Wait, y>> /\ (c.save => ~c.api /\ c.force)
      \/ Quit(c) = <<Wait>>
  BY <1>1, <1>2, <1>3, <1>4
<1> QED BY <1>5 DEF x, y

\* Only the commands that create, move or fade have the statements for it, and only the
\* one that quits asks Live to quit.
Own(c, s) ==
  /\ s.do \in {"create", "name"} => c.op \in Creating
  /\ s.do \in {"copy", "copied", "remove", "removed"} => c.op \in {"duplicate", "delete", "move"}
  /\ s.do \in {"step", "until"} => c.op = "live_fade"
  /\ s.do = "refuse" => c.op \in {"fire_clip", "fire_scene", "hierarchy", "set_arrangement_clip"}
  /\ s.field = "quit" => c.op = "quit_ableton"
OwnAll(c, h) == \A i \in DOMAIN h : Own(c, h[i])
Harmless(s) == s.do \in OnField \cup {"wait", "obtain", "has_envelopes"} /\ s.field # "quit"
HarmlessAll(h) == \A i \in DOMAIN h : Harmless(h[i])

LEMMA HarmlessIsOwn ==
  ASSUME NEW h, HarmlessAll(h), NEW c
  PROVE  OwnAll(c, h)
  BY DEF HarmlessAll, Harmless, OwnAll, Own, OnField

LEMMA OwnConcat ==
  ASSUME NEW s \in Seq(Stmts), NEW t \in Seq(Stmts)
  PROVE  /\ \A c : OwnAll(c, s) /\ OwnAll(c, t) => OwnAll(c, s \o t)
         /\ HarmlessAll(s) /\ HarmlessAll(t) => HarmlessAll(s \o t)
<1>1. \A i \in DOMAIN (s \o t) : \/ i \in DOMAIN s /\ (s \o t)[i] = s[i]
                                 \/ i - Len(s) \in DOMAIN t /\ (s \o t)[i] = t[i - Len(s)]
  BY ConcatFrom
<1> QED BY <1>1, Zenon DEF OwnAll, HarmlessAll

LEMMA OneHarmless ==
  ASSUME NEW x, Harmless(x)
  PROVE  HarmlessAll(<<x>>)
  BY DEF HarmlessAll

LEMMA BlocksHarmless ==
  /\ \A f, v, n : f # "quit" => HarmlessAll(Verified(f, v, n))
  /\ \A f, v : f # "quit" => Harmless(Write(f, v)) /\ Harmless(Call(f, v)) /\ Harmless(See(f, v, 0))
  /\ Harmless(Wait) /\ Harmless(Lane("obtain")) /\ Harmless(Lane("has_envelopes"))
  /\ HarmlessAll(<<>>)
<1>1. \A f, v, n : f # "quit" => Harmless(Write(f, v)) /\ Harmless(Call(f, v)) /\ Harmless(See(f, v, n))
  BY DEF Harmless, OnField, Write, Call, See, Stmt
<1>2. Harmless(Wait) /\ Harmless(Lane("obtain")) /\ Harmless(Lane("has_envelopes"))
  BY DEF Harmless, OnField, Wait, Lane, Stmt
<1>3. ASSUME NEW f, NEW v, NEW n, f # "quit"
      PROVE  HarmlessAll(Verified(f, v, n))
  <2> DEFINE w == Write(f, v)  s == See(f, v, n - 1)
  <2>1. Harmless(w) /\ Harmless(s)
    BY <1>1, <1>3
  <2>2. Verified(f, v, n) = <<w, Wait, s>>
    BY DEF Verified
  <2> HIDE DEF w, s
  <2> QED BY <1>2, <2>1, <2>2 DEF HarmlessAll
<1>4. HarmlessAll(<<>>)
  BY DEF HarmlessAll
<1> QED BY <1>1, <1>2, <1>3, <1>4

LEMMA AutomationHarmless ==
  ASSUME NEW n \in Nat
  PROVE  HarmlessAll(Automation(n))
<1> DEFINE h == [i \in 1..n |-> Call("envelope", Cleared + i)]
<1>1. HarmlessAll(h)
  BY BlocksHarmless DEF HarmlessAll
<1>2. Piece(h) /\ Piece(<<Call("envelope", Cleared), Lane("obtain")>>) /\ Piece(<<Wait, Lane("has_envelopes")>>)
  BY AutomationPiece
<1> HIDE DEF h
<1> DEFINE x == Call("envelope", Cleared)  y == Lane("obtain")  z == Lane("has_envelopes")
<1>3. Harmless(x) /\ Harmless(y) /\ Harmless(z) /\ Harmless(Wait)
  BY BlocksHarmless
<1>4. h \in Seq(Stmts) /\ <<x, y>> \in Seq(Stmts) /\ <<Wait, z>> \in Seq(Stmts)
  BY <1>2 DEF Piece
<1> HIDE DEF x, y, z
<1>5. HarmlessAll(<<x, y>>) /\ HarmlessAll(<<Wait, z>>)
  BY <1>3 DEF HarmlessAll
<1>6. HarmlessAll(<<x, y>> \o h) /\ <<x, y>> \o h \in Seq(Stmts)
  BY <1>1, <1>4, <1>5, OwnConcat, ConcatFacts
<1>7. HarmlessAll((<<x, y>> \o h) \o <<Wait, z>>)
  BY <1>4, <1>5, <1>6, OwnConcat
<1>8. Automation(n) = (<<x, y>> \o h) \o <<Wait, z>>
  BY DEF Automation, h, x, y, z
<1> QED BY <1>7, <1>8

LEMMA ClipHarmless ==
  ASSUME NEW c \in Commands, c.op = "set_clip_properties"
  PROVE  HarmlessAll(ClipProperties(c))
<1>1. HarmlessAll(StartOf(c)) /\ HarmlessAll(EndOf(c)) /\ HarmlessAll(NameOf(c))
  BY BlocksHarmless DEF StartOf, EndOf, NameOf
<1>2. StartOf(c) \in Seq(Stmts) /\ EndOf(c) \in Seq(Stmts) /\ NameOf(c) \in Seq(Stmts)
  BY ClipParts DEF Piece
<1>3. /\ HarmlessAll(EndOf(c) \o StartOf(c)) /\ HarmlessAll(StartOf(c) \o EndOf(c))
      /\ EndOf(c) \o StartOf(c) \in Seq(Stmts) /\ StartOf(c) \o EndOf(c) \in Seq(Stmts)
  BY <1>1, <1>2, OwnConcat, ConcatFacts
<1>4. HarmlessAll((EndOf(c) \o StartOf(c)) \o NameOf(c)) /\ HarmlessAll((StartOf(c) \o EndOf(c)) \o NameOf(c))
  BY <1>1, <1>2, <1>3, OwnConcat
<1> QED BY <1>4, ClipParts

LEMMA PlacedOwn ==
  ASSUME NEW c, c.op = "set_arrangement_clip"
  PROVE  OwnAll(c, PlacedProperties(c))
<1> DEFINE A == PlacedWrites(c)  B == PlacedRefusal(c)  D == PlacedMutes(c)
           E == PlacedSees(c)  F == PlacedSeesMuted(c)
<1>1. HarmlessAll(A) /\ HarmlessAll(D) /\ HarmlessAll(E) /\ HarmlessAll(F) /\ HarmlessAll(<<Wait>>)
  BY BlocksHarmless, OneHarmless DEF PlacedWrites, PlacedMutes, PlacedSees, PlacedSeesMuted
<1>2. OwnAll(c, A) /\ OwnAll(c, D) /\ OwnAll(c, E) /\ OwnAll(c, F) /\ OwnAll(c, <<Wait>>)
  BY <1>1, HarmlessIsOwn
<1>3. OwnAll(c, B)
  <2>1. Own(c, Lane("refuse"))
    BY DEF Own, Lane, Stmt
  <2> QED BY <2>1 DEF PlacedRefusal, OwnAll
<1>4. /\ A \in Seq(Stmts) /\ B \in Seq(Stmts) /\ D \in Seq(Stmts) /\ E \in Seq(Stmts) /\ F \in Seq(Stmts)
      /\ <<Wait>> \in Seq(Stmts)
      /\ PlacedProperties(c) = (((A \o B) \o D) \o <<Wait>>) \o (E \o F)
  BY PlacedParts DEF Piece
<1> HIDE DEF A, B, D, E, F
<1>5. OwnAll(c, A \o B) /\ A \o B \in Seq(Stmts) /\ OwnAll(c, E \o F) /\ E \o F \in Seq(Stmts)
  BY <1>2, <1>3, <1>4, OwnConcat, ConcatFacts
<1>6. OwnAll(c, (A \o B) \o D) /\ (A \o B) \o D \in Seq(Stmts)
  BY <1>2, <1>4, <1>5, OwnConcat, ConcatFacts
<1>7. OwnAll(c, ((A \o B) \o D) \o <<Wait>>) /\ ((A \o B) \o D) \o <<Wait>> \in Seq(Stmts)
  BY <1>2, <1>4, <1>6, OwnConcat, ConcatFacts
<1> QED BY <1>4, <1>5, <1>7, OwnConcat

LEMMA LanesOwn ==
  ASSUME NEW c, NEW d, NEW e,
         \A do \in {d, e} :
           /\ do \in {"create", "name"} => c.op \in Creating
           /\ do \in {"copy", "copied", "remove", "removed"} => c.op \in {"duplicate", "delete", "move"}
           /\ do \in {"step", "until"} => c.op = "live_fade"
           /\ do = "refuse" => c.op \in {"fire_clip", "fire_scene", "hierarchy", "set_arrangement_clip"}
  PROVE  OwnAll(c, <<Lane(d), Lane(e)>>) /\ OwnAll(c, <<Lane(d)>>)
<1> DEFINE x == Lane(d)  y == Lane(e)
<1>1. Own(c, x) /\ Own(c, y)
  BY DEF Own, Lane, Stmt
<1> HIDE DEF x, y
<1>2. OwnAll(c, <<x, y>>) /\ OwnAll(c, <<x>>)
  BY <1>1 DEF OwnAll
<1> QED BY <1>2 DEF x, y

LEMMA HandlerOwn ==
  ASSUME NEW c \in Commands,
         c.op = "set_plugin_preset" => Cardinality(PresetsMeant(c)) = 1
  PROVE  OwnAll(c, Handler(c))
<1> DEFINE Ok(h) == OwnAll(c, h)
<1>1. ASSUME NEW f, f # "quit"
      PROVE  /\ \A v, n : Ok(Verified(f, v, n))
             /\ \A v : Ok(<<Write(f, v)>>) /\ Ok(<<Call(f, v)>>)
             /\ \A v : Ok(<<Write(f, v), Wait>>) /\ Ok(<<Call(f, v), Wait>>)
  <2>1. ASSUME NEW x, Harmless(x)
        PROVE  HarmlessAll(<<x, Wait>>)
    BY <2>1, BlocksHarmless DEF HarmlessAll
  <2> QED BY <1>1, <2>1, BlocksHarmless, OneHarmless, HarmlessIsOwn
<1>2. CASE c.op = "set_track_property"
  <2>1. Ok(Verified("mute", Asked, Retries))
    BY <1>1
  <2> QED BY <1>2, <2>1, HandlerOf
<1>3. CASE c.op \in {"set_track_color", "set_clip_color"}
  <2>1. Ok(Verified("color", Asked, 1))
    BY <1>1
  <2> QED BY <1>3, <2>1, HandlerOf
<1>4. CASE c.op = "set_plugin_preset"
  BY <1>1, <1>4, HandlerOf
<1>5. CASE c.op = "set_parameter_value"
  <2>1. Ok(Verified("param", Asked, 2))
    BY <1>1
  <2> QED BY <1>5, <2>1, HandlerOf
<1>6. CASE c.op = "rename_track"
  BY <1>1, <1>6, HandlerOf
<1>7. CASE c.op = "clear_clip_notes"
  BY <1>1, <1>7, HandlerOf
<1>8. CASE c.op = "set_clip_properties"
  BY <1>8, HandlerOf, ClipHarmless, HarmlessIsOwn
<1>9. CASE c.op = "set_arrangement_clip"
  BY <1>9, HandlerOf, PlacedOwn
<1>10. CASE c.op \in EnvelopeOps
  BY <1>10, HandlerOf, PointsAreNat, AutomationHarmless, HarmlessIsOwn
<1>11. CASE c.op = "live_fade"
  <2>1. ASSUME NEW i \in DOMAIN Fade
        PROVE  Own(c, Fade[i])
    <3>1. Fade[i] = Lane("step") \/ Fade[i] = Lane("until") \/ Fade[i] = Write("volume", FadeValue(i \div 3))
      <4>1. i \in 1..(3 * FadeSteps)
        BY FadePiece
      <4> QED BY <4>1 DEF Fade
    <3> QED BY <1>11, <3>1 DEF Own, Lane, Write, Stmt
  <2>2. Ok(Fade)
    BY <2>1 DEF OwnAll
  <2> QED BY <1>1, <1>11, <2>2, HandlerOf
<1>12. CASE c.op = "add_notes_pattern"
  BY <1>1, <1>12, HandlerOf
<1>13. CASE c.op \in {"fire_clip", "fire_scene", "hierarchy"}
  <2>1. Ok(<<Lane("refuse")>>)
    BY <1>13, LanesOwn
  <2> QED BY <1>1, <1>13, <2>1, HandlerOf DEF FireClip, FireScene
<1>14. CASE c.op = "set_tempo"
  BY <1>1, <1>14, HandlerOf, BlocksHarmless, HarmlessIsOwn DEF SetTempo
<1>15. CASE c.op \in {"start_playback", "stop_playback", "set_loop", "set_loop_start", "set_loop_length"}
  <2>1. Transport[c.op] # "quit"
    BY <1>15 DEF Transport
  <2> QED BY <1>1, <1>15, <2>1, HandlerOf
<1>16. CASE c.op \in Creating
  <2>1. Ok(<<Lane("create"), Lane("name")>>)
    BY <1>16, LanesOwn
  <2> QED BY <1>16, <2>1, HandlerOf
<1>17. CASE c.op \in {"duplicate", "delete", "move"}
  <2>1. Ok(<<Lane("copy"), Lane("copied")>>) /\ Ok(<<Lane("remove"), Lane("removed")>>)
    BY <1>17, LanesOwn
  <2>2. <<Lane("copy"), Lane("copied"), Lane("remove"), Lane("removed")>> =
          <<Lane("copy"), Lane("copied")>> \o <<Lane("remove"), Lane("removed")>>
    OBVIOUS
  <2>3. <<Lane("copy"), Lane("copied")>> \in Seq(Stmts) /\ <<Lane("remove"), Lane("removed")>> \in Seq(Stmts)
    BY TwoLanes DEF Piece, Dos, OnField
  <2>4. Ok(<<Lane("copy"), Lane("copied"), Lane("remove"), Lane("removed")>>)
    BY <2>1, <2>2, <2>3, OwnConcat
  <2> QED BY <1>17, <2>1, <2>4, HandlerOf
<1>18. CASE c.op \in {"search_browser", "diagnose_midi_clip"}
  BY <1>18, HandlerOf, BlocksHarmless, HarmlessIsOwn
<1>19. CASE c.op = "save_set"
  BY <1>1, <1>19, HandlerOf, BlocksHarmless, HarmlessIsOwn DEF SaveSet
<1>20. CASE c.op = "quit_ableton"
  <2>1. \A i \in DOMAIN Quit(c) : Quit(c)[i].do \in {"wait", "call"}
    <3> DEFINE x == Call("saved", Asked)  y == Call("quit", Asked)
    <3>1. x.do = "call" /\ y.do = "call" /\ Wait.do = "wait"
      BY WaitIs DEF Call, Stmt
    <3>2. Quit(c) = <<Wait, x, y>> \/ Quit(c) = <<Wait, y>> \/ Quit(c) = <<Wait>>
      BY QuitIs
    <3> HIDE DEF x, y
    <3> QED BY <3>1, <3>2
  <2> QED BY <1>20, <2>1, HandlerOf DEF OwnAll, Own
<1>21. DOMAIN Transport \ {"set_tempo"} =
         {"start_playback", "stop_playback", "set_loop", "set_loop_start", "set_loop_length"}
  BY DEF Transport
<1> QED
  BY <1>2, <1>3, <1>4, <1>5, <1>6, <1>7, <1>8, <1>9, <1>10, <1>11, <1>12, <1>13, <1>14, <1>15,
     <1>16, <1>17, <1>18, <1>19, <1>20, <1>21, OpsOf DEF Plain

-------------------------------------------------------------------------------
(*************************** types *****************************************)
Line == Piece(todo) \/ todo = <<Lane("begin")>>

\* What Live has accepted and not yet shown: the loop is late only until the tick that
\* the handler waits for, and by one end.
LateOK ==
  /\ late \subseteq ((Fields \ {"saved", "quit"}) \cup {"copy", "remove"}) \X Nat
  /\ \A l \in late : l[1] \in Loop => todo # <<>> /\ Head(todo).do = "wait"
  /\ \A l, m \in late : l[1] \in Loop /\ m[1] \in Loop => l = m

LaneOK ==
  /\ lane \subseteq [id : Nat, of : {"mine", "other", "source", "users"}] /\ IsFiniteSet(lane)
  /\ <<"copy", 0>> \in late => \E c \in lane : c.id = 3
  /\ "deleted" \notin touched => [id |-> 2, of |-> "other"] \in lane

SetOK ==
  /\ set \in [Fields -> Nat] /\ set["loopStart"] < set["loopEnd"]
  /\ touched \subseteq Fields \cup {"added", "deleted"}

MemoOK ==
  /\ counts \in [before : Nat, copied : Nat] /\ acts \in Nat
  /\ tracks \in Seq({"a", "b", "new", "named"})
  /\ fade \in [clock : Nat, deadline : Nat, written : Seq(Nat)]

AnswerOK == answer \in Answers /\ (answer # "none" => todo = <<>>)

TypeInv ==
  /\ cmd \in Commands /\ tree \in Trees \cup {<<>>} /\ OwnAll(cmd, todo)
  /\ Line /\ AnswerOK /\ LateOK /\ LaneOK /\ SetOK /\ MemoOK

LEMMA PieceTail ==
  ASSUME NEW s, Piece(s), s # <<>>
  PROVE  Piece(Tail(s)) /\ (Unrefused(s) => Unrefused(Tail(s)))
<1>1. s \in Seq(Stmts)
  BY DEF Piece
<1>2. /\ Tail(s) \in Seq(Stmts) /\ Len(Tail(s)) = Len(s) - 1 /\ Len(s) \in Nat
      /\ \A i \in 1..(Len(s) - 1) : Tail(s)[i] = s[i + 1]
      /\ DOMAIN s = 1..Len(s) /\ DOMAIN Tail(s) = 1..(Len(s) - 1)
  BY <1>1, TailFacts, SeqDomain
<1> DEFINE t == Tail(s)
<1> HIDE DEF t
<1>3. \A i \in DOMAIN t : i + 1 \in DOMAIN s /\ t[i] = s[i + 1] /\ i \in Nat
  BY <1>2 DEF t
<1>4. Begun(t) /\ (Unrefused(s) => Unrefused(t))
  BY <1>3 DEF Begun, Unrefused, Piece
<1>5. LoopWaits(t)
  <2> SUFFICES ASSUME NEW i \in DOMAIN t, t[i].do = "write", t[i].field \in Loop
               PROVE  i < Len(t) /\ t[i + 1].do = "wait"
    BY DEF LoopWaits
  <2>1. i + 1 < Len(s) /\ s[(i + 1) + 1].do = "wait"
    BY <1>3 DEF Piece, LoopWaits
  <2>2. i + 1 \in 1..(Len(s) - 1)
    BY <1>2, <1>3, <2>1
  <2>3. t[i + 1] = s[(i + 1) + 1]
    BY <1>2, <2>2 DEF t
  <2> QED BY <1>2, <1>3, <2>1, <2>3 DEF t
<1> QED BY <1>2, <1>4, <1>5 DEF Piece, t

LEMMA BeginIsNoPiece == ~Piece(<<Lane("begin")>>)
<1> DEFINE b == Lane("begin")
<1>1. b.do = "begin"
  BY DEF Lane, Stmt
<1> HIDE DEF b
<1>2. ~Begun(<<b>>)
  BY <1>1 DEF Begun
<1> QED BY <1>2 DEF Piece, b

\* What comes first, and what Doing says of it.
LEMMA HeadIs ==
  ASSUME TypeInv, NEW do, do # "begin", Doing(do)
  PROVE  /\ Piece(todo) /\ todo # <<>> /\ answer = "none"
         /\ This \in Stmts /\ This = todo[1] /\ This.do = do
         /\ todo \in Seq(Stmts) /\ 1 \in DOMAIN todo
<1>1. todo # <<Lane("begin")>>
  BY DEF Doing, Lane, Stmt
<1>2. Piece(todo) /\ todo \in Seq(Stmts)
  BY <1>1 DEF TypeInv, Line, Piece
<1>3. todo # <<>> /\ answer = "none" /\ Head(todo).do = do
  BY DEF Doing
<1> QED BY <1>2, <1>3, TailFacts DEF This

\* Each statement waits, or does what s does, or writes what s is to see.
Again(p, s) ==
  \A i \in DOMAIN p :
    \/ p[i].do = "wait" /\ p[i].field = "lane"
    \/ /\ p[i].field = s.field /\ p[i].value = s.value
       /\ p[i].do = s.do \/ (s.do = "see" /\ p[i].do = "write")

\* Two statements, of the lane, before the rest.
LEMMA AgainPiece ==
  ASSUME NEW x \in Stmts, x.do \notin OnField, x.do \notin {"begin", "refuse"}
  PROVE  /\ [x EXCEPT !.tries = 1] \in Stmts /\ [x EXCEPT !.tries = 1].do = x.do
         /\ Piece(<<Wait, [x EXCEPT !.tries = 1]>>) /\ Unrefused(<<Wait, [x EXCEPT !.tries = 1]>>)
         /\ Again(<<Wait, [x EXCEPT !.tries = 1]>>, x)
<1> DEFINE y == [x EXCEPT !.tries = 1]
<1>1. x \in [do : Dos, field : Fields \cup {"lane"}, value : Nat, tries : Nat]
  BY DEF Stmts
<1>2. /\ y \in [do : Dos, field : Fields \cup {"lane"}, value : Nat, tries : Nat]
      /\ y.do = x.do /\ y.field = x.field /\ y.value = x.value
  BY <1>1
<1> HIDE DEF y
<1>3. y \in Stmts
  BY <1>2 DEF Stmts
<1>4. Piece(<<y>>) /\ Unrefused(<<y>>)
  BY <1>2, <1>3, OnePiece DEF OnField
<1>5. Piece(<<Wait>>) /\ Unrefused(<<Wait>>)
  BY LanePiece DEF Wait, Dos, OnField
<1>6. <<Wait, y>> = <<Wait>> \o <<y>>
  OBVIOUS
<1>7. Piece(<<Wait, y>>) /\ Unrefused(<<Wait, y>>)
  BY <1>4, <1>5, <1>6, PieceConcat
<1>8. Again(<<Wait, y>>, x)
  BY <1>2, WaitIs DEF Again
<1> QED BY <1>2, <1>3, <1>7, <1>8 DEF y

LEMMA SeenAgain ==
  ASSUME NEW x \in Stmts, x.do = "see", x.tries > 0
  PROVE  /\ x.field \in Fields \ {"saved", "quit"} /\ x.value \in Nat /\ x.tries \in Nat \ {0}
         /\ Piece(Verified(x.field, x.value, x.tries)) /\ Unrefused(Verified(x.field, x.value, x.tries))
         /\ Again(Verified(x.field, x.value, x.tries), x)
<1>1. x.field \in Fields \ {"saved", "quit"} /\ x.value \in Nat /\ x.tries \in Nat \ {0}
  BY DEF Stmts, OnField
<1> DEFINE w == Write(x.field, x.value)  s == See(x.field, x.value, x.tries - 1)
<1>2. /\ w.do = "write" /\ w.field = x.field /\ w.value = x.value
      /\ s.do = "see" /\ s.field = x.field /\ s.value = x.value
  BY DEF Write, See, Stmt
<1>3. Verified(x.field, x.value, x.tries) = <<w, Wait, s>>
  BY DEF Verified
<1> HIDE DEF w, s
<1>4. Again(<<w, Wait, s>>, x)
  BY <1>2, WaitIs DEF Again
<1> QED BY <1>1, <1>3, <1>4, VerifiedIs

\* What a step leaves of the handler.
Stays == (UserEdits \/ Quits) /\ todo' = todo /\ answer' = answer
Ends ==
  /\ todo' = <<>> /\ answer = "none" /\ answer' \in Answers \ {"none"}
  /\ answer' = "refused" => Begin \/ RefuseNow
  /\ answer' = "ok" => Reply
Goes == todo # <<>> /\ Piece(todo) /\ todo' = Tail(todo) /\ answer' = answer /\ answer = "none"
GoesBack ==
  /\ todo # <<>> /\ Piece(todo) /\ answer' = answer /\ answer = "none"
  /\ Head(todo).do \in {"see", "copied", "removed", "until"}
  /\ \E p : /\ Piece(p) /\ Unrefused(p) /\ Again(p, Head(todo))
            /\ \/ todo' = p \o Tail(todo)
               \/ todo' = p \o todo

LEMMA StepLeaves ==
  ASSUME TypeInv, Next
  PROVE  Begin \/ Stays \/ Ends \/ Goes \/ GoesBack
<1>1. ASSUME NEW do, do # "begin", Doing(do), Proceed
      PROVE  Goes
  BY <1>1, HeadIs DEF Goes, Proceed
<1>2. ASSUME NEW do, Doing(do), NEW a \in Answers \ {"none", "refused", "ok"}, Answered(a)
      PROVE  Ends
  BY <1>2 DEF Ends, Answered, Doing
<1>3. {"failed", "rejected", "raised"} \subseteq Answers \ {"none", "refused", "ok"}
  BY DEF Answers
<1>4. CASE RefuseNow
  BY <1>4 DEF RefuseNow, Ends, Answered, Answers, Doing
<1>5. CASE WriteProperty
  BY <1>1, <1>2, <1>3, <1>5 DEF WriteProperty
<1>6. CASE CallMethod
  BY <1>1, <1>6 DEF CallMethod
<1>7. CASE Obtain
  BY <1>1, <1>2, <1>3, <1>7 DEF Obtain
<1>8. CASE HasEnvelopes
  BY <1>1, <1>2, <1>3, <1>8 DEF HasEnvelopes
<1>9. CASE ReadBack
  <2>1. Doing("see")
    BY <1>9 DEF ReadBack
  <2>2. CASE set[This.field] # This.value /\ This.tries > 0
    <3>1. /\ todo' = Verified(This.field, This.value, This.tries) \o Tail(todo)
          /\ answer' = answer
      BY <1>9, <2>2 DEF ReadBack
    <3>2. /\ Piece(Verified(This.field, This.value, This.tries))
          /\ Unrefused(Verified(This.field, This.value, This.tries))
          /\ Again(Verified(This.field, This.value, This.tries), This)
      BY <2>1, <2>2, HeadIs, SeenAgain
    <3> QED BY <2>1, <3>1, <3>2, HeadIs DEF GoesBack, This, Doing
  <2> QED BY <1>1, <1>2, <1>3, <1>9, <2>1, <2>2 DEF ReadBack
<1>10. CASE CopyClip
  BY <1>1, <1>10 DEF CopyClip
<1>11. CASE Copied
  <2>1. Doing("copied")
    BY <1>11 DEF Copied
  <2>2. CASE todo' = <<Wait, [This EXCEPT !.tries = 1]>> \o Tail(todo) /\ answer' = answer
    <3>1. This \in Stmts /\ This.do = "copied" /\ Piece(todo) /\ todo # <<>> /\ answer = "none"
      BY <2>1, HeadIs
    <3>2. /\ Piece(<<Wait, [This EXCEPT !.tries = 1]>>)
          /\ Unrefused(<<Wait, [This EXCEPT !.tries = 1]>>)
          /\ Again(<<Wait, [This EXCEPT !.tries = 1]>>, This)
      BY <3>1, AgainPiece DEF OnField
    <3> QED BY <2>2, <3>1, <3>2 DEF GoesBack, This
  <2> QED BY <1>1, <1>2, <1>3, <1>11, <2>1, <2>2 DEF Copied
<1>12. CASE RemoveClip
  BY <1>1, <1>2, <1>3, <1>12 DEF RemoveClip
<1>13. CASE Removed
  <2>1. Doing("removed")
    BY <1>13 DEF Removed
  <2>2. CASE todo' = <<Wait, [This EXCEPT !.tries = 1]>> \o Tail(todo) /\ answer' = answer
    <3>1. This \in Stmts /\ This.do = "removed" /\ Piece(todo) /\ todo # <<>> /\ answer = "none"
      BY <2>1, HeadIs
    <3>2. /\ Piece(<<Wait, [This EXCEPT !.tries = 1]>>)
          /\ Unrefused(<<Wait, [This EXCEPT !.tries = 1]>>)
          /\ Again(<<Wait, [This EXCEPT !.tries = 1]>>, This)
      BY <3>1, AgainPiece DEF OnField
    <3> QED BY <2>2, <3>1, <3>2 DEF GoesBack, This
  <2> QED BY <1>1, <1>2, <1>3, <1>13, <2>1, <2>2 DEF Removed
<1>14. CASE CreateTrack
  BY <1>1, <1>2, <1>3, <1>14 DEF CreateTrack
<1>15. CASE NameTrack
  BY <1>1, <1>2, <1>3, <1>15 DEF NameTrack
<1>16. CASE FadeStep
  BY <1>1, <1>16 DEF FadeStep
<1>17. CASE FadeUntil
  <2>1. Doing("until")
    BY <1>17 DEF FadeUntil
  <2>2. CASE todo' = <<Wait>> \o todo /\ answer' = answer
    <3>1. Piece(<<Wait>>) /\ Unrefused(<<Wait>>)
      BY LanePiece DEF Wait, Dos, OnField
    <3>2. Again(<<Wait>>, Head(todo))
      BY WaitIs DEF Again
    <3> QED BY <2>1, <2>2, <3>1, <3>2, HeadIs DEF GoesBack, Doing
  <2> QED BY <1>1, <1>17, <2>1, <2>2 DEF FadeUntil
<1>18. CASE Reply
  BY <1>18 DEF Reply, Ends, Answers
<1>19. CASE TickPasses
  BY <1>1, <1>19 DEF TickPasses
<1>20. CASE Raises
  BY <1>2, <1>3, <1>20 DEF Raises
<1>21. CASE UserEdits
  BY <1>21 DEF UserEdits, Stays
<1>22. CASE Quits
  BY <1>22 DEF Quits, Stays
<1> QED
  BY <1>4, <1>5, <1>6, <1>7, <1>8, <1>9, <1>10, <1>11, <1>12, <1>13, <1>14, <1>15, <1>16, <1>17,
     <1>18, <1>19, <1>20, <1>21, <1>22
  DEF Next, Step

\* The beginning is of a handler that is a piece, or refuses the command.
LEMMA BeginLeaves ==
  ASSUME TypeInv, Begin
  PROVE  /\ todo = <<Lane("begin")>> /\ answer = "none"
         /\ \/ todo' = <<>> /\ answer' = "refused" /\ UNCHANGED <<counts, target>>
            \/ /\ Valid(cmd) /\ todo' = Handler(cmd) /\ answer' = "none" /\ Piece(Handler(cmd))
               /\ cmd.op = "set_plugin_preset" => Cardinality(PresetsMeant(cmd)) = 1
               /\ \/ Unrefused(Handler(cmd)) \/ Len(Handler(cmd)) = 1
                  \/ cmd.op = "set_arrangement_clip"
         /\ UNCHANGED <<cmd, tree, Set, fade, User, faults>>
<1>1. todo # <<>> /\ Head(todo).do = "begin" /\ answer = "none"
  BY DEF Begin, Doing
<1>2. ~Piece(todo)
  <2> SUFFICES ASSUME Piece(todo) PROVE FALSE
    OBVIOUS
  <2>1. 1 \in DOMAIN todo /\ todo[1] = Head(todo)
    BY <1>1, TailFacts DEF Piece
  <2> QED BY <1>1, <2>1 DEF Piece, Begun
<1>3. todo = <<Lane("begin")>>
  BY <1>2 DEF TypeInv, Line
<1>4. cmd \in Commands
  BY DEF TypeInv
<1>5. Valid(cmd) /\ cmd.op = "set_plugin_preset" => Cardinality(PresetsMeant(cmd)) = 1
  BY DEF Valid
<1>6. CASE Answered("refused") /\ UNCHANGED <<counts, target>>
  BY <1>1, <1>3, <1>6 DEF Begin, Answered, Ends, Answers
<1>7. CASE Valid(cmd) /\ todo' = Handler(cmd) /\ UNCHANGED answer
  <2>1. /\ Piece(Handler(cmd))
        /\ \/ Unrefused(Handler(cmd)) \/ Len(Handler(cmd)) = 1
           \/ cmd.op = "set_arrangement_clip"
    BY <1>4, <1>5, <1>7, HandlerPiece
  <2> QED BY <1>1, <1>3, <1>5, <1>7, <2>1 DEF Begin
<1> QED BY <1>6, <1>7 DEF Begin

LEMMA LineStep ==
  ASSUME TypeInv, Next
  PROVE  Line' /\ AnswerOK'
<1>1. CASE Begin
  BY <1>1, BeginLeaves, EmptyPiece DEF Line, AnswerOK, Ends, Answers
<1>2. CASE Stays
  BY <1>2 DEF TypeInv, Line, AnswerOK, Stays
<1>3. CASE Ends
  BY <1>3, EmptyPiece DEF Line, AnswerOK, Ends
<1>4. CASE Goes
  BY <1>4, PieceTail DEF Line, AnswerOK, Goes, Answers
<1>5. CASE GoesBack
  BY <1>5, PieceTail, PieceConcat DEF Line, AnswerOK, GoesBack, Answers
<1> QED BY <1>1, <1>2, <1>3, <1>4, <1>5, StepLeaves

LEMMA LateQuiet ==
  ASSUME TypeInv, NEW do, do # "wait", Doing(do) \/ todo = <<>>
  PROVE  \A l \in late : l[1] \notin Loop
  BY DEF TypeInv, LateOK, Doing

LEMMA LateStep ==
  ASSUME TypeInv, Next
  PROVE  LateOK'
<1>1. ASSUME NEW do, do # "wait", Doing(do) \/ todo = <<>>, late' = late
      PROVE  LateOK'
  <2>1. \A l \in late : l[1] \notin Loop
    BY <1>1, LateQuiet
  <2> QED BY <1>1, <2>1 DEF TypeInv, LateOK
<1>2. ASSUME NEW do, do # "wait", Doing(do), NEW x \in {"copy", "remove"}, late' = late \cup {<<x, 0>>}
      PROVE  LateOK'
  <2>1. \A l \in late : l[1] \notin Loop
    BY <1>2, LateQuiet
  <2>2. \A l \in late' : l[1] \notin Loop
    BY <1>2, <2>1 DEF Loop
  <2>3. late' \subseteq ((Fields \ {"saved", "quit"}) \cup {"copy", "remove"}) \X Nat
    BY <1>2 DEF TypeInv, LateOK
  <2> QED BY <2>2, <2>3 DEF LateOK
<1>3. CASE WriteProperty
  <2>1. Doing("write")
    BY <1>3 DEF WriteProperty
  <2>2. This \in Stmts /\ This = todo[1] /\ This.do = "write" /\ Piece(todo) /\ 1 \in DOMAIN todo
    BY <2>1, HeadIs
  <2>3. \A l \in late : l[1] \notin Loop
    BY <2>1, LateQuiet
  <2>4. CASE late' = late \cup {<<This.field, This.value>>} /\ Proceed
    <3>1. This.field \in Fields \ {"saved", "quit"} /\ This.value \in Nat
      BY <2>2 DEF Stmts, OnField
    <3> DEFINE f == This.field  v == This.value
    <3>2. f \in Loop => todo' # <<>> /\ Head(todo').do = "wait"
      <4> SUFFICES ASSUME f \in Loop PROVE todo' # <<>> /\ Head(todo').do = "wait"
        OBVIOUS
      <4>1. 1 < Len(todo) /\ todo[1 + 1].do = "wait"
        BY <2>2 DEF Piece, LoopWaits
      <4>2. todo \in Seq(Stmts) /\ todo # <<>> /\ todo' = Tail(todo)
        BY <2>1, <2>4, HeadIs DEF Proceed
      <4>3. /\ Len(Tail(todo)) = Len(todo) - 1 /\ Tail(todo) \in Seq(Stmts) /\ Len(todo) \in Nat
            /\ \A i \in 1..(Len(todo) - 1) : Tail(todo)[i] = todo[i + 1]
        BY <4>2, TailFacts
      <4>4. Tail(todo)[1] = todo[1 + 1] /\ Len(Tail(todo)) > 0
        BY <4>1, <4>3
      <4>5. Tail(todo) # <<>> /\ Head(Tail(todo)) = Tail(todo)[1]
        BY <4>3, <4>4
      <4> QED BY <4>1, <4>2, <4>4, <4>5
    <3> HIDE DEF f, v
    <3>3. late' = late \cup {<<f, v>>} /\ f \in Fields \ {"saved", "quit"} /\ v \in Nat
      BY <2>4, <3>1 DEF f, v
    <3>4. late' \subseteq ((Fields \ {"saved", "quit"}) \cup {"copy", "remove"}) \X Nat
      BY <3>3 DEF TypeInv, LateOK
    <3>5. \A l \in late' : l[1] \in Loop => l = <<f, v>> /\ f \in Loop
      BY <2>3, <3>3
    <3> QED BY <3>2, <3>4, <3>5 DEF LateOK
  <2> QED BY <1>1, <1>3, <2>1, <2>4 DEF WriteProperty
<1>4. CASE TickPasses
  BY <1>4 DEF TickPasses, LateOK
<1>5. CASE UserEdits \/ Quits
  BY <1>5 DEF UserEdits, Quits, TypeInv, LateOK
<1>6. CASE Begin
  BY <1>1, <1>6 DEF Begin, Set
<1>7. CASE RefuseNow \/ Obtain \/ HasEnvelopes \/ ReadBack
  BY <1>1, <1>7 DEF RefuseNow, Obtain, HasEnvelopes, ReadBack, Set
<1>8. CASE CallMethod \/ Copied \/ Removed \/ CreateTrack \/ NameTrack
  BY <1>1, <1>8 DEF CallMethod, Copied, Removed, CreateTrack, NameTrack, Set
<1>9. CASE FadeStep \/ FadeUntil \/ Reply
  BY <1>1, <1>9 DEF FadeStep, FadeUntil, Reply, Set
<1>10. CASE CopyClip
  BY <1>1, <1>2, <1>10 DEF CopyClip
<1>11. CASE RemoveClip
  BY <1>1, <1>2, <1>11 DEF RemoveClip
<1>12. CASE Raises
  <2>1. PICK do \in {"write", "call", "copy", "remove", "create", "name"} : Doing(do)
    BY <1>12 DEF Raises
  <2> QED BY <1>1, <1>12, <2>1 DEF Raises, Set
<1> QED
  BY <1>3, <1>4, <1>5, <1>6, <1>7, <1>8, <1>9, <1>10, <1>11, <1>12 DEF Next, Step

LEMMA SetStep ==
  ASSUME TypeInv, Next
  PROVE  SetOK'
<1> USE DEF TypeInv, SetOK
<1>1. "loopStart" \in Fields /\ "loopEnd" \in Fields /\ "quit" \in Fields
      /\ "quit" # "loopStart" /\ "quit" # "loopEnd"
  BY DEF Fields
<1>2. CASE WriteProperty
  <2>1. Doing("write")
    BY <1>2 DEF WriteProperty
  <2>2. This \in Stmts /\ This.do = "write"
    BY <2>1, HeadIs
  <2>3. This.field \in Fields /\ This.value \in Nat
    BY <2>2 DEF Stmts, OnField
  <2>4. touched' = touched
    BY <1>2 DEF WriteProperty, User
  <2>5. set' = set \/ (set' = [set EXCEPT ![This.field] = This.value] /\ Fits(This.field, This.value))
    BY <1>2 DEF WriteProperty
  <2> QED BY <1>1, <2>3, <2>4, <2>5 DEF Fits
<1>3. CASE CallMethod
  <2>1. Doing("call")
    BY <1>3 DEF CallMethod
  <2>2. This \in Stmts /\ This.do = "call"
    BY <2>1, HeadIs
  <2>3. This.field \in Fields \ Loop /\ This.value \in Nat
    BY <2>2 DEF Stmts, OnField
  <2>4. touched' = touched /\ set' = [set EXCEPT ![This.field] = This.value]
    BY <1>3 DEF CallMethod, User
  <2> QED BY <1>1, <2>3, <2>4 DEF Loop
<1>4. CASE TickPasses
  <2> DEFINE Shown(f) == {w[2] : w \in {l \in late : l[1] = f /\ Fits(f, l[2])}}
             shown(f) == CHOOSE v \in Shown(f) : TRUE
  <2>1. set' = [f \in Fields |-> IF Shown(f) = {} THEN set[f] ELSE shown(f)] /\ touched' = touched
    BY <1>4 DEF TickPasses, User
  <2>2. \A f \in Fields : Shown(f) # {} =>
          \E l \in late : l[1] = f /\ Fits(f, l[2]) /\ l[2] = shown(f) /\ shown(f) \in Nat
    <3> TAKE f \in Fields
    <3> HAVE Shown(f) # {}
    <3>1. shown(f) \in Shown(f)
      OBVIOUS
    <3> HIDE DEF shown
    <3>2. PICK l \in late : l[1] = f /\ Fits(f, l[2]) /\ l[2] = shown(f)
      BY <3>1
    <3>3. l[2] \in Nat
      BY <3>2 DEF LateOK
    <3> QED BY <3>2, <3>3
  <2> HIDE DEF Shown, shown
  <2>3. set' \in [Fields -> Nat]
    BY <2>1, <2>2
  <2>4. set'["loopStart"] < set'["loopEnd"]
    <3>1. set'["loopStart"] = IF Shown("loopStart") = {} THEN set["loopStart"] ELSE shown("loopStart")
      BY <1>1, <2>1
    <3>2. set'["loopEnd"] = IF Shown("loopEnd") = {} THEN set["loopEnd"] ELSE shown("loopEnd")
      BY <1>1, <2>1
    <3>3. CASE Shown("loopStart") # {} /\ Shown("loopEnd") # {}
      <4>1. PICK l \in late : l[1] = "loopStart"
        BY <1>1, <2>2, <3>3
      <4>2. PICK m \in late : m[1] = "loopEnd"
        BY <1>1, <2>2, <3>3
      <4> QED BY <4>1, <4>2 DEF LateOK, Loop
    <3>4. CASE Shown("loopStart") # {} /\ Shown("loopEnd") = {}
      <4>1. shown("loopStart") < set["loopEnd"]
        BY <1>1, <2>2, <3>4 DEF Fits
      <4> QED BY <3>1, <3>2, <3>4, <4>1
    <3>5. CASE Shown("loopStart") = {} /\ Shown("loopEnd") # {}
      <4>1. shown("loopEnd") > set["loopStart"] /\ shown("loopEnd") \in Nat
        BY <1>1, <2>2, <3>5 DEF Fits
      <4> QED BY <1>1, <3>1, <3>2, <3>5, <4>1
    <3> QED BY <3>1, <3>2, <3>3, <3>4, <3>5
  <2> QED BY <2>1, <2>3, <2>4
<1>5. CASE Quits
  <2>1. set' = [set EXCEPT !["quit"] = Users] /\ touched' = touched
    BY <1>5 DEF Quits, User
  <2> QED BY <1>1, <2>1 DEF Users
<1>6. CASE UserEdits
  <2>1. Concerned \subseteq Fields
    BY DEF Concerned
  <2>2. CASE \E f \in Concerned \ {"loopStart", "loopEnd"} :
               set' = [set EXCEPT ![f] = Users] /\ touched' = touched \cup {f}
    BY <1>1, <2>1, <2>2 DEF Users
  <2>3. CASE \E s, e \in Beats : s < e /\ set' = [set EXCEPT !["loopStart"] = s, !["loopEnd"] = e]
    <3>1. touched' \subseteq Fields \cup {"added", "deleted"}
      BY <1>1, <1>6, <2>1 DEF UserEdits
    <3>2. PICK s \in Beats, e \in Beats :
            s < e /\ set' = [set EXCEPT !["loopStart"] = s, !["loopEnd"] = e]
      BY <2>3
    <3>3. s \in Nat /\ e \in Nat
      BY DEF Beats
    <3> QED BY <1>1, <3>1, <3>2, <3>3
  <2>4. CASE set' = set
    <3>1. touched' \subseteq Fields \cup {"added", "deleted"}
      BY <1>1, <1>6, <2>1 DEF UserEdits
    <3> QED BY <2>4, <3>1
  <2> QED BY <1>6, <2>2, <2>3, <2>4 DEF UserEdits
<1>7. CASE Begin \/ RefuseNow \/ Obtain \/ HasEnvelopes \/ ReadBack \/ Reply
  BY <1>7 DEF Begin, RefuseNow, Obtain, HasEnvelopes, ReadBack, Reply, Set, User
<1>8. CASE CopyClip \/ Copied \/ RemoveClip \/ Removed \/ CreateTrack \/ NameTrack
  BY <1>8 DEF CopyClip, Copied, RemoveClip, Removed, CreateTrack, NameTrack, Set, User
<1>9. CASE FadeStep \/ FadeUntil \/ Raises
  BY <1>9 DEF FadeStep, FadeUntil, Raises, Set, User
<1> QED BY <1>2, <1>3, <1>4, <1>5, <1>6, <1>7, <1>8, <1>9 DEF Next, Step

LEMMA OwnTail ==
  ASSUME NEW s \in Seq(Stmts), s # <<>>, NEW c, OwnAll(c, s)
  PROVE  OwnAll(c, Tail(s)) /\ Own(c, Head(s))
<1>1. /\ Tail(s) \in Seq(Stmts) /\ Len(s) \in Nat /\ Len(s) > 0 /\ Head(s) = s[1]
      /\ \A i \in 1..(Len(s) - 1) : Tail(s)[i] = s[i + 1]
      /\ DOMAIN s = 1..Len(s) /\ DOMAIN Tail(s) = 1..(Len(s) - 1)
  BY TailFacts, SeqDomain
<1>2. \A i \in DOMAIN Tail(s) : i + 1 \in DOMAIN s /\ Tail(s)[i] = s[i + 1]
  BY <1>1
<1>3. 1 \in DOMAIN s
  BY <1>1
<1> QED BY <1>1, <1>2, <1>3 DEF OwnAll

LEMMA OwnAgain ==
  ASSUME NEW p, NEW s, Again(p, s), NEW c, Own(c, s)
  PROVE  OwnAll(c, p)
  BY DEF Again, Own, OwnAll

LEMMA OwnStep ==
  ASSUME TypeInv, Next
  PROVE  OwnAll(cmd, todo')
<1>1. CASE Begin
  BY <1>1, BeginLeaves, HandlerOwn DEF Ends, OwnAll, TypeInv
<1>2. CASE Stays
  BY <1>2 DEF TypeInv, Stays
<1>3. CASE Ends
  BY <1>3 DEF Ends, OwnAll
<1>4. CASE Goes
  <2>1. todo \in Seq(Stmts) /\ todo # <<>> /\ OwnAll(cmd, todo) /\ todo' = Tail(todo)
    BY <1>4 DEF Goes, Piece, TypeInv
  <2> QED BY <2>1, OwnTail
<1>5. CASE GoesBack
  <2>1. todo \in Seq(Stmts) /\ todo # <<>> /\ OwnAll(cmd, todo)
    BY <1>5 DEF GoesBack, Piece, TypeInv
  <2>2. OwnAll(cmd, Tail(todo)) /\ Own(cmd, Head(todo)) /\ Tail(todo) \in Seq(Stmts)
    BY <2>1, OwnTail, TailFacts
  <2>3. PICK p : /\ p \in Seq(Stmts) /\ Again(p, Head(todo))
                 /\ todo' = p \o Tail(todo) \/ todo' = p \o todo
    BY <1>5 DEF GoesBack, Piece
  <2>4. OwnAll(cmd, p)
    BY <2>2, <2>3, OwnAgain
  <2> QED BY <2>1, <2>2, <2>3, <2>4, OwnConcat
<1> QED BY <1>1, <1>2, <1>3, <1>4, <1>5, StepLeaves

LEMMA InsertIsSeq ==
  ASSUME NEW S, NEW s \in Seq(S), NEW n \in 1..(Len(s) + 1), NEW x \in S
  PROVE  InsertAt(s, n, x) \in Seq(S)
  BY DEF InsertAt

\* The commands that create tracks have an index.
LEMMA CreatingIs ==
  ASSUME TypeInv, Doing("create") \/ Doing("name")
  PROVE  cmd.op \in Creating /\ cmd.index \in -1..2
<1>1. PICK do \in {"create", "name"} : Doing(do)
  OBVIOUS
<1>2. Head(todo).do = do /\ todo \in Seq(Stmts) /\ todo # <<>>
  BY <1>1, HeadIs DEF Doing
<1>3. Own(cmd, Head(todo))
  BY <1>2, OwnTail DEF TypeInv
<1>4. cmd.op \in Creating /\ cmd \in Commands
  BY <1>2, <1>3 DEF Own, TypeInv
<1>5. cmd \in [op : Creating, index : -1..2]
  BY <1>4 DEF Commands, Plain, EnvelopeOps, Addressed, Creating, Transport
<1> QED BY <1>4, <1>5

LEMMA LaneStep ==
  ASSUME TypeInv, Next
  PROVE  LaneOK'
<1> DEFINE Clips == [id : Nat, of : {"mine", "other", "source", "users"}]
<1>1. /\ lane \subseteq Clips /\ IsFiniteSet(lane)
      /\ <<"copy", 0>> \in late => \E c \in lane : c.id = 3
      /\ "deleted" \notin touched => [id |-> 2, of |-> "other"] \in lane
  BY DEF TypeInv, LaneOK
<1>2. ASSUME lane' = lane, late' = late, touched' = touched
      PROVE  LaneOK'
  BY <1>1, <1>2 DEF LaneOK
<1>3. CASE CopyClip
  <2>1. /\ Copy("mine") \in Clips /\ Copy("mine").id = 3
        /\ Copy("source") \in Clips /\ Copy("source").id = 3
    BY DEF Copy
  <2>2. touched' = touched
    BY <1>3 DEF CopyClip, User
  <2>3. CASE UNCHANGED <<lane, late>>
    BY <1>2, <2>2, <2>3
  <2>4. ASSUME NEW x \in Clips, x.id = 3, lane' = lane \cup {x}
        PROVE  LaneOK'
    <3>1. IsFiniteSet(lane')
      BY <1>1, <2>4, FS_AddElement
    <3> QED BY <1>1, <2>2, <2>4, <3>1 DEF LaneOK
  <2> QED BY <1>3, <2>1, <2>3, <2>4, Zenon DEF CopyClip
<1>4. CASE RemoveClip
  <2>1. touched' = touched
    BY <1>4 DEF RemoveClip, User
  <2>2. CASE UNCHANGED <<lane, late>>
    BY <1>2, <2>1, <2>2
  <2>3. CASE /\ lane' = {c \in lane : c.id # Original}
             /\ late' = late \/ late' = late \cup {<<"remove", 0>>}
    <3>1. IsFiniteSet(lane') /\ lane' \subseteq Clips
      BY <1>1, <2>3, FS_Subset
    <3>2. <<"copy", 0>> \in late' => \E c \in lane' : c.id = 3
      BY <1>1, <2>3 DEF Original
    <3>3. "deleted" \notin touched' => [id |-> 2, of |-> "other"] \in lane'
      BY <1>1, <2>1, <2>3 DEF Original
    <3> QED BY <3>1, <3>2, <3>3 DEF LaneOK
  <2> QED BY <1>4, <2>2, <2>3 DEF RemoveClip
<1>5. CASE UserEdits
  <2>1. late' = late
    BY <1>5 DEF UserEdits
  <2>2. CASE lane' = lane /\ touched \subseteq touched'
    BY <1>1, <2>1, <2>2 DEF LaneOK
  <2>3. CASE lane' = lane \cup {[id |-> 4 + acts, of |-> "users"]} /\ touched' = touched \cup {"added"}
    <3>1. [id |-> 4 + acts, of |-> "users"] \in Clips
      BY DEF TypeInv, MemoOK
    <3>2. IsFiniteSet(lane')
      BY <1>1, <2>3, FS_AddElement
    <3> QED BY <1>1, <2>1, <2>3, <3>1, <3>2 DEF LaneOK
  <2>4. CASE \E c \in lane : (c.id = 3 => late = {}) /\ lane' = lane \ {c} /\ touched' = touched \cup {"deleted"}
    <3>1. PICK c \in lane : (c.id = 3 => late = {}) /\ lane' = lane \ {c}
      BY <2>4
    <3>2. IsFiniteSet(lane')
      BY <1>1, <3>1, FS_RemoveElement
    <3>3. <<"copy", 0>> \in late' => \E x \in lane' : x.id = 3
      BY <1>1, <2>1, <3>1
    <3> QED BY <1>1, <2>4, <3>1, <3>2, <3>3 DEF LaneOK
  <2> QED BY <1>5, <2>2, <2>3, <2>4 DEF UserEdits
<1>6. CASE WriteProperty
  <2>1. Doing("write")
    BY <1>6 DEF WriteProperty
  <2>2. This.field \in Fields
    BY <2>1, HeadIs DEF Stmts, OnField
  <2>3. This.field # "copy"
    BY <2>2 DEF Fields
  <2>4. <<"copy", 0>> \in late' => <<"copy", 0>> \in late
    BY <1>6, <2>3 DEF WriteProperty
  <2>5. lane' = lane /\ touched' = touched
    BY <1>6 DEF WriteProperty, User
  <2> QED BY <1>1, <2>4, <2>5 DEF LaneOK
<1>7. CASE TickPasses
  <2>1. lane' = lane /\ touched' = touched /\ late' = {}
    BY <1>7 DEF TickPasses, User
  <2> QED BY <1>1, <2>1 DEF LaneOK
<1>8. CASE Begin \/ RefuseNow \/ Obtain \/ HasEnvelopes \/ ReadBack \/ Reply
  BY <1>2, <1>8 DEF Begin, RefuseNow, Obtain, HasEnvelopes, ReadBack, Reply, Set, User
<1>9. CASE CallMethod \/ Copied \/ Removed \/ CreateTrack \/ NameTrack
  BY <1>2, <1>9 DEF CallMethod, Copied, Removed, CreateTrack, NameTrack, Set, User
<1>10. CASE FadeStep \/ FadeUntil \/ Raises \/ Quits
  BY <1>2, <1>10 DEF FadeStep, FadeUntil, Raises, Quits, Set, User
<1> QED BY <1>3, <1>4, <1>5, <1>6, <1>7, <1>8, <1>9, <1>10 DEF Next, Step

\* How many clips the track lists is a number: a copy that is late is in the lane.
LEMMA ListedIsNat ==
  ASSUME TypeInv
  PROVE  Listed \in Nat
<1>1. IsFiniteSet(lane) /\ (<<"copy", 0>> \in late => lane # {})
  BY DEF TypeInv, LaneOK
<1>2. Cardinality(lane) \in Nat /\ (lane # {} => Cardinality(lane) # 0)
  BY <1>1, FS_CardinalityType, FS_EmptySet
<1> QED BY <1>1, <1>2 DEF Listed

LEMMA MemoStep ==
  ASSUME TypeInv, Next
  PROVE  MemoOK'
<1> DEFINE Names == {"a", "b", "new", "named"}
           FadeType == [clock : Nat, deadline : Nat, written : Seq(Nat)]
<1>1. /\ counts \in [before : Nat, copied : Nat] /\ acts \in Nat
      /\ tracks \in Seq(Names) /\ fade \in FadeType /\ Listed \in Nat
  BY ListedIsNat DEF TypeInv, MemoOK
<1>2. ASSUME counts' = counts, acts' = acts, tracks' = tracks, fade' = fade
      PROVE  MemoOK'
  BY <1>1, <1>2 DEF MemoOK
<1>3. ASSUME NEW n \in Nat, counts' = [counts EXCEPT !.before = n] \/ counts' = [counts EXCEPT !.copied = n]
      PROVE  counts' \in [before : Nat, copied : Nat]
  BY <1>1, <1>3
<1>4. CASE Begin
  <2>1. acts' = acts /\ tracks' = tracks /\ fade' = fade
    BY <1>4 DEF Begin, User, Set
  <2>2. Len(tracks) \in Nat
    BY <1>1
  <2>3. counts' = counts \/ counts' = [counts EXCEPT !.before = Len(tracks)]
          \/ counts' = [counts EXCEPT !.before = Listed]
    BY <1>4 DEF Begin
  <2> QED BY <1>1, <1>3, <2>1, <2>2, <2>3 DEF MemoOK
<1>5. CASE Copied
  <2>1. acts' = acts /\ tracks' = tracks /\ fade' = fade
    BY <1>5 DEF Copied, User, Set
  <2>2. counts' = counts \/ counts' = [counts EXCEPT !.copied = Listed]
    BY <1>5 DEF Copied
  <2> QED BY <1>1, <1>3, <2>1, <2>2 DEF MemoOK
<1>6. CASE WriteProperty
  <2>1. acts' = acts /\ tracks' = tracks /\ counts' = counts
    BY <1>6 DEF WriteProperty, User
  <2>2. fade' = fade \/ fade' = [fade EXCEPT !.written = Append(@, fade.clock)]
    BY <1>6 DEF WriteProperty
  <2>3. Append(fade.written, fade.clock) \in Seq(Nat)
    BY <1>1
  <2>4. fade' \in FadeType
    BY <1>1, <2>2, <2>3
  <2> QED BY <1>1, <2>1, <2>4 DEF MemoOK
<1>7. CASE FadeStep
  <2>1. /\ acts' = acts /\ tracks' = tracks /\ counts' = counts
        /\ fade' = [fade EXCEPT !.deadline = fade.clock + Interval]
    BY <1>7 DEF FadeStep, User, Set
  <2>2. fade.clock + Interval \in Nat
    BY <1>1, Bounds
  <2>3. fade' \in FadeType
    BY <1>1, <2>1, <2>2
  <2> QED BY <1>1, <2>1, <2>3 DEF MemoOK
<1>8. CASE TickPasses
  <2>1. /\ acts' = acts /\ tracks' = tracks /\ counts' = counts
        /\ fade' = fade \/ fade' = [fade EXCEPT !.clock = @ + TickTime]
    BY <1>8 DEF TickPasses, User
  <2>2. fade.clock + TickTime \in Nat
    BY <1>1, Bounds
  <2>3. fade' \in FadeType
    BY <1>1, <2>1, <2>2
  <2> QED BY <1>1, <2>1, <2>3 DEF MemoOK
<1>9. CASE UserEdits
  <2>1. /\ acts' = acts + 1 /\ tracks' = tracks /\ counts' = counts /\ fade' = fade
    BY <1>9 DEF UserEdits, Memo
  <2> QED BY <1>1, <2>1 DEF MemoOK
<1>10. CASE CreateTrack
  <2>1. acts' = acts /\ counts' = counts /\ fade' = fade
    BY <1>10 DEF CreateTrack, User, Memo
  <2> DEFINE at == IF cmd.index = -1 THEN Len(tracks) + 1 ELSE cmd.index + 1
  <2>2. CASE tracks' = tracks
    BY <1>2, <2>1, <2>2
  <2>3. CASE ~(cmd.index > Len(tracks)) /\ tracks' = InsertAt(tracks, at, "new")
    <3>1. Doing("create")
      BY <1>10 DEF CreateTrack
    <3>2. cmd.index \in -1..2
      BY <3>1, CreatingIs
    <3>3. at \in 1..(Len(tracks) + 1)
      BY <1>1, <2>3, <3>2
    <3> HIDE DEF at
    <3>4. InsertAt(tracks, at, "new") \in Seq(Names)
      BY <1>1, <3>3, InsertIsSeq
    <3> QED BY <1>1, <2>1, <2>3, <3>4 DEF MemoOK
  <2> QED BY <1>10, <2>2, <2>3 DEF CreateTrack
<1>11. CASE NameTrack
  <2>1. acts' = acts /\ counts' = counts /\ fade' = fade
    BY <1>11 DEF NameTrack, User, Memo
  <2>2. \/ tracks' = tracks
        \/ tracks' = [tracks EXCEPT ![IF cmd.index = -1 THEN Len(tracks) ELSE cmd.index + 1] = "named"]
    BY <1>11 DEF NameTrack
  <2> DEFINE at == IF cmd.index = -1 THEN Len(tracks) ELSE cmd.index + 1
  <2>3. "named" \in Names
    OBVIOUS
  <2>4. tracks' = tracks \/ tracks' = [tracks EXCEPT ![at] = "named"]
    BY <2>2
  <2> HIDE DEF at, Names
  <2>5. tracks' \in Seq(Names)
    BY <1>1, <2>3, <2>4
  <2> QED BY <1>1, <2>1, <2>5 DEF MemoOK, Names
<1>12. CASE RefuseNow \/ Obtain \/ HasEnvelopes \/ ReadBack \/ Reply
  BY <1>2, <1>12 DEF RefuseNow, Obtain, HasEnvelopes, ReadBack, Reply, Set, User, Memo
<1>13. CASE CallMethod \/ CopyClip \/ RemoveClip \/ Removed
  BY <1>2, <1>13 DEF CallMethod, CopyClip, RemoveClip, Removed, Set, User, Memo
<1>14. CASE FadeUntil \/ Raises \/ Quits
  BY <1>2, <1>14 DEF FadeUntil, Raises, Quits, Set, User, Memo
<1> QED
  BY <1>4, <1>5, <1>6, <1>7, <1>8, <1>9, <1>10, <1>11, <1>12, <1>13, <1>14 DEF Next, Step

LEMMA CmdStays ==
  ASSUME Next
  PROVE  cmd' = cmd /\ tree' = tree
<1>1. CASE Begin \/ RefuseNow \/ WriteProperty \/ CallMethod \/ Obtain \/ HasEnvelopes \/ ReadBack
  BY <1>1 DEF Begin, RefuseNow, WriteProperty, CallMethod, Obtain, HasEnvelopes, ReadBack, Where
<1>2. CASE CopyClip \/ Copied \/ RemoveClip \/ Removed \/ CreateTrack \/ NameTrack
  BY <1>2 DEF CopyClip, Copied, RemoveClip, Removed, CreateTrack, NameTrack, Where
<1>3. CASE FadeStep \/ FadeUntil \/ Reply \/ TickPasses \/ Raises \/ UserEdits \/ Quits
  BY <1>3 DEF FadeStep, FadeUntil, Reply, TickPasses, Raises, UserEdits, Quits, Where
<1> QED BY <1>1, <1>2, <1>3 DEF Next, Step

LEMMA TypeInit ==
  ASSUME Init
  PROVE  TypeInv
<1>1. cmd \in Commands /\ tree \in Trees \cup {<<>>}
  BY DEF Init
<1>2. todo = <<Lane("begin")>> /\ answer = "none"
  BY DEF Init
<1>3. OwnAll(cmd, todo)
  <2> DEFINE x == Lane("begin")
  <2>1. Own(cmd, x)
    BY DEF Own, Lane, Stmt
  <2>2. todo = <<x>>
    BY <1>2
  <2> HIDE DEF x
  <2> QED BY <2>1, <2>2 DEF OwnAll
<1>4. Line /\ AnswerOK
  BY <1>2 DEF Line, AnswerOK, Answers
<1>5. LateOK /\ late = {}
  BY DEF Init, LateOK
<1>6. LaneOK
  <2>1. lane = {[id |-> 1, of |-> "mine"], [id |-> 2, of |-> "other"]}
    BY DEF Init, Original
  <2>2. IsFiniteSet(lane)
    <3>1. IsFiniteSet({}) /\ IsFiniteSet({} \cup {[id |-> 1, of |-> "mine"]})
      BY FS_EmptySet, FS_AddElement
    <3>2. IsFiniteSet({[id |-> 1, of |-> "mine"]} \cup {[id |-> 2, of |-> "other"]})
      BY <3>1, FS_AddElement
    <3> QED BY <2>1, <3>2
  <2> QED BY <1>5, <2>1, <2>2 DEF LaneOK
<1>7. SetOK
  <2>1. {"loopStart", "loopEnd"} \subseteq Fields
    BY DEF Fields
  <2> QED BY <2>1 DEF Init, SetOK, Old
<1>8. MemoOK
  <2>1. tracks = <<"a">> \/ tracks = <<"a", "b">>
    BY DEF Init
  <2>2. tracks \in Seq({"a", "b", "new", "named"})
    <3> DEFINE Names == {"a", "b", "new", "named"}
    <3>1. "a" \in Names /\ "b" \in Names
      OBVIOUS
    <3> HIDE DEF Names
    <3>2. <<"a">> \in Seq(Names) /\ <<"a", "b">> \in Seq(Names)
      BY <3>1
    <3> QED BY <2>1, <3>2 DEF Names
  <2>3. fade = [clock |-> 0, deadline |-> 0, written |-> <<>>] /\ <<>> \in Seq(Nat)
    BY DEF Init
  <2> QED BY <2>2, <2>3 DEF Init, MemoOK
<1> QED BY <1>1, <1>3, <1>4, <1>5, <1>6, <1>7, <1>8 DEF TypeInv

LEMMA TypeStep ==
  ASSUME TypeInv, [Next]_vars
  PROVE  TypeInv'
<1>1. CASE Next
  <2>1. cmd' = cmd /\ tree' = tree /\ OwnAll(cmd, todo')
    BY <1>1, CmdStays, OwnStep
  <2>2. OwnAll(cmd', todo')
    BY <2>1
  <2>3. Line' /\ AnswerOK' /\ LateOK' /\ LaneOK' /\ SetOK' /\ MemoOK'
    BY <1>1, LineStep, LateStep, LaneStep, SetStep, MemoStep
  <2> QED BY <2>1, <2>2, <2>3 DEF TypeInv
<1>2. CASE UNCHANGED vars
  BY <1>2 DEF vars, TypeInv, Line, AnswerOK, LateOK, LaneOK, SetOK, MemoOK, OwnAll, Own
<1> QED BY <1>1, <1>2

\* In every command, whatever Live and the user do, each variable stays in its range, an
\* answer ends the handler, the loop of the clip stays a loop, and the lane keeps its other
\* clip unless the user deletes it (clips.py, arrangement.py, dispatch.py).
THEOREM TypeCorrect == Spec => []TypeOK
<1>1. Init => TypeInv
  BY TypeInit
<1>2. TypeInv /\ [Next]_vars => TypeInv'
  BY TypeStep
<1>3. TypeInv => TypeOK
  BY DEF TypeInv, AnswerOK, SetOK, LaneOK, MemoOK, TypeOK
<1> QED BY <1>1, <1>2, <1>3, PTL DEF Spec

LEMMA AlwaysTyped == Spec => []TypeInv
  BY TypeInit, TypeStep, PTL DEF Spec

-------------------------------------------------------------------------------
(*************************** quitting **************************************)
Justified == cmd.save => set["saved"] = Asked \/ (cmd.force /\ ~cmd.api)

SaveCall == Call("saved", Asked)
QuitCall == Call("quit", Asked)

\* Live is asked to quit by the command that does, and only where it may be: behind the
\* call that saves the Set, or where none is due.
QuitInv ==
  /\ set["quit"] # Old => cmd.op = "quit_ableton" /\ Justified
  /\ cmd.op = "quit_ableton" =>
       \/ todo \in {<<Lane("begin")>>, <<Wait, SaveCall, QuitCall>>, <<SaveCall, QuitCall>>, <<Wait>>, <<>>}
       \/ todo \in {<<Wait, QuitCall>>, <<QuitCall>>} /\ Justified

\* Nothing but a call saves the Set, or asks Live to quit.
LEMMA SavedByCalls ==
  ASSUME TypeInv, Next, ~CallMethod
  PROVE  set'["saved"] = set["saved"] /\ (set'["quit"] # Old => set["quit"] # Old)
<1>1. /\ set \in [Fields -> Nat] /\ "saved" \in Fields /\ "quit" \in Fields
      /\ late \subseteq ((Fields \ {"saved", "quit"}) \cup {"copy", "remove"}) \X Nat
  BY DEF TypeInv, SetOK, LateOK, Fields
<1>2. CASE WriteProperty
  <2>1. Doing("write")
    BY <1>2 DEF WriteProperty
  <2>2. This \in Stmts /\ This.do = "write"
    BY <2>1, HeadIs
  <2>3. This.field \in Fields \ {"saved", "quit"}
    BY <2>2 DEF Stmts, OnField
  <2> QED BY <1>1, <1>2, <2>3 DEF WriteProperty
<1>3. CASE TickPasses
  <2> DEFINE Shown(f) == {w[2] : w \in {l \in late : l[1] = f /\ Fits(f, l[2])}}
             shown(f) == CHOOSE v \in Shown(f) : TRUE
  <2>1. set' = [f \in Fields |-> IF Shown(f) = {} THEN set[f] ELSE shown(f)]
    BY <1>3 DEF TickPasses
  <2>2. \A l \in late : l[1] # "saved" /\ l[1] # "quit"
    BY <1>1
  <2>3. Shown("saved") = {} /\ Shown("quit") = {}
    BY <2>2
  <2> HIDE DEF Shown, shown
  <2> QED BY <1>1, <2>1, <2>3
<1>4. CASE UserEdits
  <2>1. \A f \in Concerned : f # "saved" /\ f # "quit"
    BY DEF Concerned
  <2> QED BY <1>1, <1>4, <2>1 DEF UserEdits
<1>5. CASE Quits
  BY <1>1, <1>5 DEF Quits, Asked, Old
<1>6. CASE Begin \/ RefuseNow \/ Obtain \/ HasEnvelopes \/ ReadBack
  BY <1>6 DEF Begin, RefuseNow, Obtain, HasEnvelopes, ReadBack, Set
<1>7. CASE CopyClip \/ Copied \/ RemoveClip \/ Removed \/ CreateTrack \/ NameTrack
  BY <1>7 DEF CopyClip, Copied, RemoveClip, Removed, CreateTrack, NameTrack, Set
<1>8. CASE FadeStep \/ FadeUntil \/ Reply \/ Raises
  BY <1>8 DEF FadeStep, FadeUntil, Reply, Raises, Set
<1> QED BY <1>2, <1>3, <1>4, <1>5, <1>6, <1>7, <1>8 DEF Next, Step

\* A quit's statements wait or call.
LEMMA QuitDoes ==
  ASSUME QuitInv, cmd.op = "quit_ableton", NEW do, Doing(do)
  PROVE  do \in {"begin", "wait", "call"}
<1> DEFINE b == Lane("begin")  x == SaveCall  y == QuitCall
<1>1. b.do = "begin" /\ x.do = "call" /\ y.do = "call" /\ Wait.do = "wait"
  BY WaitIs DEF Lane, SaveCall, QuitCall, Call, Stmt
<1>2. todo \in {<<b>>, <<Wait, x, y>>, <<x, y>>, <<Wait>>, <<>>, <<Wait, y>>, <<y>>}
  BY DEF QuitInv
<1> HIDE DEF b, x, y
<1>3. Head(todo).do \in {"begin", "wait", "call"} \/ todo = <<>>
  BY <1>1, <1>2
<1> QED BY <1>3 DEF Doing

LEMMA QuitStep ==
  ASSUME TypeInv, QuitInv, [Next]_vars
  PROVE  QuitInv'
<1> DEFINE b == Lane("begin")  x == SaveCall  y == QuitCall
<1>1. /\ b.do = "begin" /\ Wait.do = "wait" /\ b.field = "lane" /\ Wait.field = "lane"
      /\ x.do = "call" /\ x.field = "saved" /\ x.value = Asked
      /\ y.do = "call" /\ y.field = "quit" /\ y.value = Asked
  BY WaitIs DEF Lane, SaveCall, QuitCall, Call, Stmt
<1>2. set["quit"] # Old => cmd.op = "quit_ableton" /\ Justified
  BY DEF QuitInv
<1>3. cmd.op = "quit_ableton" =>
        \/ todo \in {<<b>>, <<Wait, x, y>>, <<x, y>>, <<Wait>>, <<>>}
        \/ todo \in {<<Wait, y>>, <<y>>} /\ Justified
  BY DEF QuitInv
<1>4. SUFFICES
        /\ set'["quit"] # Old => cmd'.op = "quit_ableton" /\ Justified'
        /\ cmd'.op = "quit_ableton" =>
             \/ todo' \in {<<b>>, <<Wait, x, y>>, <<x, y>>, <<Wait>>, <<>>}
             \/ todo' \in {<<Wait, y>>, <<y>>} /\ Justified'
  BY DEF QuitInv
<1> HIDE DEF b, x, y
<1>5. CASE UNCHANGED vars
  BY <1>2, <1>3, <1>5 DEF vars, Justified
<1>6. CASE Next /\ ~CallMethod
  <2>1. cmd' = cmd /\ set'["saved"] = set["saved"] /\ (set'["quit"] # Old => set["quit"] # Old)
    BY <1>6, CmdStays, SavedByCalls
  <2>2. Justified => Justified'
    BY <2>1 DEF Justified
  <2>3. ASSUME cmd.op = "quit_ableton"
        PROVE  \/ todo' \in {<<b>>, <<Wait, x, y>>, <<x, y>>, <<Wait>>, <<>>}
               \/ todo' \in {<<Wait, y>>, <<y>>} /\ Justified'
    <3>1. CASE Begin
      <4>1. todo' = <<>> \/ todo' = Handler(cmd)
        BY <3>1, BeginLeaves DEF Ends
      <4>2. Handler(cmd) = Quit(cmd)
        BY <2>3, HandlerOf
      <4>3. \/ Quit(cmd) = <<Wait, x, y>> \/ Quit(cmd) = <<Wait>>
            \/ Quit(cmd) = <<Wait, y>> /\ (cmd.save => ~cmd.api /\ cmd.force)
        BY QuitIs DEF x, y, SaveCall, QuitCall
      <4>4. (cmd.save => ~cmd.api /\ cmd.force) => Justified'
        BY <2>1 DEF Justified
      <4> QED BY <4>1, <4>2, <4>3, <4>4
    <3>2. CASE TickPasses
      <4>1. todo # <<>> /\ Head(todo).do = "wait" /\ todo' = Tail(todo)
        BY <3>2 DEF TickPasses, Doing, Proceed
      <4>2. todo \in {<<b>>, <<Wait, x, y>>, <<x, y>>, <<Wait>>, <<>>, <<Wait, y>>, <<y>>}
        BY <1>3, <2>3
      <4>3. todo = <<Wait, x, y>> \/ todo = <<Wait>> \/ todo = <<Wait, y>>
        BY <1>1, <4>1, <4>2
      <4>4. CASE todo = <<Wait, y>>
        <5>1. todo \notin {<<b>>, <<Wait, x, y>>, <<x, y>>, <<Wait>>, <<>>}
          BY <1>1, <4>4
        <5>2. Justified'
          BY <1>3, <2>2, <2>3, <5>1
        <5>3. todo' = <<y>>
          BY <4>1, <4>4
        <5> QED BY <5>2, <5>3
      <4>5. CASE todo = <<Wait, x, y>> \/ todo = <<Wait>>
        <5>1. todo' = <<x, y>> \/ todo' = <<>>
          BY <4>1, <4>5, TailOfThree, Tail(<<Wait>>) = <<>>
        <5> QED BY <5>1
      <4> QED BY <4>3, <4>4, <4>5
    <3>3. CASE todo' = <<>> \/ todo' = todo
      BY <1>3, <2>2, <2>3, <3>3
    <3>4. CASE RefuseNow \/ WriteProperty \/ Obtain \/ HasEnvelopes \/ ReadBack
      <4>1. Doing("refuse") \/ Doing("write") \/ Doing("obtain") \/ Doing("has_envelopes") \/ Doing("see")
        BY <3>4 DEF RefuseNow, WriteProperty, Obtain, HasEnvelopes, ReadBack
      <4> QED BY <2>3, <4>1, QuitDoes
    <3>5. CASE CopyClip \/ Copied \/ RemoveClip \/ Removed \/ CreateTrack \/ NameTrack
      BY <2>3, <3>5, QuitDoes DEF CopyClip, Copied, RemoveClip, Removed, CreateTrack, NameTrack
    <3>6. CASE FadeStep \/ FadeUntil
      BY <2>3, <3>6, QuitDoes DEF FadeStep, FadeUntil
    <3>7. CASE Reply \/ Raises \/ UserEdits \/ Quits
      BY <3>3, <3>7 DEF Reply, Raises, UserEdits, Quits, Answered
    <3> QED BY <1>6, <3>1, <3>2, <3>4, <3>5, <3>6, <3>7 DEF Next, Step
  <2> QED BY <1>2, <2>1, <2>2, <2>3
<1>7. CASE CallMethod
  <2>1. Doing("call") /\ todo' = Tail(todo) /\ set' = [set EXCEPT ![This.field] = This.value] /\ cmd' = cmd
    BY <1>7 DEF CallMethod, Proceed, Where
  <2>2. This = Head(todo) /\ This.do = "call" /\ todo # <<>> /\ This.field \in Fields
    BY <2>1, HeadIs DEF Doing, This, Stmts, OnField
  <2>3. set \in [Fields -> Nat] /\ "saved" \in Fields /\ "quit" \in Fields
    BY DEF TypeInv, SetOK, Fields
  <2>4. This.field = "quit" => cmd.op = "quit_ableton"
    <3>1. todo \in Seq(Stmts) /\ OwnAll(cmd, todo)
      BY <2>1, HeadIs DEF TypeInv
    <3> QED BY <2>2, <3>1, OwnTail DEF Own
  <2>5. CASE cmd.op # "quit_ableton"
    <3>1. set'["quit"] = set["quit"]
      BY <2>1, <2>2, <2>3, <2>4, <2>5
    <3> QED BY <1>2, <2>1, <2>5, <3>1
  <2>6. CASE cmd.op = "quit_ableton"
    <3>1. todo = <<x, y>> \/ (todo = <<y>> /\ Justified)
      BY <1>1, <1>3, <2>2, <2>6
    <3>2. CASE todo = <<x, y>>
      <4>1. This = x /\ todo' = <<y>>
        BY <2>1, <2>2, <3>2
      <4>2. set'["saved"] = Asked /\ set'["quit"] = set["quit"]
        BY <1>1, <2>1, <2>3, <4>1
      <4>3. Justified'
        BY <4>2 DEF Justified
      <4> QED BY <2>1, <2>6, <4>1, <4>3
    <3>3. CASE todo = <<y>> /\ Justified
      <4>1. This = y /\ todo' = <<>>
        BY <2>1, <2>2, <3>3
      <4>2. set'["saved"] = set["saved"]
        BY <1>1, <2>1, <2>3, <4>1
      <4>3. Justified'
        BY <2>1, <3>3, <4>2 DEF Justified
      <4> QED BY <2>1, <2>6, <4>1, <4>3
    <3> QED BY <3>1, <3>2, <3>3
  <2> QED BY <2>5, <2>6
<1> QED BY <1>5, <1>6, <1>7

\* Live is made to quit only with the Set saved, unless the command is not to save, or the
\* host cannot and the caller insists, whatever raises or fails before it and whatever
\* the user edits meanwhile (lifecycle.py:84-99).
THEOREM QuitsOnlySaved == Spec => []QuitsSaved
<1>1. Init => QuitInv
  <2>1. "quit" \in Fields /\ "quit" # "loopStart" /\ "quit" # "loopEnd"
    BY DEF Fields
  <2> QED BY <2>1 DEF Init, QuitInv
<1>2. TypeInv /\ QuitInv /\ [Next]_vars => QuitInv'
  BY QuitStep
<1>3. QuitInv => QuitsSaved
  BY DEF QuitInv, QuitsSaved, Justified
<1> QED BY <1>1, <1>2, <1>3, AlwaysTyped, PTL DEF Spec

-------------------------------------------------------------------------------
(*************************** refusing **************************************)
\* Nothing has been written, and nobody has edited anything.
Pristine ==
  /\ touched = {} /\ late = {} /\ Cardinality(lane) = 2
  /\ \A f \in Fields : set[f] = CASE f = "loopStart" -> 1 [] f = "loopEnd" -> 2 [] OTHER -> Old
  /\ "new" \notin ToSet(tracks) /\ "named" \notin ToSet(tracks)

Refusing == todo = <<Lane("begin")>> \/ ~Unrefused(todo) \/ answer = "refused"

\* What refuses a command is the first statement of its handler, and the last.
RefuseInv ==
  cmd.op # "set_arrangement_clip" =>
    /\ Refusing => Pristine
    /\ Unrefused(todo) \/ Len(todo) = 1

LEMMA TailOfOne ==
  ASSUME NEW S, NEW s \in Seq(S), Len(s) = 1
  PROVE  Tail(s) = <<>>
<1> DEFINE t == Tail(s)
<1>1. t \in Seq(S) /\ Len(t) = 0
  BY TailFacts
<1> HIDE DEF t
<1>2. t = <<>>
  BY <1>1
<1> QED BY <1>2 DEF t

LEMMA RefuseStep ==
  ASSUME TypeInv, RefuseInv, [Next]_vars
  PROVE  RefuseInv'
<1>1. CASE UNCHANGED vars
  BY <1>1 DEF vars, RefuseInv, Refusing, Pristine, Unrefused
<1>2. CASE Next
  <2>1. cmd' = cmd
    BY <1>2, CmdStays
  <2> SUFFICES ASSUME cmd.op # "set_arrangement_clip"
               PROVE  (Refusing => Pristine)' /\ (Unrefused(todo') \/ Len(todo') = 1)
    BY <2>1 DEF RefuseInv
  <2>2. (Refusing => Pristine) /\ (Unrefused(todo) \/ Len(todo) = 1)
    BY DEF RefuseInv
  <2>3. ASSUME UNCHANGED <<touched, set, late, lane, tracks>>, Pristine
        PROVE  Pristine'
    BY <2>3 DEF Pristine
  <2>4. \A h : Piece(h) => h # <<Lane("begin")>>
    BY BeginIsNoPiece
  <2>5. Unrefused(<<>>) /\ <<>> # <<Lane("begin")>>
    BY EmptyPiece
  <2>6. CASE Begin
    <3>1. Pristine /\ UNCHANGED <<touched, set, late, lane, tracks>>
      BY <2>2, <2>6, BeginLeaves DEF Refusing, Set, User
    <3>2. Pristine'
      BY <2>3, <3>1
    <3>3. Unrefused(todo') \/ Len(todo') = 1
      BY <2>5, <2>6, BeginLeaves
    <3> QED BY <3>2, <3>3
  <2>7. CASE Stays
    <3>1. todo' = todo /\ answer' = answer
      BY <2>7 DEF Stays
    <3>2. CASE ~Refusing
      BY <2>2, <3>1, <3>2 DEF Refusing
    <3>3. CASE Refusing
      <4>1. Pristine
        BY <2>2, <3>3
      <4>2. CASE UserEdits
        <5>1. Doing("wait")
          BY <4>2 DEF UserEdits
        <5>2. Piece(todo) /\ answer = "none" /\ todo[1].do = "wait" /\ todo \in Seq(Stmts) /\ 1 \in DOMAIN todo
          BY <5>1, HeadIs
        <5>3. ~Unrefused(todo)
          BY <2>4, <3>3, <5>2 DEF Refusing
        <5>4. Len(todo) = 1
          BY <2>2, <5>3
        <5>5. PICK i \in DOMAIN todo : todo[i].do = "refuse"
          BY <5>3 DEF Unrefused
        <5>6. i = 1
          BY <5>2, <5>4, <5>5
        <5> QED BY <5>2, <5>5, <5>6
      <4>3. CASE Quits
        <5>1. set["quit"] = Asked /\ "quit" \in Fields
          BY <4>3 DEF Quits, Fields
        <5>2. set["quit"] = Old
          BY <4>1, <5>1 DEF Pristine
        <5> QED BY <5>1, <5>2 DEF Asked, Old
      <4> QED BY <2>7, <4>2, <4>3 DEF Stays
    <3> QED BY <3>2, <3>3
  <2>8. CASE Ends
    <3>1. todo' = <<>> /\ (answer' = "refused" => Begin \/ RefuseNow)
      BY <2>8 DEF Ends
    <3>2. CASE answer' # "refused"
      BY <2>5, <3>1, <3>2 DEF Refusing
    <3>3. CASE RefuseNow
      <4>1. Doing("refuse") /\ UNCHANGED <<touched, set, late, lane, tracks>>
        BY <3>3 DEF RefuseNow, Set, User
      <4>2. todo[1].do = "refuse" /\ 1 \in DOMAIN todo
        BY <4>1, HeadIs
      <4>3. ~Unrefused(todo)
        BY <4>2 DEF Unrefused
      <4> QED BY <2>2, <2>3, <2>5, <3>1, <4>1, <4>3 DEF Refusing
    <3> QED BY <2>6, <3>1, <3>2, <3>3
  <2>9. CASE Goes
    <3>1. todo # <<>> /\ Piece(todo) /\ todo' = Tail(todo) /\ answer' = "none" /\ todo \in Seq(Stmts)
      BY <2>9 DEF Goes, Piece
    <3>2. Piece(todo') /\ (Unrefused(todo) => Unrefused(todo'))
      BY <3>1, PieceTail
    <3>3. Unrefused(todo')
      BY <2>2, <2>5, <3>1, <3>2, TailOfOne
    <3> QED BY <2>4, <3>1, <3>2, <3>3 DEF Refusing
  <2>10. CASE GoesBack
    <3>1. todo # <<>> /\ Piece(todo) /\ answer' = "none" /\ Head(todo).do # "refuse" /\ todo \in Seq(Stmts)
      BY <2>10 DEF GoesBack, Piece
    <3>2. PICK p : Piece(p) /\ Unrefused(p) /\ (todo' = p \o Tail(todo) \/ todo' = p \o todo)
      BY <2>10 DEF GoesBack
    <3>3. Unrefused(todo)
      <4> SUFFICES ASSUME Len(todo) = 1 PROVE Unrefused(todo)
        BY <2>2
      <4>1. \A i \in DOMAIN todo : i = 1
        BY <3>1
      <4>2. Head(todo) = todo[1]
        BY <3>1
      <4> QED BY <3>1, <4>1, <4>2 DEF Unrefused
    <3>4. Piece(Tail(todo)) /\ Unrefused(Tail(todo))
      BY <3>1, <3>3, PieceTail
    <3>5. Piece(todo') /\ Unrefused(todo')
      BY <3>1, <3>2, <3>3, <3>4, PieceConcat
    <3> QED BY <2>4, <3>1, <3>5 DEF Refusing
  <2> QED BY <1>2, <2>6, <2>7, <2>8, <2>9, <2>10, StepLeaves
<1> QED BY <1>1, <1>2

\* A command that is refused has changed nothing in the Set, and nothing it asked for
\* comes later; set_arrangement_clip_properties is the exception, it may refuse `muted'
\* behind the write of the name (arrangement.py:277-283).
THEOREM RefusalsChangeNothing == Spec => []RefusedChangesNothing
<1>1. Init => RefuseInv
  <2> SUFFICES ASSUME Init PROVE RefuseInv
    OBVIOUS
  <2>1. Cardinality(lane) = 2
    <3> DEFINE a == [id |-> 1, of |-> "mine"]  b == [id |-> 2, of |-> "other"]
    <3>1. a # b /\ lane = {a} \cup {b}
      BY DEF Init, Original
    <3> HIDE DEF a, b
    <3>2. IsFiniteSet({a}) /\ Cardinality({a}) = 1
      BY FS_Singleton
    <3>3. Cardinality({a} \cup {b}) = 1 + 1
      BY <3>1, <3>2, FS_AddElement
    <3> QED BY <3>1, <3>3
  <2>2. "new" \notin ToSet(tracks) /\ "named" \notin ToSet(tracks)
    <3>1. tracks = <<"a">> \/ tracks = <<"a", "b">>
      BY DEF Init
    <3>2. \A i \in DOMAIN tracks : tracks[i] \in {"a", "b"}
      BY <3>1
    <3> QED BY <3>2 DEF ToSet
  <2>3. Pristine
    BY <2>1, <2>2 DEF Init, Pristine
  <2>4. Len(todo) = 1
    BY DEF Init
  <2> QED BY <2>3, <2>4 DEF RefuseInv
<1>2. TypeInv /\ RefuseInv /\ [Next]_vars => RefuseInv'
  BY RefuseStep
<1>3. RefuseInv => RefusedChangesNothing
  BY DEF RefuseInv, Refusing, Pristine, RefusedChangesNothing
<1> QED BY <1>1, <1>2, <1>3, AlwaysTyped, PTL DEF Spec

-------------------------------------------------------------------------------
(*************************** fading ****************************************)
Fading == cmd.op = "live_fade" /\ cmd.seconds > 0

\* t is what is left of the fade behind its first p statements.
LeftAt(t, p) ==
  /\ t \in Seq(Stmts) /\ Len(t) = 3 * FadeSteps - p
  /\ \A i \in 1..Len(t) : t[i] = Fade[p + i]

\* With q steps written: the next one has no deadline yet, has one, or is due.
Pace(q, s) ==
  /\ s = 0 => fade.clock >= q * Interval
  /\ s = 1 => fade.deadline >= (q + 1) * Interval
  /\ s = 2 => fade.clock >= (q + 1) * Interval

FadeAt(q, s) ==
  /\ Pace(q, s)
  /\ \/ LeftAt(todo, 3 * q + s)
     \/ s = 1 /\ todo # <<>> /\ Head(todo) = Wait /\ LeftAt(Tail(todo), 3 * q + s)

FadeInv ==
  Fading =>
    /\ \A k \in 1..Len(fade.written) : fade.written[k] >= k * Interval
    /\ todo = <<Lane("begin")>> => fade.written = <<>>
    /\ answer = "none" /\ todo # <<Lane("begin")>> => \E s \in 0..2 : FadeAt(Len(fade.written), s)
    /\ answer = "ok" => Len(fade.written) = FadeSteps

LEMMA LeftTail ==
  ASSUME NEW t, NEW p \in Nat, LeftAt(t, p), t # <<>>
  PROVE  LeftAt(Tail(t), p + 1) /\ Head(t) = Fade[p + 1] /\ p + 1 \in 1..(3 * FadeSteps)
<1> DEFINE u == Tail(t)  m == 3 * FadeSteps
<1>1. /\ t \in Seq(Stmts) /\ Len(t) = m - p /\ \A i \in 1..Len(t) : t[i] = Fade[p + i]
      /\ m \in Nat
  BY Bounds DEF LeftAt
<1>2. /\ u \in Seq(Stmts) /\ Len(u) = Len(t) - 1 /\ Head(t) = t[1] /\ Len(t) > 0
      /\ \A i \in 1..(Len(t) - 1) : u[i] = t[i + 1]
  BY <1>1, TailFacts
<1> HIDE DEF u, m
<1>3. Len(u) = m - (p + 1)
  BY <1>1, <1>2
<1>4. \A i \in 1..Len(u) : u[i] = Fade[(p + 1) + i]
  <2> TAKE i \in 1..Len(u)
  <2>1. i + 1 \in 1..Len(t) /\ i \in 1..(Len(t) - 1)
    BY <1>1, <1>2
  <2>2. u[i] = Fade[p + (i + 1)]
    BY <1>1, <1>2, <2>1
  <2>3. p + (i + 1) = (p + 1) + i
    BY <2>1
  <2> QED BY <2>2, <2>3
<1>5. Head(t) = Fade[p + 1] /\ p + 1 \in 1..m
  BY <1>1, <1>2
<1> QED BY <1>2, <1>3, <1>4, <1>5 DEF LeftAt, u, m

LEMMA TailOfMore ==
  ASSUME NEW S, NEW x \in S, NEW s \in Seq(S)
  PROVE  Tail(<<x>> \o s) = s /\ Head(<<x>> \o s) = x /\ <<x>> \o s # <<>>
<1> DEFINE h == <<x>> \o s  t == Tail(h)
<1>1. <<x>> \in Seq(S) /\ Len(<<x>>) = 1 /\ <<x>>[1] = x
  OBVIOUS
<1>2. /\ h \in Seq(S) /\ Len(h) = 1 + Len(s) /\ h[1] = x
      /\ \A i \in 1..Len(s) : h[1 + i] = s[i]
  BY <1>1, ConcatFacts
<1> HIDE DEF h
<1>3. h # <<>>
  BY <1>2
<1>4. /\ t \in Seq(S) /\ Len(t) = Len(h) - 1 /\ Head(h) = h[1]
      /\ \A i \in 1..(Len(h) - 1) : t[i] = h[i + 1]
  BY <1>2, <1>3, TailFacts
<1> HIDE DEF t
<1>5. Len(t) = Len(s) /\ \A i \in 1..Len(t) : t[i] = s[i]
  BY <1>2, <1>4
<1>6. t = s
  BY <1>4, <1>5, SeqEqual
<1> QED BY <1>2, <1>3, <1>4, <1>6 DEF h, t

\* The statements of the fade, by what is left of it.
LEMMA FadeIs ==
  ASSUME NEW q \in Nat, NEW s \in 0..2, 3 * q + s + 1 \in 1..(3 * FadeSteps)
  PROVE  /\ s = 0 => Fade[3 * q + s + 1].do = "step"
         /\ s = 1 => Fade[3 * q + s + 1].do = "until"
         /\ s = 2 => Fade[3 * q + s + 1].do = "write" /\ Fade[3 * q + s + 1].field = "volume"
<1> DEFINE i == 3 * q + s + 1
<1>1. (s = 0 => i % 3 = 1) /\ (s = 1 => i % 3 = 2) /\ (s = 2 => i % 3 = 0)
  OBVIOUS
<1>2. i \in 1..(3 * FadeSteps)
  OBVIOUS
<1> HIDE DEF i
<1>3. Fade[i] = CASE i % 3 = 1 -> Lane("step") [] i % 3 = 2 -> Lane("until")
                  [] OTHER -> Write("volume", FadeValue(i \div 3))
  BY <1>2 DEF Fade
<1>4. CASE s = 0
  BY <1>1, <1>3, <1>4 DEF Lane, Stmt, i
<1>5. CASE s = 1
  BY <1>1, <1>3, <1>5 DEF Lane, Stmt, i
<1>6. CASE s = 2
  <2>1. Fade[i] = Write("volume", FadeValue(i \div 3))
    BY <1>1, <1>3, <1>6
  <2> QED BY <1>6, <2>1 DEF Write, Stmt, i
<1> QED BY <1>4, <1>5, <1>6

\* Where a fade stands when it does something.
LEMMA FadeStands ==
  ASSUME TypeInv, FadeInv, Fading, NEW do, do # "begin", Doing(do)
  PROVE  /\ Len(fade.written) \in Nat
         /\ \E s \in 0..2 :
              /\ Pace(Len(fade.written), s)
              /\ \/ /\ LeftAt(todo, 3 * Len(fade.written) + s)
                    /\ LeftAt(Tail(todo), 3 * Len(fade.written) + s + 1)
                    /\ s = 0 => do = "step"
                    /\ s = 1 => do = "until"
                    /\ s = 2 => do = "write" /\ This.field = "volume"
                 \/ s = 1 /\ do = "wait" /\ LeftAt(Tail(todo), 3 * Len(fade.written) + s)
<1> DEFINE q == Len(fade.written)
<1>1. q \in Nat
  BY DEF TypeInv, MemoOK
<1>2. todo # <<>> /\ answer = "none" /\ This = Head(todo) /\ This.do = do /\ todo # <<Lane("begin")>>
  <2>1. todo # <<>> /\ answer = "none" /\ Piece(todo) /\ This.do = do
    BY HeadIs
  <2>2. ~Piece(<<Lane("begin")>>)
    BY BeginIsNoPiece
  <2> QED BY <2>1, <2>2 DEF This
<1>3. PICK s \in 0..2 : FadeAt(q, s)
  BY <1>2 DEF FadeInv
<1> HIDE DEF q
<1>4. 3 * q + s \in Nat
  BY <1>1
<1>5. CASE LeftAt(todo, 3 * q + s)
  <2>1. /\ LeftAt(Tail(todo), 3 * q + s + 1) /\ Head(todo) = Fade[3 * q + s + 1]
        /\ 3 * q + s + 1 \in 1..(3 * FadeSteps)
    BY <1>2, <1>4, <1>5, LeftTail
  <2>2. /\ s = 0 => do = "step"
        /\ s = 1 => do = "until"
        /\ s = 2 => do = "write" /\ This.field = "volume"
    BY <1>1, <1>2, <2>1, FadeIs
  <2> QED BY <1>1, <1>3, <1>5, <2>1, <2>2 DEF q, FadeAt
<1>6. CASE s = 1 /\ Head(todo) = Wait /\ LeftAt(Tail(todo), 3 * q + s)
  BY <1>1, <1>2, <1>3, <1>6, WaitIs DEF q, FadeAt
<1> QED BY <1>3, <1>5, <1>6 DEF FadeAt

LEMMA Times ==
  ASSUME NEW q \in Nat
  PROVE  /\ q * Interval \in Nat /\ (q + 1) * Interval = q * Interval + Interval
         /\ 0 * Interval = 0
<1>1. Interval \in Nat
  BY Bounds
<1> QED BY <1>1

\* A statement of the fade done leads to the next.
LEMMA FadeGoes ==
  ASSUME TypeInv, FadeInv, Fading, NEW do, do # "begin", Doing(do), Proceed,
         NEW q \in Nat, q = Len(fade.written)
  PROVE  /\ do = "step" => fade.clock >= q * Interval /\ LeftAt(todo', 3 * q + 1)
         /\ do = "until" => fade.deadline >= (q + 1) * Interval /\ LeftAt(todo', 3 * q + 2)
         /\ do = "write" => fade.clock >= (q + 1) * Interval /\ LeftAt(todo', 3 * (q + 1))
         /\ do = "wait" => fade.deadline >= (q + 1) * Interval /\ LeftAt(todo', 3 * q + 1)
<1>1. PICK s \in 0..2 :
        /\ Pace(q, s)
        /\ \/ /\ LeftAt(Tail(todo), 3 * q + s + 1)
              /\ s = 0 => do = "step"
              /\ s = 1 => do = "until"
              /\ s = 2 => do = "write" /\ This.field = "volume"
           \/ s = 1 /\ do = "wait" /\ LeftAt(Tail(todo), 3 * q + s)
  BY FadeStands
<1>2. todo' = Tail(todo)
  BY DEF Proceed
<1>3. 3 * q + 2 + 1 = 3 * (q + 1) /\ 3 * q + 1 + 1 = 3 * q + 2 /\ 3 * q + 0 + 1 = 3 * q + 1
  OBVIOUS
<1>4. CASE s = 0
  BY <1>1, <1>2, <1>3, <1>4 DEF Pace
<1>5. CASE s = 1
  BY <1>1, <1>2, <1>3, <1>5 DEF Pace
<1>6. CASE s = 2
  BY <1>1, <1>2, <1>3, <1>6 DEF Pace
<1> QED BY <1>4, <1>5, <1>6

LEMMA LeftIsNoBegin ==
  ASSUME NEW p \in Nat, NEW t, LeftAt(t, p)
  PROVE  t # <<Lane("begin")>>
<1> SUFFICES ASSUME t = <<Lane("begin")>> PROVE FALSE
  OBVIOUS
<1>1. Len(t) = 1 /\ t[1].do = "begin" /\ t # <<>>
  BY DEF Lane, Stmt
<1>2. t[1] = Fade[p + 1] /\ p + 1 \in 1..(3 * FadeSteps)
  BY <1>1, LeftTail
<1>3. p + 1 \in DOMAIN Fade /\ Fade[p + 1].do # "begin"
  BY <1>2, FadePiece DEF Piece, Begun
<1> QED BY <1>1, <1>2, <1>3

LEMMA FadeStepKept ==
  ASSUME TypeInv, FadeInv, [Next]_vars
  PROVE  FadeInv'
<1>1. CASE UNCHANGED vars
  <2>1. UNCHANGED <<cmd, todo, answer, fade>>
    BY <1>1 DEF vars
  <2> QED BY <2>1 DEF FadeInv, Fading, FadeAt, Pace, LeftAt
<1>2. CASE Next
  <2>1. cmd' = cmd
    BY <1>2, CmdStays
  <2>15. fade \in [clock : Nat, deadline : Nat, written : Seq(Nat)]
    BY DEF TypeInv, MemoOK
  <2>16. PICK q \in Nat : q = Len(fade.written)
    BY <2>15
  <2>2. q \in Nat /\ q = Len(fade.written) /\ fade \in [clock : Nat, deadline : Nat, written : Seq(Nat)]
    BY <2>15, <2>16
  <2> SUFFICES ASSUME Fading
               PROVE  /\ \A k \in 1..Len(fade'.written) : fade'.written[k] >= k * Interval
                      /\ todo' = <<Lane("begin")>> => fade'.written = <<>>
                      /\ answer' = "none" /\ todo' # <<Lane("begin")>> =>
                           \E s \in 0..2 : FadeAt(Len(fade.written), s)'
                      /\ answer' = "ok" => Len(fade'.written) = FadeSteps
    BY <2>1 DEF FadeInv, Fading
  <2>3. \A k \in 1..q : fade.written[k] >= k * Interval
    BY <2>2 DEF FadeInv
  <2>4. ASSUME NEW s \in 0..2, fade'.written = fade.written, answer' = answer,
               LeftAt(todo', 3 * q + s), Pace(q, s)'
        PROVE  /\ todo' # <<Lane("begin")>> /\ FadeAt(Len(fade.written), s)'
               /\ answer' = "ok" => Len(fade'.written) = FadeSteps
    <3>1. todo' # <<Lane("begin")>>
      BY <2>2, <2>4, LeftIsNoBegin
    <3> QED BY <2>2, <2>4, <3>1 DEF FadeAt, FadeInv
  <2>5. CASE Begin
    <3>1. fade' = fade /\ todo = <<Lane("begin")>>
      BY <2>5, BeginLeaves
    <3>2. CASE todo' = <<>> /\ answer' = "refused"
      BY <2>2, <2>3, <3>1, <3>2
    <3>3. CASE todo' = Handler(cmd) /\ answer' = "none"
      <4>1. Handler(cmd) = Fade
        <5>1. cmd \in Commands /\ cmd.op = "live_fade" /\ cmd.seconds > 0
          BY DEF TypeInv, Fading
        <5>2. cmd.seconds # 0
          BY <5>1
        <5> QED BY <5>1, <5>2, HandlerOf
      <4>2. q = 0 /\ fade.written = <<>>
        BY <2>2, <3>1 DEF FadeInv
      <4>3. LeftAt(Fade, 3 * q + 0)
        <5>1. Fade \in Seq(Stmts) /\ DOMAIN Fade = 1..(3 * FadeSteps) /\ 3 * FadeSteps \in Nat
          BY FadePiece, Bounds DEF Piece
        <5>2. Len(Fade) = 3 * FadeSteps
          BY <5>1
        <5>3. 3 * q + 0 = 0
          BY <4>2
        <5> QED BY <5>1, <5>2, <5>3 DEF LeftAt
      <4>4. Pace(q, 0)'
        BY <2>2, <3>1, <4>2, Times DEF Pace
      <4>5. todo' # <<Lane("begin")>>
        BY <3>3, <4>1, FadePiece, BeginIsNoPiece
      <4>6. FadeAt(Len(fade.written), 0)'
        BY <2>2, <3>1, <3>3, <4>1, <4>3, <4>4 DEF FadeAt
      <4> QED BY <2>2, <2>3, <3>1, <3>3, <4>5, <4>6
    <3> QED BY <2>5, <3>2, <3>3, BeginLeaves
  <2>6. CASE FadeStep
    <3>1. Doing("step") /\ Proceed /\ fade' = [fade EXCEPT !.deadline = fade.clock + Interval]
      BY <2>6 DEF FadeStep
    <3>2. fade.clock >= q * Interval /\ LeftAt(todo', 3 * q + 1)
      BY <2>2, <3>1, FadeGoes
    <3>3. fade'.written = fade.written /\ fade'.deadline = fade.clock + Interval /\ answer' = answer
      BY <2>2, <3>1 DEF Proceed
    <3>4. fade'.deadline >= (q + 1) * Interval
      BY <2>2, <3>2, <3>3, Times, Bounds
    <3>5. Pace(q, 1)'
      BY <3>4 DEF Pace
    <3> QED BY <2>2, <2>3, <2>4, <3>2, <3>3, <3>5
  <2>7. CASE FadeUntil
    <3>1. Doing("until") /\ fade' = fade
      BY <2>7 DEF FadeUntil, Memo
    <3>2. CASE fade.clock < fade.deadline /\ todo' = <<Wait>> \o todo /\ answer' = answer
      <4>1. PICK s \in 0..2 : /\ Pace(q, s)
                              /\ \/ LeftAt(todo, 3 * q + s) /\ (s = 0 => FALSE) /\ (s = 2 => FALSE)
                                 \/ FALSE
        BY <2>2, <3>1, FadeStands
      <4>2. s = 1 /\ LeftAt(todo, 3 * q + s) /\ Pace(q, s)
        BY <4>1
      <4>3. todo \in Seq(Stmts) /\ Wait \in Stmts
        BY <4>2, WaitIs DEF LeftAt
      <4>4. Tail(todo') = todo /\ Head(todo') = Wait /\ todo' # <<>>
        BY <3>2, <4>3, TailOfMore
      <4>5. todo' # <<Lane("begin")>>
        BY <4>4, WaitIs DEF Lane, Stmt
      <4>6. FadeAt(Len(fade.written), 1)'
        BY <2>2, <3>1, <4>2, <4>4 DEF FadeAt, Pace
      <4> QED BY <2>2, <2>3, <3>1, <3>2, <4>5, <4>6 DEF Doing
    <3>3. CASE ~(fade.clock < fade.deadline) /\ Proceed
      <4>1. fade.deadline >= (q + 1) * Interval /\ LeftAt(todo', 3 * q + 2)
        BY <2>2, <3>1, <3>3, FadeGoes
      <4>2. (q + 1) * Interval \in Nat
        BY <2>2, Times
      <4>3. Pace(q, 2)'
        BY <2>2, <3>1, <3>3, <4>1, <4>2 DEF Pace
      <4> QED BY <2>2, <2>3, <2>4, <3>1, <3>3, <4>1, <4>3 DEF Proceed
    <3> QED BY <2>7, <3>2, <3>3 DEF FadeUntil
  <2>8. CASE TickPasses
    <3>1. Doing("wait") /\ Proceed /\ fade' = [fade EXCEPT !.clock = @ + TickTime]
      BY <2>8 DEF TickPasses, Fading
    <3>2. fade.deadline >= (q + 1) * Interval /\ LeftAt(todo', 3 * q + 1)
      BY <2>2, <3>1, FadeGoes
    <3>3. fade'.written = fade.written /\ fade'.deadline = fade.deadline /\ answer' = answer
      BY <2>2, <3>1 DEF Proceed
    <3>4. Pace(q, 1)'
      BY <3>2, <3>3 DEF Pace
    <3> QED BY <2>2, <2>3, <2>4, <3>2, <3>3, <3>4
  <2>9. CASE WriteProperty
    <3>1. Doing("write")
      BY <2>9 DEF WriteProperty
    <3>2. This.field = "volume"
      BY <3>1, FadeStands
    <3>3. Proceed /\ fade' = [fade EXCEPT !.written = Append(@, fade.clock)]
      BY <2>9, <3>2 DEF WriteProperty, Fits
    <3>4. fade.clock >= (q + 1) * Interval /\ LeftAt(todo', 3 * (q + 1))
      BY <2>2, <3>1, <3>3, FadeGoes
    <3>5. /\ fade'.written = Append(fade.written, fade.clock) /\ fade'.clock = fade.clock
          /\ answer' = answer
      BY <2>2, <3>3 DEF Proceed
    <3>6. /\ Len(fade'.written) = q + 1 /\ fade'.written[q + 1] = fade.clock
          /\ \A k \in 1..q : fade'.written[k] = fade.written[k]
      BY <2>2, <3>5
    <3>7. \A k \in 1..Len(fade'.written) : fade'.written[k] >= k * Interval
      <4> TAKE k \in 1..Len(fade'.written)
      <4>1. k \in 1..q \/ k = q + 1
        BY <2>2, <3>6
      <4> QED BY <2>3, <3>4, <3>6, <4>1
    <3>8. Pace(q + 1, 0)'
      BY <3>4, <3>5 DEF Pace
    <3>9. 3 * (q + 1) \in Nat /\ 3 * (q + 1) = 3 * (q + 1) + 0
      BY <2>2
    <3>10. LeftAt(todo', 3 * (q + 1) + 0)
      BY <3>4, <3>9
    <3>11. FadeAt(Len(fade.written), 0)'
      BY <3>6, <3>8, <3>10 DEF FadeAt
    <3>12. todo' # <<Lane("begin")>>
      BY <3>4, <3>9, LeftIsNoBegin
    <3> QED BY <3>1, <3>5, <3>7, <3>11, <3>12 DEF Doing
  <2>10. CASE Reply
    <3>1. answer = "none" /\ todo = <<>> /\ answer' = "ok" /\ todo' = todo /\ fade' = fade
      BY <2>10 DEF Reply, Memo
    <3>2. PICK s \in 0..2 : FadeAt(q, s)
      BY <2>2, <3>1 DEF FadeInv
    <3>3. LeftAt(todo, 3 * q + s)
      BY <3>1, <3>2 DEF FadeAt
    <3>4. 0 = 3 * FadeSteps - (3 * q + s)
      BY <3>1, <3>3 DEF LeftAt
    <3>5. q = FadeSteps
      BY <2>2, <3>4, Bounds
    <3> QED BY <2>2, <2>3, <3>1, <3>5
  <2>11. CASE Raises
    <3>1. answer' = "raised" /\ fade' = fade /\ todo' = <<>>
      BY <2>11 DEF Raises, Answered, Memo
    <3> QED BY <2>2, <2>3, <3>1
  <2>12. CASE UserEdits \/ Quits
    <3>1. UNCHANGED <<cmd, todo, answer, fade>>
      BY <2>1, <2>12 DEF UserEdits, Quits, Memo
    <3> QED BY <3>1 DEF FadeInv, FadeAt, Pace, LeftAt
  <2>13. CASE RefuseNow \/ CallMethod \/ Obtain \/ HasEnvelopes \/ ReadBack
    <3>1. PICK do \in {"refuse", "call", "obtain", "has_envelopes", "see"} : Doing(do)
      BY <2>13 DEF RefuseNow, CallMethod, Obtain, HasEnvelopes, ReadBack
    <3> QED BY <3>1, FadeStands
  <2>14. CASE CopyClip \/ Copied \/ RemoveClip \/ Removed \/ CreateTrack \/ NameTrack
    <3>1. PICK do \in {"copy", "copied", "remove", "removed", "create", "name"} : Doing(do)
      BY <2>14 DEF CopyClip, Copied, RemoveClip, Removed, CreateTrack, NameTrack
    <3> QED BY <3>1, FadeStands
  <2> QED
    BY <1>2, <2>5, <2>6, <2>7, <2>8, <2>9, <2>10, <2>11, <2>12, <2>13, <2>14 DEF Next, Step
<1> QED BY <1>1, <1>2

\* However Live's ticks fall against the interval, no step of a fade is written before its
\* time, and a fade that succeeds has written all of them (lifecycle.py:217-230).
THEOREM FadesKeepPace == Spec => []FadeKeepsPace
<1>1. Init => FadeInv
  <2> SUFFICES ASSUME Init PROVE FadeInv
    OBVIOUS
  <2>1. fade.written = <<>> /\ todo = <<Lane("begin")>> /\ answer = "none"
    BY DEF Init
  <2> QED BY <2>1 DEF FadeInv
<1>2. TypeInv /\ FadeInv /\ [Next]_vars => FadeInv'
  BY FadeStepKept
<1>3. TypeInv /\ FadeInv => FadeKeepsPace
  <2> SUFFICES ASSUME TypeInv, FadeInv PROVE FadeKeepsPace
    OBVIOUS
  <2>1. DOMAIN fade.written = 1..Len(fade.written)
    BY DEF TypeInv, MemoOK
  <2> QED BY <2>1 DEF FadeInv, Fading, FadeKeepsPace
<1> QED BY <1>1, <1>2, <1>3, AlwaysTyped, PTL DEF Spec

-------------------------------------------------------------------------------
(*************************** what is read back *****************************)
\* No statement writes or reads another value of the field of w.
Straight(h, w) ==
  \A i \in DOMAIN h : h[i].do \in {"write", "see"} /\ h[i].field = w[1] => h[i].value = w[2]

LEMMA StraightConcat ==
  ASSUME NEW s \in Seq(Stmts), NEW t \in Seq(Stmts), NEW w, Straight(s, w), Straight(t, w)
  PROVE  Straight(s \o t, w)
<1> SUFFICES ASSUME NEW i \in DOMAIN (s \o t), (s \o t)[i].do \in {"write", "see"},
                    (s \o t)[i].field = w[1]
             PROVE  (s \o t)[i].value = w[2]
  BY DEF Straight
<1>1. \/ i \in DOMAIN s /\ (s \o t)[i] = s[i]
      \/ i - Len(s) \in DOMAIN t /\ (s \o t)[i] = t[i - Len(s)]
  BY ConcatFrom
<1> QED BY <1>1 DEF Straight

LEMMA OnlyIsStraight ==
  ASSUME NEW h, NEW w, Only(h, w)
  PROVE  Straight(h, w)
  BY DEF Only, Straight

LEMMA OneStatement ==
  ASSUME NEW x, NEW w
  PROVE  /\ x.field # w[1] \/ x.value = w[2] => Only(<<x>>, w)
         /\ x.do \in {"see", "call"} /\ x.field = w[1] /\ x.value = w[2] => Pending(<<x>>, w)
         /\ Only(<<>>, w)
<1>1. DOMAIN <<x>> = {1} /\ <<x>>[1] = x
  OBVIOUS
<1> DEFINE h == <<x>>
<1> HIDE DEF h
<1>2. DOMAIN h = {1} /\ h[1] = x
  BY <1>1 DEF h
<1>3. x.field # w[1] \/ x.value = w[2] => Only(h, w)
  BY <1>2 DEF Only
<1>4. x.do \in {"see", "call"} /\ x.field = w[1] /\ x.value = w[2] => Pending(h, w)
  BY <1>2 DEF Pending
<1>5. Only(<<>>, w)
  BY DEF Only
<1> QED BY <1>3, <1>4, <1>5 DEF h

\* h comes to show w, and has nothing else in mind for its field.
Meets(h, w) == Pending(h, w) /\ Straight(h, w)

LEMMA VerifiedMeets ==
  ASSUME NEW f \in Fields \ {"saved", "quit"}, NEW v \in Nat, NEW n \in Nat \ {0}
  PROVE  Meets(Verified(f, v, n), <<f, v>>)
  BY VerifiedPending, OnlyIsStraight DEF Meets

LEMMA MeetsLeft ==
  ASSUME NEW s \in Seq(Stmts), NEW t \in Seq(Stmts), NEW w, Meets(s, w), Only(t, w)
  PROVE  Meets(s \o t, w)
  BY PendingLeft, StraightConcat, OnlyIsStraight DEF Meets

LEMMA MeetsRight ==
  ASSUME NEW s \in Seq(Stmts), NEW t \in Seq(Stmts), NEW w, Meets(t, w), Straight(s, w)
  PROVE  Meets(s \o t, w)
  BY PendingRight, StraightConcat DEF Meets

LEMMA ClipMeets ==
  ASSUME NEW c \in Commands, c.op = "set_clip_properties",
         NEW w \in {v \in {<<"loopStart", c.start>>, <<"loopEnd", c.end>>} : v[2] # -1}
                     \cup (IF c.name THEN {<<"clipName", Asked>>} ELSE {})
  PROVE  Meets(ClipProperties(c), w)
<1> DEFINE S == StartOf(c)  E == EndOf(c)  N == NameOf(c)
<1>1. /\ S \in Seq(Stmts) /\ E \in Seq(Stmts) /\ N \in Seq(Stmts)
      /\ ClipProperties(c) = (E \o S) \o N \/ ClipProperties(c) = (S \o E) \o N
  BY ClipParts DEF Piece
<1>2. c.start \in Beats \cup {-1} /\ c.end \in Beats \cup {-1}
  BY ClipTypes
<1>3. {"loopStart", "loopEnd", "clipName"} \subseteq Fields \ {"saved", "quit"} /\ Asked \in Nat
  BY DEF Fields, Asked
<1>4. /\ w[1] # "loopStart" => Only(S, w)
      /\ w[1] # "loopEnd" => Only(E, w)
      /\ w[1] # "clipName" => Only(N, w)
  <2>1. w[1] \in {"loopStart", "loopEnd", "clipName"}
    OBVIOUS
  <2>2. w[1] # "lane"
    BY <2>1
  <2>3. w[1] # "loopStart" => Only(S, w)
    <3>1. c.start # -1 => c.start \in Nat
      BY <1>2 DEF Beats
    <3>2. c.start # -1 /\ w[1] # "loopStart" => Only(Verified("loopStart", c.start, Retries), w)
      BY <1>3, <2>2, <3>1, VerifiedPending, Bounds
    <3> QED BY <3>2, OneStatement DEF StartOf
  <2>4. w[1] # "loopEnd" => Only(E, w)
    <3>1. c.end # -1 => c.end \in Nat
      BY <1>2 DEF Beats
    <3>2. c.end # -1 /\ w[1] # "loopEnd" => Only(Verified("loopEnd", c.end, Retries), w)
      BY <1>3, <2>2, <3>1, VerifiedPending, Bounds
    <3> QED BY <3>2, OneStatement DEF EndOf
  <2>5. w[1] # "clipName" => Only(N, w)
    BY <1>3, <2>2, OneStatement, VerifiedPending, Bounds DEF NameOf
  <2> QED BY <2>3, <2>4, <2>5
<1>5. CASE w = <<"loopStart", c.start>> /\ c.start # -1
  <2>1. Meets(S, w)
    BY <1>2, <1>3, <1>5, VerifiedMeets, Bounds DEF StartOf, Beats
  <2>2. Only(E, w) /\ Only(N, w)
    BY <1>4, <1>5
  <2> HIDE DEF S, E, N
  <2>3. S \o E \in Seq(Stmts) /\ E \o S \in Seq(Stmts)
    BY <1>1, ConcatFacts
  <2>4. Meets(S \o E, w) /\ Meets(E \o S, w)
    BY <1>1, <2>1, <2>2, MeetsLeft, MeetsRight, OnlyIsStraight
  <2> QED BY <1>1, <2>2, <2>3, <2>4, MeetsLeft
<1>6. CASE w = <<"loopEnd", c.end>> /\ c.end # -1
  <2>1. Meets(E, w)
    BY <1>2, <1>3, <1>6, VerifiedMeets, Bounds DEF EndOf, Beats
  <2>2. Only(S, w) /\ Only(N, w)
    BY <1>4, <1>6
  <2> HIDE DEF S, E, N
  <2>3. S \o E \in Seq(Stmts) /\ E \o S \in Seq(Stmts)
    BY <1>1, ConcatFacts
  <2>4. Meets(S \o E, w) /\ Meets(E \o S, w)
    BY <1>1, <2>1, <2>2, MeetsLeft, MeetsRight, OnlyIsStraight
  <2> QED BY <1>1, <2>2, <2>3, <2>4, MeetsLeft
<1>7. CASE w = <<"clipName", Asked>> /\ c.name
  <2>1. Meets(N, w)
    BY <1>3, <1>7, VerifiedMeets, Bounds DEF NameOf
  <2>2. Only(S, w) /\ Only(E, w)
    BY <1>4, <1>7
  <2> HIDE DEF S, E, N
  <2>3. S \o E \in Seq(Stmts) /\ E \o S \in Seq(Stmts)
    BY <1>1, ConcatFacts
  <2>4. Straight(S \o E, w) /\ Straight(E \o S, w)
    BY <1>1, <2>2, StraightConcat, OnlyIsStraight
  <2> QED BY <1>1, <2>1, <2>3, <2>4, MeetsRight
<1> QED BY <1>5, <1>6, <1>7

LEMMA PlacedMeets ==
  ASSUME NEW c, NEW w \in (IF c.name THEN {<<"placedName", Asked>>} ELSE {})
                            \cup (IF c.muted = "boolean" THEN {<<"placedMuted", Asked>>} ELSE {})
  PROVE  Meets(PlacedProperties(c), w)
<1> DEFINE A == PlacedWrites(c)  B == PlacedRefusal(c)  D == PlacedMutes(c)
           E == PlacedSees(c)  F == PlacedSeesMuted(c)
<1>1. /\ A \in Seq(Stmts) /\ B \in Seq(Stmts) /\ D \in Seq(Stmts) /\ E \in Seq(Stmts) /\ F \in Seq(Stmts)
      /\ <<Wait>> \in Seq(Stmts)
      /\ PlacedProperties(c) = (((A \o B) \o D) \o <<Wait>>) \o (E \o F)
  BY PlacedParts DEF Piece
<1>2. w[1] \in {"placedName", "placedMuted"} /\ w[2] = Asked
  OBVIOUS
<1>3. Only(A, w) /\ Only(B, w) /\ Only(D, w) /\ Only(E, w) /\ Only(F, w) /\ Only(<<Wait>>, w)
  <2>1. /\ \A f : Write(f, Asked).value = Asked /\ See(f, Asked, 0).value = Asked
        /\ Lane("refuse").field # w[1] /\ Wait.field # w[1]
    BY <1>2, WaitIs DEF Write, See, Lane, Stmt
  <2>2. \A f : Only(<<Write(f, Asked)>>, w) /\ Only(<<See(f, Asked, 0)>>, w)
    BY <1>2, <2>1, OneStatement
  <2>3. Only(<<Lane("refuse")>>, w) /\ Only(<<Wait>>, w) /\ Only(<<>>, w)
    BY <2>1, OneStatement
  <2> QED BY <2>2, <2>3 DEF PlacedWrites, PlacedRefusal, PlacedMutes, PlacedSees, PlacedSeesMuted
<1>4. Meets(E, w) \/ Meets(F, w)
  <2>1. \A f : /\ See(f, Asked, 0).do = "see" /\ See(f, Asked, 0).field = f
               /\ See(f, Asked, 0).value = Asked
    BY DEF See, Stmt
  <2>2. CASE w = <<"placedName", Asked>> /\ c.name
    <3>1. Pending(<<See("placedName", Asked, 0)>>, w) /\ Only(<<See("placedName", Asked, 0)>>, w)
      BY <2>1, <2>2, OneStatement
    <3> QED BY <2>2, <3>1, OnlyIsStraight DEF PlacedSees, Meets
  <2>3. CASE w = <<"placedMuted", Asked>> /\ c.muted = "boolean"
    <3>1. Pending(<<See("placedMuted", Asked, 0)>>, w) /\ Only(<<See("placedMuted", Asked, 0)>>, w)
      BY <2>1, <2>3, OneStatement
    <3> QED BY <2>3, <3>1, OnlyIsStraight DEF PlacedSeesMuted, Meets
  <2> QED BY <2>2, <2>3
<1> HIDE DEF A, B, D, E, F
<1>5. Straight(A \o B, w) /\ A \o B \in Seq(Stmts)
  BY <1>1, <1>3, StraightConcat, OnlyIsStraight, ConcatFacts
<1>6. Straight((A \o B) \o D, w) /\ (A \o B) \o D \in Seq(Stmts)
  BY <1>1, <1>3, <1>5, StraightConcat, OnlyIsStraight, ConcatFacts
<1>7. Straight(((A \o B) \o D) \o <<Wait>>, w) /\ ((A \o B) \o D) \o <<Wait>> \in Seq(Stmts)
  BY <1>1, <1>3, <1>6, StraightConcat, OnlyIsStraight, ConcatFacts
<1>8. Meets(E \o F, w) /\ E \o F \in Seq(Stmts)
  BY <1>1, <1>3, <1>4, MeetsLeft, MeetsRight, OnlyIsStraight, ConcatFacts
<1> QED BY <1>1, <1>7, <1>8, MeetsRight

LEMMA AutomationMeets ==
  ASSUME NEW n \in Nat \ {0}
  PROVE  Meets(Automation(n), <<"envelope", Cleared + n>>)
<1> DEFINE w == <<"envelope", Cleared + n>>
           h == [i \in 1..n |-> Call("envelope", Cleared + i)]
           x == Call("envelope", Cleared)  y == Lane("obtain")  z == Lane("has_envelopes")
<1>1. /\ h \in Seq(Stmts) /\ <<x, y>> \in Seq(Stmts) /\ <<Wait, z>> \in Seq(Stmts)
      /\ Automation(n) = (<<x, y>> \o h) \o <<Wait, z>>
  BY AutomationPiece DEF Piece, Automation
<1>2. Meets(h, w)
  <2>1. DOMAIN h = 1..n /\ \A i \in 1..n : h[i] = Call("envelope", Cleared + i)
    OBVIOUS
  <2>2. \A v : Call("envelope", v).do = "call" /\ Call("envelope", v).field = "envelope"
               /\ Call("envelope", v).value = v
    BY DEF Call, Stmt
  <2> HIDE DEF h
  <2>3. n \in DOMAIN h /\ \A j \in DOMAIN h : ~(j > n)
    BY <2>1
  <2>4. w[1] = "envelope" /\ w[2] = Cleared + n
    OBVIOUS
  <2> HIDE DEF w
  <2>5. Pending(h, w)
    BY <2>1, <2>2, <2>3, <2>4 DEF Pending
  <2>6. Straight(h, w)
    BY <2>1, <2>2 DEF Straight
  <2> QED BY <2>5, <2>6 DEF Meets
<1>3. Straight(<<x, y>>, w)
  <2>1. x.do = "call" /\ y.do = "obtain"
    BY DEF Call, Lane, Stmt
  <2> HIDE DEF x, y, w
  <2> QED BY <2>1 DEF Straight
<1>4. Only(<<Wait, z>>, w)
  <2>1. Wait.field = "lane" /\ z.field = "lane" /\ w[1] = "envelope"
    BY WaitIs DEF Lane, Stmt
  <2> HIDE DEF z, w
  <2> QED BY <2>1 DEF Only
<1> HIDE DEF h, x, y, z, w
<1>5. Meets(<<x, y>> \o h, w) /\ <<x, y>> \o h \in Seq(Stmts)
  BY <1>1, <1>2, <1>3, MeetsRight, ConcatFacts
<1>6. Meets(Automation(n), w)
  BY <1>1, <1>4, <1>5, MeetsLeft
<1> QED BY <1>6 DEF w

(*************************** the points of a curve *************************)
LEMMA GreatestNat ==
  ASSUME NEW n \in Nat, NEW T \in SUBSET (1..n), T # {}
  PROVE  \E x \in T : \A y \in T : y <= x
<1> DEFINE U == {n - x : x \in T}
<1>1. U \in SUBSET Nat /\ U # {}
  <2>1. \A x \in T : n - x \in Nat
    OBVIOUS
  <2>2. U \subseteq Nat
    BY <2>1
  <2>3. U # {}
    OBVIOUS
  <2> QED BY <2>2, <2>3
<1>2. PICK u \in U : \A v \in U : ~(<<v, u>> \in OpToRel(<, Nat))
  BY <1>1, NatLessThanWellFounded, WFMin, Zenon
<1>3. \A v \in U : ~(v < u)
  BY <1>1, <1>2 DEF OpToRel
<1>4. PICK x \in T : u = n - x
  OBVIOUS
<1>5. \A y \in T : n - y \in U
  OBVIOUS
<1> HIDE DEF U
<1>6. \A y \in T : y <= x
  <2> TAKE y \in T
  <2>1. ~(n - y < n - x)
    BY <1>3, <1>4, <1>5
  <2> QED BY <2>1
<1> QED BY <1>4, <1>6

Sorted(times) == \A i, j \in 1..Len(times) : i <= j => times[i] <= times[j]

\* A curve comes to as many steps as there are times for its points: those of the control
\* points if it is held, every one from the first to the last otherwise.
LEMMA ExpandedCounts ==
  ASSUME NEW times \in Seq(Nat), Len(times) > 1, Sorted(times), NEW hold \in BOOLEAN
  PROVE  Cardinality(Expanded(times, hold)) =
           Cardinality(IF hold THEN ToSet(times) ELSE times[1]..Last(times))
<1> DEFINE n == Len(times)
           Span(i) == times[i + 1] - times[i]
           Many(i) == IF hold /\ Span(i) > 0 THEN 1 ELSE Span(i)
           S == Expanded(times, hold)
           T == IF hold THEN ToSet(times) ELSE times[1]..Last(times)
           f == [p \in S |-> times[p[1]] + p[2] - 1]
<1>1. n \in Nat /\ n > 1 /\ \A i \in 1..n : times[i] \in Nat
  OBVIOUS
<1>2. \A i, j \in 1..n : i <= j => times[i] <= times[j]
  BY DEF Sorted
<1>3. S = {<<n, 1>>} \cup UNION {{<<i, k>> : k \in 1..Many(i)} : i \in 1..(n - 1)}
  BY DEF Expanded
<1>4. ASSUME NEW i \in 1..(n - 1)
      PROVE  /\ i \in 1..n /\ i + 1 \in 1..n /\ times[i] \in Nat /\ times[i + 1] \in Nat
             /\ times[i] <= times[i + 1] /\ Span(i) = times[i + 1] - times[i] /\ Span(i) \in Nat
             /\ Many(i) = (IF hold /\ Span(i) > 0 THEN 1 ELSE Span(i)) /\ Many(i) \in 0..Span(i)
  BY <1>1, <1>2
<1> HIDE DEF n, Span, Many
\* Where a step is.
<1>5. \A p : p \in S <=> \/ p = <<n, 1>>
                         \/ \E i \in 1..(n - 1) : \E k \in 1..Many(i) : p = <<i, k>>
  BY <1>3
<1>6. T = IF hold THEN {times[i] : i \in 1..n} ELSE times[1]..times[n]
  <2>1. DOMAIN times = 1..n
    BY DEF n
  <2>2. ToSet(times) = {times[i] : i \in 1..n}
    BY <2>1 DEF ToSet
  <2>3. Last(times) = times[n]
    BY DEF Last, n
  <2> QED BY <2>2, <2>3
<1> HIDE DEF S, T
<1>7. \A p \in S : f[p] = times[p[1]] + p[2] - 1
  OBVIOUS
<1> HIDE DEF f
<1>8. ASSUME NEW p \in S
      PROVE  /\ p[1] \in 1..n /\ p[2] \in Nat \ {0} /\ p = <<p[1], p[2]>>
             /\ f[p] \in Nat /\ times[p[1]] <= f[p] /\ f[p] <= times[n]
             /\ p[1] < n => f[p] < times[p[1] + 1] /\ (hold => p[2] = 1)
             /\ p[1] = n => p[2] = 1
  <2>1. CASE p = <<n, 1>>
    BY <1>1, <1>7, <2>1
  <2>2. CASE \E i \in 1..(n - 1) : \E k \in 1..Many(i) : p = <<i, k>>
    <3>10. PICK i \in 1..(n - 1) : \E k \in 1..Many(i) : p = <<i, k>>
      BY <2>2
    <3>1. PICK k \in 1..Many(i) : p = <<i, k>>
      BY <3>10
    <3>2. p[1] = i /\ p[2] = k /\ f[p] = times[i] + k - 1
      BY <1>7, <3>1
    <3>3. k \in Nat \ {0} /\ k <= times[i + 1] - times[i]
      BY <1>4
    <3>4. hold => k = 1
      BY <1>4, <3>3
    <3>5. times[i + 1] <= times[n] /\ times[i] \in Nat /\ times[i + 1] \in Nat /\ times[n] \in Nat
      BY <1>1, <1>2, <1>4
    <3>6. i < n /\ i \in 1..n
      BY <1>1
    <3>7. f[p] \in Nat /\ times[i] <= f[p] /\ f[p] < times[i + 1] /\ f[p] <= times[n]
      <4> DEFINE a == times[i]  b == times[i + 1]  e == times[n]
      <4>1. a \in Nat /\ b \in Nat /\ e \in Nat /\ b <= e /\ k <= b - a
        BY <3>3, <3>5
      <4> HIDE DEF a, b, e
      <4>2. a + k - 1 \in Nat /\ a <= a + k - 1 /\ a + k - 1 < b /\ a + k - 1 <= e
        BY <3>3, <4>1
      <4> QED BY <3>2, <4>2 DEF a, b, e
    <3> QED BY <3>1, <3>2, <3>3, <3>4, <3>6, <3>7
  <2> QED BY <1>5, <2>1, <2>2
<1>9. ASSUME NEW p \in S, NEW r \in S, p[1] < r[1]
      PROVE  f[p] < f[r]
  <2>1. p[1] \in 1..n /\ r[1] \in 1..n /\ p[1] < n /\ p[1] + 1 <= r[1] /\ p[1] + 1 \in 1..n
    BY <1>1, <1>8, <1>9
  <2>2. f[p] < times[p[1] + 1] /\ times[p[1] + 1] <= times[r[1]] /\ times[r[1]] <= f[r]
    BY <1>2, <1>8, <2>1
  <2>3. f[p] \in Nat /\ f[r] \in Nat /\ times[p[1] + 1] \in Nat /\ times[r[1]] \in Nat
    BY <1>1, <1>8, <2>1
  <2> QED BY <2>2, <2>3
<1>10. ASSUME NEW p \in S, NEW r \in S, f[p] = f[r]
       PROVE  p = r
  <2>1. /\ p[1] \in 1..n /\ r[1] \in 1..n /\ p[2] \in Nat /\ r[2] \in Nat
        /\ p = <<p[1], p[2]>> /\ r = <<r[1], r[2]>> /\ f[p] \in Nat /\ f[r] \in Nat
    BY <1>8
  <2>2. ~(p[1] < r[1]) /\ ~(r[1] < p[1])
    BY <1>9, <1>10, <2>1
  <2>3. p[1] = r[1]
    BY <1>1, <2>1, <2>2
  <2>4. times[p[1]] + p[2] - 1 = times[p[1]] + r[2] - 1 /\ times[p[1]] \in Nat
    BY <1>1, <1>7, <1>10, <2>1, <2>3
  <2>5. p[2] = r[2]
    BY <2>1, <2>4
  <2> QED BY <2>1, <2>3, <2>5
<1>11. ASSUME NEW p \in S
       PROVE  f[p] \in T
  <2>1. CASE hold
    <3>1. p[2] = 1 /\ p[1] \in 1..n
      BY <1>1, <1>8, <2>1
    <3>2. f[p] = times[p[1]]
      BY <1>1, <1>7, <3>1
    <3> QED BY <1>6, <2>1, <3>1, <3>2
  <2>2. CASE ~hold
    <3>1. p[1] \in 1..n /\ f[p] \in Nat /\ times[p[1]] <= f[p] /\ f[p] <= times[n]
      BY <1>8
    <3>2. times[1] <= times[p[1]] /\ times[1] \in Nat /\ times[p[1]] \in Nat /\ times[n] \in Nat
      BY <1>1, <1>2, <3>1
    <3>3. f[p] \in times[1]..times[n]
      BY <3>1, <3>2
    <3> QED BY <1>6, <2>2, <3>3
  <2> QED BY <2>1, <2>2
<1>12. ASSUME NEW v \in T
       PROVE  \E p \in S : f[p] = v
  <2>1. v \in Nat /\ times[1] <= v /\ v <= times[n] /\ (hold => \E i \in 1..n : v = times[i])
    BY <1>1, <1>2, <1>6
  <2> DEFINE U == {i \in 1..n : times[i] <= v}
  <2>2. U \in SUBSET (1..n) /\ U # {}
    BY <1>1, <2>1
  <2>3. PICK i \in U : \A j \in U : j <= i
    BY <1>1, <2>2, GreatestNat
  <2>4. i \in 1..n /\ times[i] <= v /\ \A j \in 1..n : times[j] <= v => j <= i
    BY <2>3
  <2> HIDE DEF U
  <2>5. CASE i = n
    <3>1. v = times[n] /\ <<n, 1>> \in S
      BY <1>1, <1>5, <2>1, <2>4, <2>5
    <3>2. f[<<n, 1>>] = v
      BY <1>1, <1>7, <3>1
    <3> QED BY <3>1, <3>2
  <2>6. CASE i # n
    <3>1. i \in 1..(n - 1)
      BY <1>1, <2>4, <2>6
    <3>2. i + 1 \in 1..n /\ times[i] \in Nat /\ times[i + 1] \in Nat /\ i + 1 > i /\ i \in Nat
      BY <1>4, <3>1
    <3>3. v < times[i + 1]
      BY <2>1, <2>4, <3>2
    <3> DEFINE k == v - times[i] + 1
    <3>4. k \in Nat \ {0} /\ k <= Span(i) /\ Span(i) > 0
      <4>1. Span(i) = times[i + 1] - times[i]
        BY <1>4, <3>1
      <4>2. PICK x \in Nat, y \in Nat : x = times[i] /\ y = times[i + 1]
        BY <3>2
      <4>3. v \in Nat /\ x <= v /\ v < y
        BY <2>1, <2>4, <3>3, <4>2
      <4>4. v - x + 1 \in Nat \ {0} /\ v - x + 1 <= y - x /\ y - x > 0
        BY <4>3
      <4> QED BY <4>1, <4>2, <4>4
    <3>5. hold => v = times[i]
      <4> SUFFICES ASSUME hold PROVE v = times[i]
        OBVIOUS
      <4>1. PICK j \in 1..n : v = times[j]
        BY <2>1
      <4>2. j <= i
        BY <2>1, <2>4, <4>1
      <4>3. times[j] <= times[i]
        BY <1>2, <2>4, <4>2
      <4> QED BY <2>1, <2>4, <3>2, <4>1, <4>3
    <3>6. k \in 1..Many(i)
      <4>1. Many(i) = IF hold /\ Span(i) > 0 THEN 1 ELSE Span(i)
        BY <1>4, <3>1
      <4>2. hold => k = 1
        BY <3>2, <3>5
      <4> HIDE DEF k
      <4> QED BY <3>4, <4>1, <4>2
    <3>7. <<i, k>> \in S
      BY <1>5, <3>1, <3>6
    <3>8. f[<<i, k>>] = times[i] + k - 1
      BY <1>7, <3>7
    <3>9. f[<<i, k>>] = v
      BY <2>1, <3>2, <3>8
    <3> QED BY <3>7, <3>9
  <2> QED BY <2>5, <2>6
<1>13. f \in [S -> T]
  BY <1>7, <1>11 DEF f
<1>14. f \in Bijection(S, T)
  BY <1>10, <1>12, <1>13 DEF Bijection, Injection, Surjection, IsInjective
<1>15. IsFiniteSet(S)
  BY ExpandedFinite DEF S
<1>16. Cardinality(T) = Cardinality(S)
  <2>1. ExistsBijection(S, T)
    BY <1>14 DEF ExistsBijection
  <2> QED BY <1>15, <2>1, FS_Bijection
<1> QED BY <1>16 DEF S, T

LEMMA EnvelopeWants ==
  ASSUME NEW c \in Commands, c.op \in EnvelopeOps
  PROVE  /\ PointsOf(c) \in Nat \ {0}
         /\ c.op = "create_clip_automation" => PointsOf(c) = Points
         /\ c.op = "create_clip_automation_curve" =>
              PointsOf(c) = Cardinality(IF c.hold THEN ToSet(c.times) ELSE c.times[1]..Last(c.times))
<1>1. CASE c.op = "create_clip_automation"
  BY <1>1, Bounds DEF PointsOf
<1>2. CASE c.op = "create_clip_automation_curve"
  <2>1. c \in [op : {"create_clip_automation_curve"}, name : {"own"}, dev : {None}, chain : {None},
               inner : {None}, inRange : BOOLEAN, times : Curves, hold : BOOLEAN]
    BY <1>2 DEF Commands, Plain, EnvelopeOps, Addressed, Creating, Transport
  <2>2. c.times \in Seq(Nat) /\ Len(c.times) > 1 /\ Sorted(c.times) /\ c.hold \in BOOLEAN
    BY <2>1, HandlersAssumption DEF Sorted
  <2>3. IsFiniteSet(Expanded(c.times, c.hold))
    BY <2>2, ExpandedFinite
  <2>4. Expanded(c.times, c.hold) # {}
    BY DEF Expanded
  <2>5. Cardinality(Expanded(c.times, c.hold)) \in Nat \ {0}
    BY <2>3, <2>4, FS_CardinalityType, FS_EmptySet
  <2>6. Cardinality(Expanded(c.times, c.hold)) =
          Cardinality(IF c.hold THEN ToSet(c.times) ELSE c.times[1]..Last(c.times))
    BY <2>2, ExpandedCounts
  <2> QED BY <1>2, <2>5, <2>6 DEF PointsOf
<1> QED BY <1>1, <1>2 DEF EnvelopeOps

LEMMA PresetWanted ==
  ASSUME NEW c \in Commands, c.op = "set_plugin_preset", Cardinality(PresetsMeant(c)) = 1,
         NEW i \in DOMAIN Presets, i = c.index + 1 \/ Presets[i] = c.name
  PROVE  i = Preset(c)
<1>1. c \in [op : {"set_plugin_preset"}, index : -1..Len(Presets), name : ToSet(Presets) \cup {"", "other"}]
  BY DEF Commands, Plain, EnvelopeOps, Addressed, Creating, Transport
<1>2. DOMAIN Presets = 1..Len(Presets) /\ \A j \in 1..Len(Presets) : Presets[j] # ""
  <2>1. Presets \in Seq(STRING \ {""})
    BY HandlersAssumption
  <2>2. DOMAIN Presets = 1..Len(Presets) /\ \A j \in 1..Len(Presets) : Presets[j] \in STRING \ {""}
    BY <2>1, SeqDomain, Zenon
  <2> QED BY <2>2
<1>3. PresetsMeant(c) = {Preset(c)}
  BY PresetIsNat
<1>4. c.index \in -1..Len(Presets)
  BY <1>1
<1>5. ~((c.index = -1) = (c.name = ""))
  BY <1>3 DEF PresetsMeant
<1>6. CASE c.name = ""
  <2>1. PresetsMeant(c) = {c.index + 1} \cap DOMAIN Presets
    BY <1>5, <1>6 DEF PresetsMeant
  <2>2. i = c.index + 1
    BY <1>2, <1>6
  <2>3. i \in PresetsMeant(c)
    BY <2>1, <2>2
  <2> QED BY <1>3, <2>3
<1>7. CASE c.name # ""
  <2>1. PresetsMeant(c) = Positions(Presets, c.name) /\ c.index = -1
    BY <1>5, <1>7 DEF PresetsMeant
  <2>4. i \in 1..Len(Presets)
    BY <1>2
  <2>5. i # c.index + 1
    <3>1. c.index + 1 = -1 + 1
      BY <2>1
    <3>2. -1 + 1 = 0
      OBVIOUS
    <3>3. i # 0
      BY <2>4
    <3> QED BY <3>1, <3>2, <3>3
  <2>2. Presets[i] = c.name
    BY <2>5
  <2>3. i \in PresetsMeant(c)
    BY <2>1, <2>2 DEF Positions
  <2> QED BY <1>3, <2>3
<1> QED BY <1>6, <1>7

\* What is wanted by the commands that read back.
LEMMA WantedIs ==
  ASSUME cmd \in Commands, NEW w \in Wanted
  PROVE  \/ cmd.op = "set_track_property" /\ w = <<"mute", Asked>>
         \/ cmd.op \in {"set_track_color", "set_clip_color"} /\ w = <<"color", Asked>>
         \/ /\ cmd.op = "set_plugin_preset"
            /\ \E i \in DOMAIN Presets : (i = cmd.index + 1 \/ Presets[i] = cmd.name) /\ w = <<"preset", i>>
         \/ cmd.op = "set_parameter_value" /\ w = <<"param", Asked>>
         \/ cmd.op \in EnvelopeOps /\ w = <<"envelope", Cleared + PointsOf(cmd)>>
         \/ cmd.op = "add_notes_pattern" /\ w = <<"notes", Asked>>
         \/ cmd.op = "set_tempo" /\ ~cmd.dry /\ w = <<"tempo", Asked>>
         \/ /\ cmd.op \in {"start_playback", "stop_playback", "set_loop", "set_loop_start", "set_loop_length"}
            /\ w = <<Transport[cmd.op], Asked>>
         \/ /\ cmd.op = "set_arrangement_clip"
            /\ w \in (IF cmd.name THEN {<<"placedName", Asked>>} ELSE {})
                       \cup (IF cmd.muted = "boolean" THEN {<<"placedMuted", Asked>>} ELSE {})
         \/ /\ cmd.op = "set_clip_properties"
            /\ w \in {v \in {<<"loopStart", cmd.start>>, <<"loopEnd", cmd.end>>} : v[2] # -1}
                       \cup (IF cmd.name THEN {<<"clipName", Asked>>} ELSE {})
<1>1. DOMAIN Transport \ {"set_tempo"} =
        {"start_playback", "stop_playback", "set_loop", "set_loop_start", "set_loop_length"}
  BY DEF Transport
<1>2. CASE cmd.op = "create_clip_automation"
  <2>1. Wanted = {<<"envelope", Cleared + Points>>}
    BY <1>2, <1>1 DEF Wanted
  <2>2. cmd.op \in EnvelopeOps
    BY <1>2 DEF EnvelopeOps
  <2>3. PointsOf(cmd) = Points
    BY <1>2, <2>2, EnvelopeWants
  <2> QED BY <2>1, <2>2, <2>3
<1>3. CASE cmd.op = "create_clip_automation_curve"
  <2>1. Wanted = {<<"envelope", Cleared + Cardinality(IF cmd.hold THEN ToSet(cmd.times)
                                                      ELSE cmd.times[1]..Last(cmd.times))>>}
    BY <1>3, <1>1 DEF Wanted
  <2>2. cmd.op \in EnvelopeOps
    BY <1>3 DEF EnvelopeOps
  <2>3. PointsOf(cmd) = Cardinality(IF cmd.hold THEN ToSet(cmd.times) ELSE cmd.times[1]..Last(cmd.times))
    BY <1>3, <2>2, EnvelopeWants
  <2> QED BY <2>1, <2>2, <2>3
<1>4. CASE cmd.op \in {"set_track_property", "set_track_color", "set_clip_color", "set_plugin_preset",
                       "set_parameter_value"}
  <2>1. CASE cmd.op = "set_plugin_preset"
    BY <1>1, <2>1 DEF Wanted
  <2>2. CASE cmd.op # "set_plugin_preset"
    BY <1>1, <1>4, <2>2 DEF Wanted
  <2> QED BY <2>1, <2>2
<1>5. CASE cmd.op \in {"add_notes_pattern", "set_tempo", "set_arrangement_clip", "set_clip_properties"}
  BY <1>5, <1>1 DEF Wanted
<1>6. CASE cmd.op \in {"start_playback", "stop_playback", "set_loop", "set_loop_start", "set_loop_length"}
  BY <1>6, <1>1 DEF Wanted
<1>7. CASE cmd.op \in {"rename_track", "clear_clip_notes", "duplicate", "delete", "move", "hierarchy",
                       "save_set", "quit_ableton", "fire_clip", "fire_scene", "search_browser",
                       "diagnose_midi_clip", "live_fade"} \cup Creating
  BY <1>7, <1>1 DEF Wanted, Creating
<1> QED BY <1>1, <1>2, <1>3, <1>4, <1>5, <1>6, <1>7, OpsOf DEF Plain, EnvelopeOps

\* Whoever reads back comes to see what is wanted, if nothing stops it.
LEMMA HandlerMeets ==
  ASSUME cmd \in Commands, NEW w \in Wanted,
         cmd.op = "set_plugin_preset" => Cardinality(PresetsMeant(cmd)) = 1
  PROVE  Meets(Handler(cmd), w)
<1>1. /\ {"mute", "color", "preset", "param", "tempo"} \subseteq Fields \ {"saved", "quit"}
      /\ Asked \in Nat
  BY DEF Fields, Asked
<1>2. CASE cmd.op = "set_track_property" /\ w = <<"mute", Asked>>
  BY <1>1, <1>2, HandlerOf, VerifiedMeets, Bounds
<1>3. CASE cmd.op \in {"set_track_color", "set_clip_color"} /\ w = <<"color", Asked>>
  BY <1>1, <1>3, HandlerOf, VerifiedMeets
<1>4. CASE /\ cmd.op = "set_plugin_preset"
           /\ \E i \in DOMAIN Presets : (i = cmd.index + 1 \/ Presets[i] = cmd.name) /\ w = <<"preset", i>>
  <2>1. w = <<"preset", Preset(cmd)>> /\ Preset(cmd) \in Nat
    BY <1>4, PresetWanted, PresetIsNat
  <2> QED BY <1>1, <1>4, <2>1, HandlerOf, VerifiedMeets
<1>5. CASE cmd.op = "set_parameter_value" /\ w = <<"param", Asked>>
  BY <1>1, <1>5, HandlerOf, VerifiedMeets
<1>6. CASE cmd.op \in EnvelopeOps /\ w = <<"envelope", Cleared + PointsOf(cmd)>>
  BY <1>6, HandlerOf, EnvelopeWants, AutomationMeets
<1>7. CASE cmd.op = "add_notes_pattern" /\ w = <<"notes", Asked>>
  <2> DEFINE x == Call("notes", Asked)
  <2>1. x.do = "call" /\ x.field = "notes" /\ x.value = Asked
    BY DEF Call, Stmt
  <2>2. Handler(cmd) = <<x>>
    BY <1>7, HandlerOf
  <2> HIDE DEF x
  <2>3. Pending(<<x>>, w) /\ Only(<<x>>, w)
    BY <1>7, <2>1, OneStatement
  <2> QED BY <2>2, <2>3, OnlyIsStraight DEF Meets
<1>8. CASE cmd.op = "set_tempo" /\ ~cmd.dry /\ w = <<"tempo", Asked>>
  BY <1>1, <1>8, HandlerOf, VerifiedMeets, Bounds DEF SetTempo
<1>9. CASE /\ cmd.op \in {"start_playback", "stop_playback", "set_loop", "set_loop_start", "set_loop_length"}
           /\ w = <<Transport[cmd.op], Asked>>
  <2>1. Transport[cmd.op] \in Fields \ {"saved", "quit"}
    BY <1>9 DEF Fields, Transport
  <2> QED BY <1>1, <1>9, <2>1, HandlerOf, VerifiedMeets, Bounds
<1>10. CASE /\ cmd.op = "set_arrangement_clip"
            /\ w \in (IF cmd.name THEN {<<"placedName", Asked>>} ELSE {})
                       \cup (IF cmd.muted = "boolean" THEN {<<"placedMuted", Asked>>} ELSE {})
  BY <1>10, HandlerOf, PlacedMeets
<1>11. CASE /\ cmd.op = "set_clip_properties"
            /\ w \in {v \in {<<"loopStart", cmd.start>>, <<"loopEnd", cmd.end>>} : v[2] # -1}
                       \cup (IF cmd.name THEN {<<"clipName", Asked>>} ELSE {})
  BY <1>11, HandlerOf, ClipMeets
<1> QED BY <1>2, <1>3, <1>4, <1>5, <1>6, <1>7, <1>8, <1>9, <1>10, <1>11, WantedIs

LEMMA WantedFields ==
  ASSUME cmd \in Commands, NEW w \in Wanted
  PROVE  /\ w[1] \in Fields \ {"saved", "quit"}
         /\ cmd.op \notin Creating \cup {"duplicate", "delete", "move", "live_fade", "quit_ableton"}
<1>1. cmd.op \notin Creating \cup {"duplicate", "delete", "move", "live_fade", "quit_ableton"}
  BY WantedIs DEF Creating, EnvelopeOps
<1>2. w[1] \in {"mute", "color", "preset", "param", "tempo", "envelope", "notes", "playing", "songLoop",
                "songLoopStart", "songLoopLength", "placedName", "placedMuted", "loopStart",
                "loopEnd", "clipName"}
  BY WantedIs DEF Transport
<1> QED BY <1>1, <1>2 DEF Fields

LateFor(w) == \A l \in late : l[1] = w[1] => l[2] = w[2]
Settled(w) == set[w[1]] = w[2] \/ w[1] \in touched

\* w is still to be done or seen, or it is in the Set and nothing to come changes that.
Good(w) ==
  /\ Straight(todo, w) /\ LateFor(w)
  /\ Pending(todo, w) \/ (Only(todo, w) /\ Settled(w))

WantInv ==
  /\ todo = <<Lane("begin")>> => late = {}
  /\ \A w \in Wanted : todo # <<Lane("begin")>> /\ answer \in {"none", "ok"} => Good(w)

\* What a statement less leaves of it.
LEMMA LessGood ==
  ASSUME NEW s \in Seq(Stmts), s # <<>>, NEW w, Straight(s, w)
  PROVE  /\ Straight(Tail(s), w) /\ Tail(s) \in Seq(Stmts)
         /\ Head(s).do \in {"write", "see"} /\ Head(s).field = w[1] => Head(s).value = w[2]
         /\ Only(s, w) => Only(Tail(s), w) /\ (Head(s).field = w[1] => Head(s).value = w[2])
         /\ Pending(s, w) => \/ Pending(Tail(s), w)
                             \/ /\ Head(s).do \in {"see", "call"} /\ Head(s).field = w[1]
                                /\ Head(s).value = w[2] /\ Only(Tail(s), w)
<1> DEFINE t == Tail(s)
<1>1. /\ t \in Seq(Stmts) /\ Len(s) \in Nat /\ Len(s) > 0 /\ Head(s) = s[1] /\ 1 \in DOMAIN s
      /\ DOMAIN s = 1..Len(s) /\ DOMAIN t = 1..(Len(s) - 1)
      /\ \A i \in DOMAIN t : t[i] = s[i + 1]
  BY TailFacts, SeqDomain
<1> HIDE DEF t
<1>2. \A i \in DOMAIN t : i + 1 \in DOMAIN s /\ t[i] = s[i + 1] /\ i \in Nat
  BY <1>1
<1>3. Straight(t, w)
  BY <1>2 DEF Straight
<1>4. Only(s, w) => Only(t, w) /\ (Head(s).field = w[1] => Head(s).value = w[2])
  BY <1>1, <1>2 DEF Only
<1>5. Head(s).do \in {"write", "see"} /\ Head(s).field = w[1] => Head(s).value = w[2]
  BY <1>1 DEF Straight
<1>6. ASSUME Pending(s, w)
      PROVE  \/ Pending(t, w)
             \/ /\ Head(s).do \in {"see", "call"} /\ Head(s).field = w[1]
                /\ Head(s).value = w[2] /\ Only(t, w)
  <2>1. PICK i \in DOMAIN s :
          /\ s[i].do \in {"see", "call"} /\ s[i].field = w[1] /\ s[i].value = w[2]
          /\ \A j \in DOMAIN s : j > i /\ s[j].field = w[1] => s[j].value = w[2]
    BY <1>6 DEF Pending
  <2>2. CASE i = 1
    <3>1. Only(t, w)
      BY <1>2, <2>1, <2>2 DEF Only
    <3> QED BY <1>1, <2>1, <2>2, <3>1
  <2>3. CASE i # 1
    <3>1. i - 1 \in DOMAIN t /\ t[i - 1] = s[i]
      BY <1>1, <2>3
    <3>2. \A j \in DOMAIN t : j > i - 1 /\ t[j].field = w[1] => t[j].value = w[2]
      <4> TAKE j \in DOMAIN t
      <4>1. j + 1 \in DOMAIN s /\ t[j] = s[j + 1] /\ (j > i - 1 => j + 1 > i)
        BY <1>1, <1>2
      <4> QED BY <2>1, <4>1
    <3> QED BY <2>1, <3>1, <3>2 DEF Pending
  <2> QED BY <2>2, <2>3
<1> QED BY <1>1, <1>3, <1>4, <1>5, <1>6 DEF t

\* A value that is settled stays so, unless a statement or Live has another.
LEMMA SettledStays ==
  ASSUME TypeInv, Next, NEW w, w[1] \in Fields \ {"saved", "quit"}, LateFor(w), Settled(w),
         \A do \in {"write", "call"} : Doing(do) /\ This.field = w[1] => This.value = w[2]
  PROVE  Settled(w)'
<1>1. set \in [Fields -> Nat] /\ "loopStart" \in Fields /\ "loopEnd" \in Fields
  BY DEF TypeInv, SetOK, Fields
<1>2. ASSUME touched' = touched, set'[w[1]] = set[w[1]]
      PROVE  Settled(w)'
  BY <1>2 DEF Settled
<1>3. CASE WriteProperty
  <2>1. touched' = touched /\ Doing("write")
    BY <1>3 DEF WriteProperty, User
  <2>2. set' = set \/ set' = [set EXCEPT ![This.field] = This.value]
    BY <1>3 DEF WriteProperty
  <2>3. CASE set' = set
    BY <1>2, <2>1, <2>3
  <2>4. CASE set' = [set EXCEPT ![This.field] = This.value]
    <3>1. set'[w[1]] = IF This.field = w[1] THEN This.value ELSE set[w[1]]
      BY <1>1, <2>4
    <3> QED BY <2>1, <3>1 DEF Settled
  <2> QED BY <2>2, <2>3, <2>4
<1>4. CASE CallMethod
  <2>1. touched' = touched /\ Doing("call") /\ set' = [set EXCEPT ![This.field] = This.value]
    BY <1>4 DEF CallMethod, User
  <2>2. set'[w[1]] = IF This.field = w[1] THEN This.value ELSE set[w[1]]
    BY <1>1, <2>1
  <2> QED BY <2>1, <2>2 DEF Settled
<1>5. CASE TickPasses
  <2> DEFINE Shown(f) == {v[2] : v \in {l \in late : l[1] = f /\ Fits(f, l[2])}}
             shown(f) == CHOOSE v \in Shown(f) : TRUE
  <2>1. touched' = touched /\ set' = [f \in Fields |-> IF Shown(f) = {} THEN set[f] ELSE shown(f)]
    BY <1>5 DEF TickPasses, User
  <2>2. Shown(w[1]) # {} => shown(w[1]) = w[2]
    <3>1. Shown(w[1]) # {} => shown(w[1]) \in Shown(w[1])
      OBVIOUS
    <3>2. \A v \in Shown(w[1]) : v = w[2]
      BY DEF LateFor
    <3> QED BY <3>1, <3>2
  <2> HIDE DEF Shown, shown
  <2>3. set'[w[1]] = IF Shown(w[1]) = {} THEN set[w[1]] ELSE shown(w[1])
    BY <2>1
  <2> QED BY <2>1, <2>2, <2>3 DEF Settled
<1>6. CASE UserEdits
  <2>1. CASE \E f \in Concerned \ {"loopStart", "loopEnd"} :
               set' = [set EXCEPT ![f] = Users] /\ touched' = touched \cup {f}
    BY <1>1, <2>1 DEF Settled
  <2>2. CASE /\ touched' = touched \cup {"loopStart", "loopEnd"}
             /\ \E s, e \in Beats : s < e /\ set' = [set EXCEPT !["loopStart"] = s, !["loopEnd"] = e]
    BY <1>1, <2>2 DEF Settled
  <2>3. CASE set' = set /\ touched \subseteq touched'
    BY <2>3 DEF Settled
  <2> QED BY <1>6, <2>1, <2>2, <2>3 DEF UserEdits
<1>7. CASE Quits
  BY <1>1, <1>2, <1>7 DEF Quits, User
<1>8. CASE Begin \/ RefuseNow \/ Obtain \/ HasEnvelopes \/ ReadBack
  BY <1>2, <1>8 DEF Begin, RefuseNow, Obtain, HasEnvelopes, ReadBack, Set, User
<1>9. CASE CopyClip \/ Copied \/ RemoveClip \/ Removed \/ CreateTrack \/ NameTrack
  BY <1>2, <1>9 DEF CopyClip, Copied, RemoveClip, Removed, CreateTrack, NameTrack, Set, User
<1>10. CASE FadeStep \/ FadeUntil \/ Reply \/ Raises
  BY <1>2, <1>10 DEF FadeStep, FadeUntil, Reply, Raises, Set, User
<1> QED BY <1>3, <1>4, <1>5, <1>6, <1>7, <1>8, <1>9, <1>10 DEF Next, Step

\* What Live shows late is what was written.
LEMMA LateStays ==
  ASSUME TypeInv, Next, NEW w, w[1] \in Fields, LateFor(w),
         Doing("write") /\ This.field = w[1] => This.value = w[2]
  PROVE  LateFor(w)'
<1>1. w[1] # "copy" /\ w[1] # "remove"
  BY DEF Fields
<1>2. CASE late' = late \/ late' = {}
  BY <1>2 DEF LateFor
<1>3. CASE WriteProperty
  <2>1. Doing("write") /\ (late' = late \/ late' = late \cup {<<This.field, This.value>>})
    BY <1>3 DEF WriteProperty
  <2> QED BY <2>1 DEF LateFor
<1>4. CASE CopyClip \/ RemoveClip
  <2>1. late' = late \/ late' = late \cup {<<"copy", 0>>} \/ late' = late \cup {<<"remove", 0>>}
    BY <1>4 DEF CopyClip, RemoveClip
  <2> QED BY <1>1, <2>1 DEF LateFor
<1>5. CASE Begin \/ RefuseNow \/ Obtain \/ HasEnvelopes \/ ReadBack \/ CallMethod
  BY <1>2, <1>5 DEF Begin, RefuseNow, Obtain, HasEnvelopes, ReadBack, CallMethod, Set
<1>6. CASE Copied \/ Removed \/ CreateTrack \/ NameTrack \/ TickPasses
  BY <1>2, <1>6 DEF Copied, Removed, CreateTrack, NameTrack, TickPasses, Set
<1>7. CASE FadeStep \/ FadeUntil \/ Reply \/ Raises \/ UserEdits \/ Quits
  BY <1>2, <1>7 DEF FadeStep, FadeUntil, Reply, Raises, UserEdits, Quits, Set
<1> QED BY <1>3, <1>4, <1>5, <1>6, <1>7 DEF Next, Step

\* One value that is wanted, by any step but the first.
LEMMA GoodStays ==
  ASSUME TypeInv, Next, ~Begin, NEW w \in Wanted, Good(w), answer \in {"none", "ok"},
         answer' \in {"none", "ok"}
  PROVE  Good(w)'
<1>1. /\ w[1] \in Fields \ {"saved", "quit"}
      /\ cmd.op \notin Creating \cup {"duplicate", "delete", "move", "live_fade", "quit_ableton"}
  BY WantedFields DEF TypeInv
<1>2. Straight(todo, w) /\ LateFor(w) /\ (Pending(todo, w) \/ (Only(todo, w) /\ Settled(w)))
  BY DEF Good
<1>3. ASSUME NEW do, do # "begin", Doing(do)
      PROVE  /\ todo \in Seq(Stmts) /\ todo # <<>> /\ This = Head(todo) /\ This.do = do
             /\ do \in {"write", "see"} /\ This.field = w[1] => This.value = w[2]
             /\ Only(todo, w) /\ This.field = w[1] => This.value = w[2]
             /\ Straight(Tail(todo), w)
             /\ Pending(Tail(todo), w)
                \/ (Only(todo, w) /\ Settled(w) /\ Only(Tail(todo), w))
                \/ (do \in {"see", "call"} /\ This.field = w[1] /\ This.value = w[2] /\ Only(Tail(todo), w))
  <2>1. todo \in Seq(Stmts) /\ todo # <<>> /\ This = Head(todo) /\ This.do = do
    BY <1>3, HeadIs DEF This
  <2> QED BY <1>2, <2>1, LessGood
<1>4. LateFor(w)'
  BY <1>1, <1>2, <1>3, LateStays
<1>5. ASSUME Proceed, NEW do, do \notin {"begin", "see", "call"}, Doing(do)
      PROVE  Good(w)'
  <2>1. todo' = Tail(todo)
    BY <1>5 DEF Proceed
  <2>2. Straight(todo', w) /\ (Pending(todo', w) \/ (Only(todo, w) /\ Settled(w) /\ Only(todo', w)))
    BY <1>3, <1>5, <2>1
  <2>3. Only(todo, w) /\ Settled(w) => Settled(w)'
    BY <1>1, <1>2, <1>3, SettledStays
  <2> QED BY <1>4, <2>2, <2>3 DEF Good
<1>6. CASE CallMethod
  <2>1. Doing("call") /\ todo' = Tail(todo) /\ set' = [set EXCEPT ![This.field] = This.value]
    BY <1>6 DEF CallMethod, Proceed
  <2>2. CASE Pending(Tail(todo), w)
    BY <1>3, <1>4, <2>1, <2>2 DEF Good
  <2>3. CASE Only(todo, w) /\ Settled(w) /\ Only(Tail(todo), w)
    <3>1. This.field = w[1] => This.value = w[2]
      BY <1>3, <2>1, <2>3
    <3>2. Settled(w)'
      BY <1>1, <1>2, <2>3, <3>1, SettledStays
    <3> QED BY <1>3, <1>4, <2>1, <2>3, <3>2 DEF Good
  <2>4. CASE This.field = w[1] /\ This.value = w[2] /\ Only(Tail(todo), w)
    <3>1. set \in [Fields -> Nat]
      BY DEF TypeInv, SetOK
    <3>2. Settled(w)'
      BY <1>1, <2>1, <2>4, <3>1 DEF Settled
    <3> QED BY <1>3, <1>4, <2>1, <2>4, <3>2 DEF Good
  <2> QED BY <1>3, <2>1, <2>2, <2>3, <2>4
<1>7. CASE ReadBack
  <2>1. Doing("see") /\ UNCHANGED <<set, late, touched>>
    BY <1>7 DEF ReadBack, Set, User
  <2>2. CASE set[This.field] = This.value /\ Proceed
    <3>1. todo' = Tail(todo)
      BY <2>2 DEF Proceed
    <3>2. Pending(todo', w) \/ (Only(todo', w) /\ Settled(w))
      BY <1>3, <2>1, <2>2, <3>1 DEF Settled
    <3>3. Settled(w) => Settled(w)'
      BY <2>1 DEF Settled
    <3> QED BY <1>3, <1>4, <2>1, <3>1, <3>2, <3>3 DEF Good
  <2>3. CASE This.tries > 0 /\ todo' = Verified(This.field, This.value, This.tries) \o Tail(todo)
    <3> DEFINE p == Verified(This.field, This.value, This.tries)
    <3>1. This \in Stmts /\ This.do = "see"
      BY <2>1, HeadIs
    <3>2. /\ This.field \in Fields \ {"saved", "quit"} /\ This.value \in Nat /\ This.tries \in Nat \ {0}
          /\ Piece(p)
      BY <2>3, <3>1, SeenAgain
    <3>3. /\ Only(p, <<This.field, This.value>>) /\ Pending(p, <<This.field, This.value>>)
          /\ This.field # w[1] /\ w[1] # "lane" => Only(p, w)
      BY <3>2, VerifiedPending
    <3>4. w[1] # "lane" /\ (This.field = w[1] => This.value = w[2])
      BY <1>1, <1>3, <2>1 DEF Fields
    <3>5. Only(p, w) /\ (This.field = w[1] => Pending(p, w))
      <4>1. CASE This.field = w[1]
        BY <3>3, <3>4, <4>1 DEF Only, Pending
      <4>2. CASE This.field # w[1]
        BY <3>3, <3>4, <4>2
      <4> QED BY <4>1, <4>2
    <3>6. p \in Seq(Stmts) /\ Tail(todo) \in Seq(Stmts) /\ todo' = p \o Tail(todo)
      BY <1>3, <2>1, <2>3, <3>2, TailFacts DEF Piece
    <3> HIDE DEF p
    <3>7. Straight(todo', w)
      BY <1>3, <2>1, <3>5, <3>6, StraightConcat, OnlyIsStraight
    <3>8. Pending(todo', w) \/ (Only(todo', w) /\ Settled(w))
      BY <1>3, <2>1, <3>5, <3>6, PendingLeft, PendingRight, OnlyConcat
    <3>9. Settled(w) => Settled(w)'
      BY <2>1 DEF Settled
    <3> QED BY <1>4, <3>7, <3>8, <3>9 DEF Good
  <2> QED BY <1>7, <2>2, <2>3 DEF ReadBack, Answered
<1>8. CASE WriteProperty
  BY <1>5, <1>8 DEF WriteProperty, Answered
<1>9. CASE Obtain \/ HasEnvelopes \/ TickPasses
  BY <1>5, <1>9 DEF Obtain, HasEnvelopes, TickPasses, Answered
<1>10. CASE UserEdits \/ Quits \/ Reply
  <2>1. todo' = todo
    BY <1>10 DEF UserEdits, Quits, Reply
  <2>2. \A do \in {"write", "call"} : ~Doing(do)
    BY <1>10 DEF UserEdits, Quits, Reply, Doing
  <2>3. Settled(w) => Settled(w)'
    BY <1>1, <1>2, <2>2, SettledStays
  <2> QED BY <1>2, <1>4, <2>1, <2>3 DEF Good
<1>11. CASE RefuseNow \/ Raises
  BY <1>11 DEF RefuseNow, Raises, Answered
<1>12. CASE CopyClip \/ Copied \/ RemoveClip \/ Removed \/ CreateTrack \/ NameTrack \/ FadeStep \/ FadeUntil
  <2>1. PICK do \in {"copy", "copied", "remove", "removed", "create", "name", "step", "until"} : Doing(do)
    BY <1>12 DEF CopyClip, Copied, RemoveClip, Removed, CreateTrack, NameTrack, FadeStep, FadeUntil
  <2>2. Own(cmd, Head(todo)) /\ Head(todo).do = do
    BY <1>3, <2>1, OwnTail DEF TypeInv
  <2> QED BY <1>1, <2>1, <2>2 DEF Own
<1> QED BY <1>6, <1>7, <1>8, <1>9, <1>10, <1>11, <1>12 DEF Next, Step

LEMMA WantStep ==
  ASSUME TypeInv, WantInv, [Next]_vars
  PROVE  WantInv'
<1>1. CASE UNCHANGED vars
  BY <1>1 DEF vars, WantInv, Wanted, Good, LateFor, Settled
<1>2. CASE Next
  <2>1. cmd' = cmd /\ cmd \in Commands
    BY <1>2, CmdStays DEF TypeInv
  <2>2. Wanted' = Wanted
    BY <2>1 DEF Wanted
  <2>3. CASE Begin
    <3>1. late' = {}
      BY <2>3, BeginLeaves DEF Set, WantInv
    <3>2. CASE answer' = "refused"
      BY <3>1, <3>2 DEF WantInv
    <3>3. CASE /\ todo' = Handler(cmd)
               /\ cmd.op = "set_plugin_preset" => Cardinality(PresetsMeant(cmd)) = 1
      <4>1. ASSUME NEW w \in Wanted
            PROVE  Good(w)'
        <5>1. Pending(todo', w) /\ Straight(todo', w)
          BY <2>1, <3>3, HandlerMeets DEF Meets
        <5>2. LateFor(w)'
          BY <3>1 DEF LateFor
        <5> QED BY <5>1, <5>2 DEF Good
      <4> QED BY <2>2, <3>1, <4>1 DEF WantInv
    <3> QED BY <2>3, <3>2, <3>3, BeginLeaves
  <2>4. CASE ~Begin
    <3>1. todo' = <<Lane("begin")>> => todo = <<Lane("begin")>> /\ (UserEdits \/ Quits)
      <4> SUFFICES ASSUME todo' = <<Lane("begin")>>
                   PROVE  todo = <<Lane("begin")>> /\ (UserEdits \/ Quits)
        OBVIOUS
      <4>1. ~Piece(todo')
        BY BeginIsNoPiece
      <4>2. ~Goes /\ ~GoesBack /\ ~Ends
        BY <4>1, PieceTail, PieceConcat, EmptyPiece DEF Goes, GoesBack, Ends
      <4> QED BY <1>2, <2>4, <4>2, StepLeaves DEF Stays
    <3>2. todo' = <<Lane("begin")>> => late' = {}
      BY <3>1 DEF WantInv, UserEdits, Quits
    <3>3. ASSUME NEW w \in Wanted, todo' # <<Lane("begin")>>, answer' \in {"none", "ok"}
          PROVE  Good(w)'
      <4>1. todo # <<Lane("begin")>>
        <5> SUFFICES ASSUME todo = <<Lane("begin")>> PROVE FALSE
          OBVIOUS
        <5>1. ~Piece(todo) /\ todo # <<>>
          BY BeginIsNoPiece
        <5>2. ~Goes /\ ~GoesBack /\ ~Stays
          BY <3>3, <5>1 DEF Goes, GoesBack, Stays
        <5>3. Ends
          BY <1>2, <2>4, <5>2, StepLeaves
        <5>4. Reply
          BY <3>3, <5>3 DEF Ends
        <5> QED BY <5>1, <5>4 DEF Reply
      <4>2. answer \in {"none", "ok"}
        BY <1>2, <2>4, <3>3, StepLeaves DEF Stays, Ends, Goes, GoesBack
      <4>3. Good(w)
        BY <4>1, <4>2 DEF WantInv
      <4> QED BY <1>2, <2>4, <3>3, <4>2, <4>3, GoodStays
    <3> QED BY <2>2, <3>2, <3>3 DEF WantInv
  <2> QED BY <2>3, <2>4
<1> QED BY <1>1, <1>2

\* A success that was read back is one: what was asked for is in the Set, however Live
\* delays or drops the writes, unless the user has edited it since, for every command that
\* reads back and any number of retries, of points and of steps of a curve
\* (tracks.py, devices.py, transport.py, clips.py, automation.py).
THEOREM SuccessIsReadBack == Spec => []OkTellsTheSet
<1>1. Init => WantInv
  BY DEF Init, WantInv
<1>2. TypeInv /\ WantInv /\ [Next]_vars => WantInv'
  BY WantStep
<1>3. TypeInv /\ WantInv => OkTellsTheSet
  <2> SUFFICES ASSUME TypeInv, WantInv, answer = "ok", NEW w \in Wanted
               PROVE  set[w[1]] = w[2] \/ w[1] \in touched
    BY DEF OkTellsTheSet
  <2>1. todo = <<>>
    BY DEF TypeInv, AnswerOK
  <2>2. todo # <<Lane("begin")>>
    BY <2>1
  <2>3. Good(w)
    BY <2>2 DEF WantInv
  <2>4. ~Pending(todo, w)
    BY <2>1 DEF Pending
  <2> QED BY <2>3, <2>4 DEF Good, Settled
<1> QED BY <1>1, <1>2, <1>3, AlwaysTyped, PTL DEF Spec

(*********************** what is moved stays in the lane ********************)
Mine == [id |-> Original, of |-> "mine"]
Neighbour == [id |-> 2, of |-> "other"]
Before == {Mine, Neighbour}
Doubled == {Mine, Neighbour, Copy("mine")}
Moved == {Neighbour, Copy("mine")}
OnceMore(do) == [Lane(do) EXCEPT !.tries = 1]

\* Where a move stands that no user disturbs: what is left of it, and what the lane holds.
Copying ==
  \/ /\ todo = <<Lane("copy"), Lane("copied"), Lane("remove"), Lane("removed")>>
     /\ lane = Before /\ late = {}
  \/ /\ todo \in {<<Lane("copied"), Lane("remove"), Lane("removed")>>,
                  <<Wait, OnceMore("copied"), Lane("remove"), Lane("removed")>>,
                  <<OnceMore("copied"), Lane("remove"), Lane("removed")>>}
     /\ late \subseteq {<<"copy", 0>>} /\ ((lane = Before /\ late = {}) \/ lane = Doubled)
Removing ==
  /\ counts.copied = 3
  /\ \/ todo = <<Lane("remove"), Lane("removed")>> /\ lane = Doubled /\ late = {}
     \/ /\ todo \in {<<Lane("removed")>>, <<Wait, OnceMore("removed")>>, <<OnceMore("removed")>>}
        /\ late \subseteq {<<"remove", 0>>} /\ ((lane = Doubled /\ late = {}) \/ lane = Moved)

MoveInv ==
  cmd.op = "move" /\ touched = {} =>
    /\ lane \in {Before, Doubled, Moved}
    /\ \/ answer \notin {"none", "ok"}
       \/ todo = <<Lane("begin")>> /\ lane = Before /\ late = {}
       \/ counts.before = 2 /\ (Copying \/ Removing)
       \/ todo = <<>> /\ lane = Moved

LEMMA ConcatIs ==
  ASSUME NEW S, NEW s \in Seq(S), NEW t \in Seq(S), NEW u \in Seq(S), Len(u) = Len(s) + Len(t),
         \A i \in 1..Len(s) : u[i] = s[i], \A i \in 1..Len(t) : u[Len(s) + i] = t[i]
  PROVE  s \o t = u
<1> DEFINE v == s \o t
<1>1. /\ v \in Seq(S) /\ Len(v) = Len(s) + Len(t) /\ Len(s) \in Nat /\ Len(t) \in Nat
      /\ \A i \in 1..Len(s) : v[i] = s[i]
      /\ \A i \in 1..Len(t) : v[Len(s) + i] = t[i]
  BY ConcatFacts, SeqDomain
<1> HIDE DEF v
<1>2. ASSUME NEW i \in 1..Len(v)
      PROVE  v[i] = u[i]
  <2>1. CASE i \in 1..Len(s)
    BY <1>1, <2>1
  <2>2. CASE i - Len(s) \in 1..Len(t)
    <3>1. i = Len(s) + (i - Len(s))
      BY <1>1
    <3> QED BY <1>1, <2>2, <3>1
  <2> QED BY <1>1, <2>1, <2>2
<1>3. v = u
  BY <1>1, <1>2, SeqEqual
<1> QED BY <1>3 DEF v

\* The tails and the beginnings of what is left of a move.
LEMMA MoveTuples ==
  ASSUME NEW a, NEW b, NEW c, NEW d
  PROVE  /\ Tail(<<a>>) = <<>> /\ Tail(<<a, b>>) = <<b>> /\ Tail(<<a, b, c>>) = <<b, c>>
         /\ Tail(<<a, b, c, d>>) = <<b, c, d>>
         /\ <<a, b>> \o <<>> = <<a, b>>
<1> DEFINE S == {a, b, c, d}
<1>1. /\ <<a>> \in Seq(S) /\ <<b>> \in Seq(S) /\ <<b, c>> \in Seq(S) /\ <<b, c, d>> \in Seq(S)
      /\ <<a, b>> \in Seq(S) /\ <<c, d>> \in Seq(S) /\ <<a, b, c, d>> \in Seq(S) /\ <<>> \in Seq(S)
  OBVIOUS
<1>2. Tail(<<a>> \o <<>>) = <<>> /\ Tail(<<a>> \o <<b>>) = <<b>>
  BY <1>1, TailOfMore
<1>3. Tail(<<a>> \o <<b, c>>) = <<b, c>> /\ Tail(<<a>> \o <<b, c, d>>) = <<b, c, d>>
  BY <1>1, TailOfMore
<1>4. <<a>> \o <<>> = <<a>> /\ <<a>> \o <<b>> = <<a, b>>
  BY SmallConcats
<1>5. <<a>> \o <<b, c>> = <<a, b, c>>
  <2> DEFINE s == <<a>>  t == <<b, c>>  u == <<a, b, c>>
  <2>1. /\ s \in Seq(S) /\ t \in Seq(S) /\ u \in Seq(S)
        /\ Len(s) = 1 /\ Len(t) = 2 /\ Len(u) = 3 /\ s[1] = a
        /\ t[1] = b /\ t[2] = c /\ u[1] = a /\ u[2] = b /\ u[3] = c
    OBVIOUS
  <2> HIDE DEF s, t, u
  <2>2. /\ s \in Seq(S) /\ t \in Seq(S) /\ u \in Seq(S) /\ Len(u) = Len(s) + Len(t)
        /\ \A i \in 1..Len(s) : u[i] = s[i]
        /\ \A i \in 1..Len(t) : u[Len(s) + i] = t[i]
    BY <2>1
  <2> HIDE DEF S
  <2>3. s \o t = u
    BY <2>2, ConcatIs, Zenon
  <2> QED BY <2>3 DEF s, t, u
<1>6. <<a>> \o <<b, c, d>> = <<a, b, c, d>>
  <2> DEFINE s == <<a>>  t == <<b, c, d>>  u == <<a, b, c, d>>
  <2>1. /\ s \in Seq(S) /\ t \in Seq(S) /\ u \in Seq(S)
        /\ Len(s) = 1 /\ Len(t) = 3 /\ Len(u) = 4 /\ s[1] = a
        /\ t[1] = b /\ t[2] = c /\ t[3] = d /\ u[1] = a /\ u[2] = b /\ u[3] = c /\ u[4] = d
    OBVIOUS
  <2> HIDE DEF s, t, u
  <2>2. /\ s \in Seq(S) /\ t \in Seq(S) /\ u \in Seq(S) /\ Len(u) = Len(s) + Len(t)
        /\ \A i \in 1..Len(s) : u[i] = s[i]
        /\ \A i \in 1..Len(t) : u[Len(s) + i] = t[i]
    BY <2>1
  <2> HIDE DEF S
  <2>3. s \o t = u
    BY <2>2, ConcatIs, Zenon
  <2> QED BY <2>3 DEF s, t, u
<1>7. <<a, b>> \o <<>> = <<a, b>>
  BY <1>1, ConcatEmptySeq
<1> QED BY <1>2, <1>3, <1>4, <1>5, <1>6, <1>7

LEMMA TwoAndTwo ==
  ASSUME NEW a, NEW b, NEW c, NEW d
  PROVE  <<a, b>> \o <<c, d>> = <<a, b, c, d>>
<1> DEFINE S == {a, b, c, d}
<1> DEFINE s == <<a, b>>  t == <<c, d>>  u == <<a, b, c, d>>
<1>1. /\ s \in Seq(S) /\ t \in Seq(S) /\ u \in Seq(S)
      /\ Len(s) = 2 /\ Len(t) = 2 /\ Len(u) = 4 /\ s[1] = a /\ s[2] = b
      /\ t[1] = c /\ t[2] = d /\ u[1] = a /\ u[2] = b /\ u[3] = c /\ u[4] = d
  OBVIOUS
<1> HIDE DEF s, t, u
<1>2. /\ s \in Seq(S) /\ t \in Seq(S) /\ u \in Seq(S) /\ Len(u) = Len(s) + Len(t)
      /\ \A i \in 1..Len(s) : u[i] = s[i]
      /\ \A i \in 1..Len(t) : u[Len(s) + i] = t[i]
  BY <1>1
<1> HIDE DEF S
<1>3. s \o t = u
  BY <1>2, ConcatIs, Zenon
<1> QED BY <1>3 DEF s, t, u

\* The clips of the lane at each point of a move.
LEMMA MoveLanes ==
  /\ Cardinality(Before) = 2 /\ Cardinality(Doubled) = 3 /\ Cardinality(Moved) = 2
  /\ Before \cup {Copy("mine")} = Doubled /\ {k \in Doubled : k.id # Original} = Moved
  /\ ~(\A k \in Doubled : k.id # Original)
  /\ Before # Doubled /\ Before # Moved /\ Doubled # Moved
<1> DEFINE m == Mine  n == Neighbour  c == Copy("mine")
<1>1. /\ m.id = 1 /\ n.id = 2 /\ c.id = 3 /\ m # n /\ m # c /\ n # c
  BY DEF Mine, Neighbour, Copy, Original
<1>2. Before = {m, n} /\ Doubled = {m, n, c} /\ Moved = {n, c}
  BY DEF Before, Doubled, Moved
<1> HIDE DEF m, n, c
<1>3. Cardinality({m}) = 1 /\ IsFiniteSet({m}) /\ Cardinality({n}) = 1 /\ IsFiniteSet({n})
  BY FS_Singleton
<1>4. Cardinality({m} \cup {n}) = 2 /\ IsFiniteSet({m} \cup {n})
  <2>1. n \notin {m}
    BY <1>1
  <2> QED BY <1>3, <2>1, FS_AddElement
<1>5. Cardinality({n} \cup {c}) = 2
  <2>1. c \notin {n}
    BY <1>1
  <2> QED BY <1>3, <2>1, FS_AddElement
<1>6. Cardinality(({m} \cup {n}) \cup {c}) = 3
  <2>1. c \notin {m} \cup {n}
    BY <1>1
  <2> QED BY <1>4, <2>1, FS_AddElement
<1>7. {m} \cup {n} = {m, n} /\ {n} \cup {c} = {n, c} /\ ({m} \cup {n}) \cup {c} = {m, n, c}
  OBVIOUS
<1>8. {k \in {m, n, c} : k.id # 1} = {n, c}
  BY <1>1
<1>9. {m, n} \cup {c} = {m, n, c}
  OBVIOUS
<1>10. Cardinality(Before) = 2 /\ Cardinality(Doubled) = 3 /\ Cardinality(Moved) = 2
  BY <1>2, <1>4, <1>5, <1>6, <1>7
<1>11. /\ Before \cup {c} = Doubled /\ {k \in Doubled : k.id # Original} = Moved
       /\ ~(\A k \in Doubled : k.id # Original)
  BY <1>1, <1>2, <1>8, <1>9 DEF Original
<1>12. Before # Doubled /\ Before # Moved /\ Doubled # Moved
  BY <1>1, <1>2
<1> QED BY <1>10, <1>11, <1>12 DEF c

\* A move by what it does next.
LEMMA MoveDoes ==
  ASSUME TypeInv, MoveInv, cmd.op = "move", touched = {}, NEW do, Doing(do)
  PROVE  /\ do \in {"begin", "copy", "copied", "wait", "remove", "removed"}
         /\ lane \in {Before, Doubled, Moved}
         /\ do = "begin" => lane = Before /\ late = {}
         /\ do # "begin" => counts.before = 2
         /\ do = "copy" =>
              /\ todo = <<Lane("copy"), Lane("copied"), Lane("remove"), Lane("removed")>>
              /\ lane = Before /\ late = {}
         /\ do = "copied" =>
              /\ Tail(todo) = <<Lane("remove"), Lane("removed")>>
              /\ This = Lane("copied") \/ This = OnceMore("copied")
              /\ late \subseteq {<<"copy", 0>>} /\ ((lane = Before /\ late = {}) \/ lane = Doubled)
         /\ do = "remove" =>
              /\ todo = <<Lane("remove"), Lane("removed")>> /\ lane = Doubled /\ late = {}
              /\ counts.copied = 3
         /\ do = "removed" =>
              /\ Tail(todo) = <<>> /\ counts.copied = 3
              /\ This = Lane("removed") \/ This = OnceMore("removed")
              /\ late \subseteq {<<"remove", 0>>} /\ ((lane = Doubled /\ late = {}) \/ lane = Moved)
         /\ do = "wait" =>
              \/ /\ Tail(todo) = <<OnceMore("copied"), Lane("remove"), Lane("removed")>>
                 /\ lane \in {Before, Doubled}
              \/ /\ Tail(todo) = <<OnceMore("removed")>> /\ counts.copied = 3
                 /\ lane \in {Doubled, Moved}
<1>1. /\ \A x \in {"begin", "copy", "copied", "remove", "removed", "wait"} : Lane(x).do = x
      /\ \A x \in {"copied", "removed"} : OnceMore(x).do = x
      /\ Wait.do = "wait"
  BY DEF Lane, Stmt, OnceMore, Wait
<1>2. /\ \A a : Head(<<a>>) = a
      /\ \A a, b : Head(<<a, b>>) = a
      /\ \A a, b, c : Head(<<a, b, c>>) = a
      /\ \A a, b, c, d : Head(<<a, b, c, d>>) = a
  OBVIOUS
<1>3. /\ answer = "none" /\ todo # <<>> /\ Head(todo).do = do /\ This = Head(todo)
  BY DEF Doing, This
<1>4. /\ lane \in {Before, Doubled, Moved}
      /\ \/ todo = <<Lane("begin")>> /\ lane = Before /\ late = {}
         \/ counts.before = 2 /\ (Copying \/ Removing)
  BY <1>3 DEF MoveInv
<1>5. CASE todo = <<Lane("begin")>> /\ lane = Before /\ late = {}
  <2>1. do = "begin"
    BY <1>1, <1>2, <1>3, <1>5
  <2> QED BY <1>4, <1>5, <2>1
<1>6. CASE counts.before = 2 /\ Copying
  <2>1. CASE todo = <<Lane("copy"), Lane("copied"), Lane("remove"), Lane("removed")>>
             /\ lane = Before /\ late = {}
    <3>1. do = "copy"
      BY <1>1, <1>2, <1>3, <2>1
    <3> QED BY <1>4, <1>6, <2>1, <3>1
  <2>2. CASE /\ todo \in {<<Lane("copied"), Lane("remove"), Lane("removed")>>,
                         <<OnceMore("copied"), Lane("remove"), Lane("removed")>>}
             /\ late \subseteq {<<"copy", 0>>} /\ ((lane = Before /\ late = {}) \/ lane = Doubled)
    <3>1. do = "copied" /\ (This = Lane("copied") \/ This = OnceMore("copied"))
      BY <1>1, <1>2, <1>3, <2>2
    <3>2. Tail(todo) = <<Lane("remove"), Lane("removed")>>
      <4>1. \A x : Tail(<<x, Lane("remove"), Lane("removed")>>) = <<Lane("remove"), Lane("removed")>>
        BY MoveTuples
      <4> QED BY <2>2, <4>1
    <3> QED BY <1>4, <1>6, <2>2, <3>1, <3>2
  <2>3. CASE /\ todo = <<Wait, OnceMore("copied"), Lane("remove"), Lane("removed")>>
             /\ lane \in {Before, Doubled}
    <3>1. do = "wait"
      BY <1>1, <1>2, <1>3, <2>3
    <3>2. Tail(todo) = <<OnceMore("copied"), Lane("remove"), Lane("removed")>>
      BY <2>3, MoveTuples
    <3> QED BY <1>4, <1>6, <2>3, <3>1, <3>2
  <2> QED BY <1>6, <2>1, <2>2, <2>3 DEF Copying
<1>7. CASE counts.before = 2 /\ Removing
  <2>1. CASE todo = <<Lane("remove"), Lane("removed")>> /\ lane = Doubled /\ late = {}
    <3>1. do = "remove"
      BY <1>1, <1>2, <1>3, <2>1
    <3> QED BY <1>4, <1>7, <2>1, <3>1 DEF Removing
  <2>2. CASE /\ todo \in {<<Lane("removed")>>, <<OnceMore("removed")>>}
             /\ late \subseteq {<<"remove", 0>>} /\ ((lane = Doubled /\ late = {}) \/ lane = Moved)
    <3>1. do = "removed" /\ (This = Lane("removed") \/ This = OnceMore("removed"))
      BY <1>1, <1>2, <1>3, <2>2
    <3>2. Tail(todo) = <<>>
      BY <2>2, MoveTuples
    <3> QED BY <1>4, <1>7, <2>2, <3>1, <3>2 DEF Removing
  <2>3. CASE todo = <<Wait, OnceMore("removed")>> /\ lane \in {Doubled, Moved}
    <3>1. do = "wait"
      BY <1>1, <1>2, <1>3, <2>3
    <3>2. Tail(todo) = <<OnceMore("removed")>>
      BY <2>3, MoveTuples
    <3> QED BY <1>4, <1>7, <2>3, <3>1, <3>2 DEF Removing
  <2> QED BY <1>7, <2>1, <2>2, <2>3 DEF Removing
<1> QED BY <1>4, <1>5, <1>6, <1>7

LEMMA MoveStep ==
  ASSUME TypeInv, MoveInv, [Next]_vars
  PROVE  MoveInv'
<1>1. CASE UNCHANGED vars
  BY <1>1 DEF vars, MoveInv, Copying, Removing
<1>2. CASE Next
  <2> SUFFICES ASSUME cmd' = cmd, cmd.op = "move", touched' = {}
               PROVE  /\ lane' \in {Before, Doubled, Moved}
                      /\ \/ answer' \notin {"none", "ok"}
                         \/ todo' = <<Lane("begin")>> /\ lane' = Before /\ late' = {}
                         \/ counts'.before = 2 /\ (Copying' \/ Removing')
                         \/ todo' = <<>> /\ lane' = Moved
    BY <1>2, CmdStays DEF MoveInv
  <2>1. touched = {} /\ ~UserEdits
    <3>1. CASE UserEdits
      BY <3>1 DEF UserEdits
    <3>2. CASE ~UserEdits
      <4>1. CASE Begin \/ RefuseNow \/ WriteProperty \/ CallMethod \/ Obtain \/ HasEnvelopes \/ ReadBack
        BY <3>2, <4>1 DEF Begin, RefuseNow, WriteProperty, CallMethod, Obtain, HasEnvelopes, ReadBack, User
      <4>2. CASE CopyClip \/ Copied \/ RemoveClip \/ Removed \/ CreateTrack \/ NameTrack
        BY <3>2, <4>2 DEF CopyClip, Copied, RemoveClip, Removed, CreateTrack, NameTrack, User
      <4>3. CASE FadeStep \/ FadeUntil \/ Reply \/ Raises \/ TickPasses \/ Quits
        BY <3>2, <4>3 DEF FadeStep, FadeUntil, Reply, Raises, TickPasses, Quits, User
      <4> QED BY <1>2, <3>2, <4>1, <4>2, <4>3 DEF Next, Step
    <3> QED BY <3>1, <3>2
  <2>2. lane \in {Before, Doubled, Moved}
    BY <2>1 DEF MoveInv
  <2>3. ASSUME NEW a \in {"refused", "failed", "raised", "rejected"}, Answered(a), lane' = lane
        PROVE  answer' \notin {"none", "ok"} /\ lane' \in {Before, Doubled, Moved}
    BY <2>2, <2>3 DEF Answered
  <2>4. /\ Wait = Lane("wait")
        /\ \A x \in {"copied", "removed"} : Lane(x).tries = 0 /\ OnceMore(x).tries = 1
        /\ \A x \in {"copied", "removed"} : [Lane(x) EXCEPT !.tries = 1] = OnceMore(x)
    BY DEF Wait, Lane, Stmt, OnceMore
  <2>5. CASE Begin
    <3>1. lane = Before /\ late = {}
      BY <2>1, <2>5, MoveDoes DEF Begin
    <3>2. lane' = Before /\ late' = {}
      BY <2>5, <3>1 DEF Begin, Set
    <3>3. CASE Answered("refused")
      BY <2>3, <3>1, <3>2, <3>3
    <3>4. CASE /\ todo' = Handler(cmd)
               /\ counts' = [counts EXCEPT !.before = IF cmd.op \in Creating THEN Len(tracks) ELSE Listed]
      <4>1. todo' = <<Lane("copy"), Lane("copied"), Lane("remove"), Lane("removed")>>
        BY <3>4, HandlerOf DEF TypeInv
      <4>2. Listed = 2
        BY <3>1, MoveLanes DEF Listed
      <4>3. counts'.before = 2
        BY <3>4, <4>2 DEF TypeInv, MemoOK, Creating
      <4> QED BY <3>2, <4>1, <4>3 DEF Copying
    <3> QED BY <2>5, <3>3, <3>4 DEF Begin
  <2>6. CASE CopyClip
    <3>1. /\ Doing("copy") /\ lane = Before /\ late = {} /\ counts.before = 2
          /\ todo = <<Lane("copy"), Lane("copied"), Lane("remove"), Lane("removed")>>
      BY <2>1, <2>6, MoveDoes DEF CopyClip
    <3>2. todo' = <<Lane("copied"), Lane("remove"), Lane("removed")>> /\ counts' = counts
      BY <2>6, <3>1, MoveTuples DEF CopyClip, Proceed, Memo
    <3>3. \/ lane' = Doubled /\ late' \subseteq {<<"copy", 0>>}
          \/ lane' = Before /\ late' = {}
      BY <2>6, <3>1, MoveLanes DEF CopyClip
    <3> QED BY <3>1, <3>2, <3>3 DEF Copying
  <2>7. CASE Copied
    <3>1. /\ Tail(todo) = <<Lane("remove"), Lane("removed")>> /\ counts.before = 2
          /\ This = Lane("copied") \/ This = OnceMore("copied")
          /\ late \subseteq {<<"copy", 0>>} /\ ((lane = Before /\ late = {}) \/ lane = Doubled)
      BY <2>1, <2>7, MoveDoes DEF Copied
    <3>2. lane' = lane /\ late' = late /\ counts \in [before : Nat, copied : Nat]
      BY <2>7 DEF Copied, Set, TypeInv, MemoOK
    <3>3. CASE Listed > 2 /\ Proceed /\ counts' = [counts EXCEPT !.copied = Listed]
      <4>1. lane = Doubled /\ late = {} /\ Listed = 3
        <5>1. <<"remove", 0>> \notin late
          BY <3>1
        <5>2. CASE lane = Before /\ late = {}
          BY <3>3, <5>2, MoveLanes DEF Listed
        <5>3. CASE lane = Doubled
          BY <3>1, <3>3, <5>1, <5>3, MoveLanes DEF Listed
        <5> QED BY <3>1, <5>2, <5>3
      <4>2. counts'.before = 2 /\ counts'.copied = 3
        BY <3>1, <3>2, <3>3, <4>1
      <4> QED BY <3>1, <3>2, <3>3, <4>1, <4>2 DEF Removing, Proceed
    <3>4. CASE This.tries = 0 /\ todo' = <<Wait, [This EXCEPT !.tries = 1]>> \o Tail(todo) /\ counts' = counts
      <4>1. This = Lane("copied")
        BY <2>4, <3>1, <3>4
      <4>2. todo' = <<Wait, OnceMore("copied")>> \o <<Lane("remove"), Lane("removed")>>
        BY <2>4, <3>1, <3>4, <4>1
      <4>3. todo' = <<Wait, OnceMore("copied"), Lane("remove"), Lane("removed")>>
        <5> DEFINE b == OnceMore("copied")  r == Lane("remove")  d == Lane("removed")
        <5>1. todo' = <<Wait, b>> \o <<r, d>>
          BY <4>2
        <5> HIDE DEF b, r, d
        <5>2. <<Wait, b>> \o <<r, d>> = <<Wait, b, r, d>>
          BY TwoAndTwo, Zenon
        <5>3. todo' = <<Wait, b, r, d>>
          BY <5>1, <5>2
        <5> QED BY <5>3 DEF b, r, d
      <4> QED BY <3>1, <3>2, <3>4, <4>3 DEF Copying
    <3>5. CASE Answered("failed")
      BY <2>3, <3>2, <3>5
    <3> QED BY <2>7, <3>1, <3>3, <3>4, <3>5 DEF Copied
  <2>8. CASE RemoveClip
    <3>1. /\ todo = <<Lane("remove"), Lane("removed")>> /\ lane = Doubled /\ late = {}
          /\ counts.copied = 3 /\ counts.before = 2
      BY <2>1, <2>8, MoveDoes DEF RemoveClip
    <3>2. Proceed /\ counts' = counts
      BY <2>8, <3>1, MoveLanes DEF RemoveClip, Memo
    <3>3. todo' = <<Lane("removed")>>
      BY <3>1, <3>2, MoveTuples DEF Proceed
    <3>4. \/ lane' = Moved /\ late' \subseteq {<<"remove", 0>>}
          \/ lane' = Doubled /\ late' = {}
      BY <2>8, <3>1, MoveLanes DEF RemoveClip
    <3> QED BY <3>1, <3>2, <3>3, <3>4 DEF Removing
  <2>9. CASE Removed
    <3>1. /\ Tail(todo) = <<>> /\ counts.copied = 3 /\ counts.before = 2
          /\ This = Lane("removed") \/ This = OnceMore("removed")
          /\ late \subseteq {<<"remove", 0>>} /\ ((lane = Doubled /\ late = {}) \/ lane = Moved)
      BY <2>1, <2>9, MoveDoes DEF Removed
    <3>2. lane' = lane /\ late' = late /\ counts' = counts
      BY <2>9 DEF Removed, Set, Memo
    <3>3. CASE Proceed /\ Listed = counts.before
      <4>1. lane = Moved
        BY <3>1, <3>3, MoveLanes DEF Listed
      <4> QED BY <3>1, <3>2, <3>3, <4>1 DEF Proceed
    <3>4. CASE Answered("failed")
      BY <2>3, <3>2, <3>4
    <3>5. CASE This.tries # 1 /\ todo' = <<Wait, [This EXCEPT !.tries = 1]>> \o Tail(todo)
      <4>1. This = Lane("removed")
        BY <2>4, <3>1, <3>5
      <4>2. todo' = <<Wait, OnceMore("removed")>> \o <<>>
        BY <2>4, <3>1, <3>5, <4>1
      <4>3. todo' = <<Wait, OnceMore("removed")>>
        BY <4>2, MoveTuples
      <4> QED BY <3>1, <3>2, <4>3 DEF Removing
    <3> QED BY <2>9, <3>3, <3>4, <3>5 DEF Removed
  <2>10. CASE TickPasses
    <3>1. Doing("wait") /\ todo' = Tail(todo) /\ lane' = lane /\ late' = {} /\ counts' = counts
      BY <2>10 DEF TickPasses, Proceed
    <3>2. counts.before = 2
      BY <2>1, <3>1, MoveDoes
    <3>3. \/ /\ Tail(todo) = <<OnceMore("copied"), Lane("remove"), Lane("removed")>>
             /\ lane \in {Before, Doubled}
          \/ /\ Tail(todo) = <<OnceMore("removed")>> /\ counts.copied = 3
             /\ lane \in {Doubled, Moved}
      BY <2>1, <3>1, MoveDoes
    <3> QED BY <3>1, <3>2, <3>3 DEF Copying, Removing
  <2>11. CASE Raises \/ RefuseNow
    <3>1. lane' = lane /\ (Answered("raised") \/ Answered("refused"))
      BY <2>11 DEF Raises, RefuseNow, Set
    <3> QED BY <2>3, <3>1
  <2>12. CASE Quits
    BY <2>1, <2>2, <2>12 DEF Quits, Memo, MoveInv, TypeInv, AnswerOK, Copying, Removing
  <2>13. CASE Reply
    <3>1. todo = <<>> /\ answer = "none" /\ todo' = todo /\ lane' = lane
      BY <2>13 DEF Reply, Set
    <3>2. ~Copying /\ ~Removing /\ todo # <<Lane("begin")>>
      BY <3>1 DEF Copying, Removing
    <3> QED BY <2>1, <3>1, <3>2 DEF MoveInv
  <2>14. CASE WriteProperty \/ CallMethod \/ Obtain \/ HasEnvelopes \/ ReadBack \/ CreateTrack
              \/ NameTrack \/ FadeStep \/ FadeUntil
    <3>1. PICK do \in {"write", "call", "obtain", "has_envelopes", "see", "create", "name", "step", "until"} :
            Doing(do)
      BY <2>14 DEF WriteProperty, CallMethod, Obtain, HasEnvelopes, ReadBack, CreateTrack, NameTrack,
                   FadeStep, FadeUntil
    <3> QED BY <2>1, <3>1, MoveDoes
  <2> QED BY <1>2, <2>1, <2>5, <2>6, <2>7, <2>8, <2>9, <2>10, <2>11, <2>12, <2>13, <2>14 DEF Next, Step
<1> QED BY <1>1, <1>2

\* A move is a copy and a deletion: at no point of it, and however it ends, is the clip
\* lost, and a success leaves it once, however Live delays or drops either call, unless the
\* user edits the lane meanwhile (arrangement.py:217-271).
THEOREM MovesKeepTheClip == Spec => []MoveKeepsClip
<1>1. Init => MoveInv
  <2> SUFFICES ASSUME Init PROVE MoveInv
    OBVIOUS
  <2>1. lane = Before
    BY DEF Init, Before, Mine, Neighbour
  <2> QED BY <2>1 DEF Init, MoveInv
<1>2. TypeInv /\ MoveInv /\ [Next]_vars => MoveInv'
  BY MoveStep
<1>3. TypeInv /\ MoveInv => MoveKeepsClip
  <2> SUFFICES ASSUME TypeInv, MoveInv, cmd.op = "move", touched = {}
               PROVE  /\ \E c \in lane : c.of = "mine"
                      /\ answer = "ok" => /\ \E c \in lane : c.of = "mine" /\ c.id # Original
                                          /\ Cardinality({c \in lane : c.of = "mine"}) = 1
    BY DEF MoveKeepsClip
  <2> DEFINE m == Mine  n == Neighbour  k == Copy("mine")
  <2>1. m.of = "mine" /\ n.of = "other" /\ k.of = "mine" /\ k.id # Original
    BY DEF Mine, Neighbour, Copy, Original
  <2>2. Before = {m, n} /\ Doubled = {m, n, k} /\ Moved = {n, k}
    BY DEF Before, Doubled, Moved
  <2> HIDE DEF m, n, k
  <2>3. \E c \in lane : c.of = "mine"
    BY <2>1, <2>2 DEF MoveInv
  <2>4. ASSUME answer = "ok"
        PROVE  lane = Moved
    <3>1. todo = <<>>
      BY <2>4 DEF TypeInv, AnswerOK
    <3>2. ~Copying /\ ~Removing /\ todo # <<Lane("begin")>>
      BY <3>1 DEF Copying, Removing
    <3> QED BY <2>4, <3>2 DEF MoveInv
  <2>5. {c \in Moved : c.of = "mine"} = {k} /\ k \in Moved
    BY <2>1, <2>2
  <2>6. Cardinality({k}) = 1
    BY FS_Singleton
  <2> QED BY <2>1, <2>3, <2>4, <2>5, <2>6
<1> QED BY <1>1, <1>2, <1>3, AlwaysTyped, PTL DEF Spec

(*************************** what an address means *************************)
DeviceType == [params : Seq(STRING), chains : Seq([inner : Seq(Seq(STRING))])]

LEMMA TreeShape ==
  ASSUME TypeInv
  PROVE  /\ tree \in Seq(DeviceType) /\ None \notin DOMAIN tree
         /\ \A d \in DOMAIN tree : None \notin DOMAIN tree[d].chains
<1>1. tree \in Seq(DeviceType)
  <2>1. Trees \subseteq Seq(DeviceType)
    BY HandlersAssumption DEF DeviceType
  <2>2. <<>> \in Seq(DeviceType)
    OBVIOUS
  <2>3. tree \in Trees \/ tree = <<>>
    BY DEF TypeInv
  <2> QED BY <2>1, <2>2, <2>3
<1>2. ASSUME NEW d \in DOMAIN tree
      PROVE  tree[d].chains \in Seq([inner : Seq(Seq(STRING))])
  <2>1. tree[d] \in DeviceType
    BY <1>1
  <2> QED BY <2>1 DEF DeviceType
<1> QED BY <1>1, <1>2, SeqDomain DEF None

\* The parameters of a track are those of its mixer, of its devices, and of the chains.
LEMMA ParametersAre ==
  /\ \A i \in DOMAIN Mixer : Parameter(Mixer[i], Place(None, None, None, i)) \in AllParameters
  /\ \A d \in DOMAIN tree : \A i \in DOMAIN tree[d].params :
       Parameter(tree[d].params[i], Place(d, None, None, i)) \in AllParameters
  /\ \A d \in DOMAIN tree : \A c \in DOMAIN tree[d].chains : \A i \in DOMAIN Mixer :
       Parameter(Mixer[i], Place(d, c, None, i)) \in AllParameters
  /\ \A d \in DOMAIN tree : \A c \in DOMAIN tree[d].chains :
       \A n \in DOMAIN tree[d].chains[c].inner : \A i \in DOMAIN tree[d].chains[c].inner[n] :
         Parameter(tree[d].chains[c].inner[n][i], Place(d, c, n, i)) \in AllParameters
  /\ \A p \in AllParameters :
       \/ \E i \in DOMAIN Mixer : p = Parameter(Mixer[i], Place(None, None, None, i))
       \/ \E d \in DOMAIN tree : \E i \in DOMAIN tree[d].params :
            p = Parameter(tree[d].params[i], Place(d, None, None, i))
       \/ \E d \in DOMAIN tree : \E c \in DOMAIN tree[d].chains : \E n, i :
            p.place = Place(d, c, n, i)
<1> DEFINE A == {Parameter(Mixer[i], Place(None, None, None, i)) : i \in DOMAIN Mixer}
           B(d) == {Parameter(tree[d].params[i], Place(d, None, None, i)) : i \in DOMAIN tree[d].params}
           C(d, c) == {Parameter(Mixer[i], Place(d, c, None, i)) : i \in DOMAIN Mixer}
           D(d, c, n) == {Parameter(tree[d].chains[c].inner[n][i], Place(d, c, n, i)) :
                            i \in DOMAIN tree[d].chains[c].inner[n]}
           Inners(d, c) == UNION {D(d, c, n) : n \in DOMAIN tree[d].chains[c].inner}
           Chains(d) == UNION {C(d, c) \cup Inners(d, c) : c \in DOMAIN tree[d].chains}
           Devices == UNION {B(d) \cup Chains(d) : d \in DOMAIN tree}
<1>1. AllParameters = A \cup Devices
  BY DEF AllParameters
<1>2. /\ \A i \in DOMAIN Mixer : Parameter(Mixer[i], Place(None, None, None, i)) \in A
      /\ \A p \in A : \E i \in DOMAIN Mixer : p = Parameter(Mixer[i], Place(None, None, None, i))
  OBVIOUS
<1>3. ASSUME NEW d
      PROVE  /\ \A i \in DOMAIN tree[d].params :
                  Parameter(tree[d].params[i], Place(d, None, None, i)) \in B(d)
             /\ \A p \in B(d) : \E i \in DOMAIN tree[d].params :
                  p = Parameter(tree[d].params[i], Place(d, None, None, i))
  OBVIOUS
<1>4. ASSUME NEW d, NEW c
      PROVE  /\ \A i \in DOMAIN Mixer : Parameter(Mixer[i], Place(d, c, None, i)) \in C(d, c)
             /\ \A p \in C(d, c) : \E i : p.place = Place(d, c, None, i)
  BY DEF Parameter
<1>5. ASSUME NEW d, NEW c, NEW n
      PROVE  /\ \A i \in DOMAIN tree[d].chains[c].inner[n] :
                  Parameter(tree[d].chains[c].inner[n][i], Place(d, c, n, i)) \in D(d, c, n)
             /\ \A p \in D(d, c, n) : \E i : p.place = Place(d, c, n, i)
  BY DEF Parameter
<1> HIDE DEF A, B, C, D
<1>6. ASSUME NEW d, NEW c
      PROVE  /\ \A n \in DOMAIN tree[d].chains[c].inner : D(d, c, n) \subseteq Inners(d, c)
             /\ \A p \in Inners(d, c) : \E n, i : p.place = Place(d, c, n, i)
  BY <1>5
<1> HIDE DEF Inners
<1>7. ASSUME NEW d
      PROVE  /\ \A c \in DOMAIN tree[d].chains : C(d, c) \subseteq Chains(d) /\ Inners(d, c) \subseteq Chains(d)
             /\ \A p \in Chains(d) : \E c \in DOMAIN tree[d].chains : \E n, i : p.place = Place(d, c, n, i)
  BY <1>4, <1>6
<1> HIDE DEF Chains
<1>8. /\ \A d \in DOMAIN tree : B(d) \subseteq Devices /\ Chains(d) \subseteq Devices
      /\ \A p \in Devices : \E d \in DOMAIN tree : p \in B(d) \/ p \in Chains(d)
  OBVIOUS
<1> HIDE DEF Devices
<1>9. \A d \in DOMAIN tree : \A c \in DOMAIN tree[d].chains :
        C(d, c) \subseteq AllParameters /\ Inners(d, c) \subseteq AllParameters
  BY <1>1, <1>7, <1>8
<1>10. \A d \in DOMAIN tree : \A c \in DOMAIN tree[d].chains :
         \A n \in DOMAIN tree[d].chains[c].inner : D(d, c, n) \subseteq AllParameters
  BY <1>6, <1>9
<1>11. \A d \in DOMAIN tree : \A c \in DOMAIN tree[d].chains :
         \A n \in DOMAIN tree[d].chains[c].inner : \A i \in DOMAIN tree[d].chains[c].inner[n] :
           Parameter(tree[d].chains[c].inner[n][i], Place(d, c, n, i)) \in AllParameters
  BY <1>5, <1>10
<1>12. \A d \in DOMAIN tree : \A c \in DOMAIN tree[d].chains : \A i \in DOMAIN Mixer :
         Parameter(Mixer[i], Place(d, c, None, i)) \in AllParameters
  BY <1>4, <1>9
<1>13. \A d \in DOMAIN tree : \A i \in DOMAIN tree[d].params :
         Parameter(tree[d].params[i], Place(d, None, None, i)) \in AllParameters
  BY <1>1, <1>3, <1>8
<1>14. ASSUME NEW p \in AllParameters
       PROVE  \/ \E i \in DOMAIN Mixer : p = Parameter(Mixer[i], Place(None, None, None, i))
              \/ \E d \in DOMAIN tree : \E i \in DOMAIN tree[d].params :
                   p = Parameter(tree[d].params[i], Place(d, None, None, i))
              \/ \E d \in DOMAIN tree : \E c \in DOMAIN tree[d].chains : \E n, i :
                   p.place = Place(d, c, n, i)
  <2>1. CASE p \in A
    BY <1>2, <2>1
  <2>2. CASE p \in Devices
    BY <1>3, <1>7, <1>8, <2>2
  <2> QED BY <1>1, <2>1, <2>2
<1> QED BY <1>1, <1>2, <1>11, <1>12, <1>13, <1>14

LEMMA NamedIs ==
  ASSUME NEW S, NEW names \in Seq(S), NEW name, NEW d, NEW c, NEW n,
         Named(names, name, d, c, n) # Nowhere
  PROVE  \E i \in DOMAIN names : names[i] = name /\ Named(names, name, d, c, n) = Place(d, c, n, i)
<1> DEFINE found == Positions(names, name)
           First(i) == \A j \in found : i <= j
<1>1. found # {} /\ Named(names, name, d, c, n) = Place(d, c, n, CHOOSE i \in found : First(i))
  BY DEF Named
<1>2. found \subseteq Nat /\ \A i \in found : i \in DOMAIN names /\ names[i] = name
  BY SeqDomain DEF Positions
<1> HIDE DEF found
<1>3. PICK u \in found : \A v \in found : ~(<<v, u>> \in OpToRel(<, Nat))
  BY <1>1, <1>2, NatLessThanWellFounded, WFMin, Zenon
<1>4. First(u)
  <2>1. \A v \in found : ~(v < u)
    BY <1>2, <1>3 DEF OpToRel
  <2> QED BY <1>2, <2>1
<1> HIDE DEF First
<1>5. (CHOOSE i \in found : First(i)) \in found
  BY <1>3, <1>4
<1> QED BY <1>1, <1>2, <1>5

LEMMA CandidatesAreFinite ==
  ASSUME TypeInv
  PROVE  IsFiniteSet(Candidates(tree, cmd))
<1> DEFINE Those == IF cmd.dev = None THEN DOMAIN tree ELSE DOMAIN tree \cap {cmd.dev}
           Spots(d) == Positions(tree[d].params, cmd.name)
           At(d) == {Place(d, None, None, i) : i \in Spots(d)}
           all == {At(d) : d \in Those}
<1>1. Candidates(tree, cmd) = UNION all
  BY DEF Candidates
<1>2. IsFiniteSet(Those) /\ Those \subseteq DOMAIN tree
  <2>1. DOMAIN tree = 1..Len(tree) /\ Len(tree) \in Nat
    BY TreeShape, SeqDomain
  <2>2. IsFiniteSet(1..Len(tree))
    BY <2>1, FS_Interval
  <2>3. Those \in SUBSET (1..Len(tree))
    BY <2>1
  <2> HIDE DEF Those
  <2> QED BY <2>1, <2>2, <2>3, FS_Subset
<1> HIDE DEF Those
<1>3. ASSUME NEW d \in Those
      PROVE  IsFiniteSet(At(d))
  <2>1. tree[d] \in DeviceType
    BY <1>2, TreeShape
  <2> DEFINE names == tree[d].params
  <2>2. names \in Seq(STRING)
    BY <2>1 DEF DeviceType
  <2>3. Spots(d) \in SUBSET (1..Len(names)) /\ Len(names) \in Nat
    <3>1. Spots(d) \subseteq DOMAIN names
      BY DEF Positions
    <3> HIDE DEF names
    <3> QED BY <2>2, <3>1, SeqDomain
  <2>4. IsFiniteSet(1..Len(names))
    BY <2>3, FS_Interval
  <2> HIDE DEF names, Spots
  <2>5. IsFiniteSet(Spots(d))
    BY <2>3, <2>4, FS_Subset
  <2> DEFINE f == [i \in Spots(d) |-> Place(d, None, None, i)]
  <2>6. f \in Surjection(Spots(d), At(d))
    BY DEF Surjection
  <2> QED BY <2>5, <2>6, FS_Surjection
<1> HIDE DEF At
<1> DEFINE g == [d \in Those |-> At(d)]
<1>4. g \in Surjection(Those, all)
  BY DEF Surjection
<1>5. IsFiniteSet(all)
  BY <1>2, <1>4, FS_Surjection
<1>6. \A T \in all : IsFiniteSet(T)
  BY <1>3
<1> HIDE DEF g, all
<1> QED BY <1>1, <1>5, <1>6, FS_UNION

LEMMA ElementOf ==
  ASSUME NEW S, NEW s \in Seq(S), NEW i \in DOMAIN s
  PROVE  s[i] \in S
  OBVIOUS

\* An address of a device in a chain, or of the mixer of the chain.
LEMMA ChainMeans ==
  ASSUME TypeInv, cmd.dev \in DOMAIN tree, cmd.chain # None, InChain(tree, cmd) # Nowhere
  PROVE  \E p \in Meant : p.place = InChain(tree, cmd)
<1> DEFINE d == cmd.dev  c == cmd.chain  n == cmd.inner
<1>1. c \in DOMAIN tree[d].chains
  BY DEF InChain
<1>2. ASSUME NEW S, NEW names \in Seq(S), InChain(tree, cmd) = Named(names, cmd.name, d, c, n),
             \A i \in DOMAIN names : Parameter(names[i], Place(d, c, n, i)) \in AllParameters
      PROVE  \E p \in Meant : p.place = InChain(tree, cmd)
  <2>1. PICK i \in DOMAIN names : /\ names[i] = cmd.name
                                  /\ Named(names, cmd.name, d, c, n) = Place(d, c, n, i)
    BY <1>2, NamedIs
  <2> DEFINE p == Parameter(names[i], Place(d, c, n, i))
  <2>2. /\ p.name = cmd.name /\ p.place = Place(d, c, n, i)
        /\ p.place.dev = d /\ p.place.chain = c /\ p.place.inner = n
    BY <2>1 DEF Parameter, Place
  <2>3. p \in AllParameters
    BY <1>2
  <2> HIDE DEF p
  <2>4. p \in Meant
    BY <2>2, <2>3 DEF Meant
  <2> QED BY <1>2, <2>1, <2>2, <2>4
<1>3. CASE n = None
  <2>1. InChain(tree, cmd) = Named(Mixer, cmd.name, d, c, n)
    BY <1>1, <1>3 DEF InChain
  <2>2. Mixer \in Seq({"volume", "panning"})
    BY DEF Mixer
  <2>3. \A i \in DOMAIN Mixer : Parameter(Mixer[i], Place(d, c, n, i)) \in AllParameters
    BY <1>1, <1>3, ParametersAre
  <2> QED BY <1>2, <2>1, <2>2, <2>3
<1>4. CASE n # None
  <2> DEFINE names == tree[d].chains[c].inner[n]
  <2>1. n \in DOMAIN tree[d].chains[c].inner /\ InChain(tree, cmd) = Named(names, cmd.name, d, c, n)
    BY <1>1, <1>4 DEF InChain
  <2>2. names \in Seq(STRING)
    <3>1. tree[d] \in DeviceType
      BY TreeShape
    <3>2. tree[d].chains \in Seq([inner : Seq(Seq(STRING))])
      BY <3>1 DEF DeviceType
    <3>3. tree[d].chains[c] \in [inner : Seq(Seq(STRING))]
      BY <1>1, <3>2, ElementOf
    <3>4. tree[d].chains[c].inner \in Seq(Seq(STRING))
      BY <3>3
    <3> QED BY <2>1, <3>4
  <2>3. \A i \in DOMAIN names : Parameter(names[i], Place(d, c, n, i)) \in AllParameters
    BY <1>1, <2>1, ParametersAre
  <2> HIDE DEF names
  <2> QED BY <1>2, <2>1, <2>2, <2>3
<1> QED BY <1>3, <1>4

\* A name without a chain, of a device that need not be given: the candidates are the
\* parameters that are meant.
LEMMA CandidatesAreMeant ==
  ASSUME TypeInv, cmd.chain = None, Positions(Mixer, cmd.name) = {}
  PROVE  Meant = {Parameter(cmd.name, q) : q \in Candidates(tree, cmd)}
<1> DEFINE Those == IF cmd.dev = None THEN DOMAIN tree ELSE DOMAIN tree \cap {cmd.dev}
           At(d) == {Place(d, None, None, i) : i \in Positions(tree[d].params, cmd.name)}
<1>1. Candidates(tree, cmd) = UNION {At(d) : d \in Those}
  BY DEF Candidates
<1>2. ASSUME NEW p \in Meant
      PROVE  \E q \in Candidates(tree, cmd) : p = Parameter(cmd.name, q)
  <2>1. /\ p \in AllParameters /\ p.name = cmd.name /\ p.place.chain = None
        /\ cmd.dev # None => p.place.dev = cmd.dev
    BY DEF Meant
  <2>2. CASE \E i \in DOMAIN Mixer : p = Parameter(Mixer[i], Place(None, None, None, i))
    <3>1. PICK i \in DOMAIN Mixer : p = Parameter(Mixer[i], Place(None, None, None, i))
      BY <2>2
    <3>2. Mixer[i] = cmd.name
      BY <2>1, <3>1 DEF Parameter
    <3>3. i \in Positions(Mixer, cmd.name)
      BY <3>2 DEF Positions
    <3> QED BY <3>3
  <2>3. CASE \E d \in DOMAIN tree : \E i \in DOMAIN tree[d].params :
               p = Parameter(tree[d].params[i], Place(d, None, None, i))
    <3>1. PICK d \in DOMAIN tree : \E i \in DOMAIN tree[d].params :
                 p = Parameter(tree[d].params[i], Place(d, None, None, i))
      BY <2>3
    <3>2. PICK i \in DOMAIN tree[d].params : p = Parameter(tree[d].params[i], Place(d, None, None, i))
      BY <3>1
    <3>3. tree[d].params[i] = cmd.name /\ p.place.dev = d
      BY <2>1, <3>2 DEF Parameter, Place
    <3>4. d \in Those
      BY <2>1, <3>3
    <3>5. i \in Positions(tree[d].params, cmd.name)
      BY <3>3 DEF Positions
    <3>6. Place(d, None, None, i) \in At(d)
      BY <3>5
    <3> HIDE DEF At, Those
    <3>7. Place(d, None, None, i) \in Candidates(tree, cmd)
      BY <1>1, <3>4, <3>6
    <3> QED BY <3>2, <3>3, <3>7
  <2>4. CASE \E d \in DOMAIN tree : \E c \in DOMAIN tree[d].chains : \E n, i :
               p.place = Place(d, c, n, i)
    <3>1. PICK d \in DOMAIN tree : \E c \in DOMAIN tree[d].chains : \E n, i : p.place = Place(d, c, n, i)
      BY <2>4
    <3>2. PICK c \in DOMAIN tree[d].chains : \E n, i : p.place = Place(d, c, n, i)
      BY <3>1
    <3>3. p.place.chain = c
      BY <3>2 DEF Place
    <3> QED BY <2>1, <3>3, TreeShape
  <2> QED BY <2>1, <2>2, <2>3, <2>4, ParametersAre
<1>3. ASSUME NEW q \in Candidates(tree, cmd)
      PROVE  Parameter(cmd.name, q) \in Meant
  <2>1. PICK d \in Those : q \in At(d)
    <3> HIDE DEF At, Those
    <3> QED BY <1>1
  <2>2. PICK i \in Positions(tree[d].params, cmd.name) : q = Place(d, None, None, i)
    BY <2>1
  <2>3. i \in DOMAIN tree[d].params /\ tree[d].params[i] = cmd.name
    BY DEF Positions
  <2>4. d \in DOMAIN tree /\ (cmd.dev # None => d = cmd.dev)
    OBVIOUS
  <2> DEFINE p == Parameter(cmd.name, q)
  <2>5. p \in AllParameters
    BY <2>2, <2>3, <2>4, ParametersAre
  <2>6. p.name = cmd.name /\ p.place.dev = d /\ p.place.chain = None
    BY <2>2 DEF Parameter, Place
  <2> HIDE DEF p
  <2>7. p \in Meant
    BY <2>4, <2>5, <2>6 DEF Meant
  <2> QED BY <2>7 DEF p
<1> QED BY <1>2, <1>3

LEMMA AddressMeans ==
  ASSUME TypeInv, cmd.op \in Addressed, TargetOf(cmd) # Nowhere,
         cmd.op \in EnvelopeOps => cmd.name # "volume"
  PROVE  /\ \E p \in Meant : p.place = TargetOf(cmd)
         /\ cmd.op \in EnvelopeOps /\ cmd.chain = None => Cardinality(Meant) = 1
<1>1. CASE cmd.op = "set_parameter_value"
  <2>1. cmd.op \notin EnvelopeOps /\ TargetOf(cmd) = ForValue(tree, cmd)
    BY <1>1 DEF TargetOf, EnvelopeOps
  <2>2. cmd.dev \in DOMAIN tree
    BY <2>1 DEF ForValue
  <2>3. CASE cmd.chain # None
    <3>1. TargetOf(cmd) = InChain(tree, cmd)
      BY <2>1, <2>2, <2>3 DEF ForValue
    <3> QED BY <2>1, <2>2, <2>3, <3>1, ChainMeans
  <2>4. CASE cmd.chain = None
    <3> DEFINE d == cmd.dev  names == tree[d].params
    <3>1. TargetOf(cmd) = Named(names, cmd.name, d, None, None)
      BY <2>1, <2>2, <2>4 DEF ForValue
    <3>2. names \in Seq(STRING)
      <4>1. tree[d] \in DeviceType
        BY <2>2, TreeShape
      <4> QED BY <4>1 DEF DeviceType
    <3>3. PICK i \in DOMAIN names : /\ names[i] = cmd.name
                                    /\ Named(names, cmd.name, d, None, None) = Place(d, None, None, i)
      <4> HIDE DEF names
      <4> QED BY <3>1, <3>2, NamedIs
    <3> DEFINE p == Parameter(names[i], Place(d, None, None, i))
    <3>4. p.name = cmd.name /\ p.place = Place(d, None, None, i) /\ p.place.dev = d /\ p.place.chain = None
      BY <3>3 DEF Parameter, Place
    <3>5. p \in AllParameters
      BY <2>2, <3>3, ParametersAre
    <3> HIDE DEF p
    <3>6. p \in Meant
      BY <2>4, <3>4, <3>5 DEF Meant
    <3> QED BY <2>1, <3>1, <3>3, <3>4, <3>6
  <2> QED BY <2>3, <2>4
<1>2. CASE cmd.op \in EnvelopeOps
  <2>1. TargetOf(cmd) = ForEnvelope(tree, cmd)
    BY <1>2 DEF TargetOf, EnvelopeOps
  <2>2. cmd.name \in {"macro", "own"}
    BY <1>2 DEF TypeInv, Commands, Addressed, EnvelopeOps, Plain, Creating, Transport
  <2>3. Positions(Mixer, cmd.name) = {}
    BY <2>2 DEF Positions, Mixer
  <2>4. CASE cmd.chain # None
    <3>1. cmd.dev \in DOMAIN tree /\ TargetOf(cmd) = InChain(tree, cmd)
      BY <2>1, <2>3, <2>4 DEF ForEnvelope
    <3> QED BY <2>4, <3>1, ChainMeans
  <2>5. CASE cmd.chain = None
    <3> DEFINE X == Candidates(tree, cmd)
    <3>1. Cardinality(X) = 1 /\ TargetOf(cmd) = CHOOSE q \in X : TRUE
      BY <2>1, <2>3, <2>5 DEF ForEnvelope
    <3>2. Meant = {Parameter(cmd.name, q) : q \in X}
      BY <2>3, <2>5, CandidatesAreMeant
    <3> HIDE DEF X
    <3>3. IsFiniteSet(X)
      BY <3>1, CandidatesAreFinite DEF X
    <3>4. PICK q : X = {q}
      BY <3>1, <3>3, FS_CardinalityType, FS_Singleton, Zenon
    <3>5. Meant = {Parameter(cmd.name, q)} /\ TargetOf(cmd) = q
      BY <3>1, <3>2, <3>4
    <3>6. Parameter(cmd.name, q).place = q
      BY DEF Parameter
    <3>7. Cardinality({Parameter(cmd.name, q)}) = 1
      BY FS_Singleton
    <3> QED BY <3>5, <3>6, <3>7
  <2> QED BY <2>4, <2>5
<1> QED BY <1>1, <1>2 DEF Addressed

MeantInv == target = Nowhere \/ (cmd.op \in Addressed /\ target = TargetOf(cmd))

\* The address of a parameter is looked up before anything is written, for every tree of
\* devices and chains: what is written to is a parameter of the name, in the device, the
\* chain and the device of the chain that the address gives, and an envelope is written only
\* if there is no other (devices.py:243-285, automation.py:332-352).
THEOREM AddressesAreMet == Spec => []WritesTheMeant
<1>1. Init => MeantInv
  BY DEF Init, MeantInv
<1>2. TypeInv /\ MeantInv /\ [Next]_vars => MeantInv'
  <2> SUFFICES ASSUME TypeInv, MeantInv, [Next]_vars PROVE MeantInv'
    OBVIOUS
  <2>1. cmd' = cmd /\ tree' = tree
    BY CmdStays DEF vars
  <2>2. TargetOf(cmd)' = TargetOf(cmd)
    BY <2>1 DEF TargetOf
  <2>3. CASE UNCHANGED target
    BY <2>1, <2>2, <2>3 DEF MeantInv
  <2>4. CASE Begin /\ target' = TargetOf(cmd)
    <3>1. cmd.op \notin Addressed => TargetOf(cmd) = Nowhere
      BY DEF TargetOf, Addressed
    <3> QED BY <2>1, <2>2, <2>4, <3>1 DEF MeantInv
  <2>5. CASE Begin
    BY <2>3, <2>4, <2>5 DEF Begin
  <2>6. CASE RefuseNow \/ WriteProperty \/ CallMethod \/ Obtain \/ HasEnvelopes \/ ReadBack
    BY <2>3, <2>6 DEF RefuseNow, WriteProperty, CallMethod, Obtain, HasEnvelopes, ReadBack, Where
  <2>7. CASE CopyClip \/ Copied \/ RemoveClip \/ Removed \/ CreateTrack \/ NameTrack
    BY <2>3, <2>7 DEF CopyClip, Copied, RemoveClip, Removed, CreateTrack, NameTrack, Where
  <2>8. CASE FadeStep \/ FadeUntil \/ Reply \/ TickPasses \/ Raises \/ UserEdits \/ Quits
    BY <2>3, <2>8 DEF FadeStep, FadeUntil, Reply, TickPasses, Raises, UserEdits, Quits, Where
  <2>9. CASE UNCHANGED vars
    BY <2>3, <2>9 DEF vars
  <2> QED BY <2>5, <2>6, <2>7, <2>8, <2>9 DEF Next, Step
<1>3. TypeInv /\ MeantInv => WritesTheMeant
  BY AddressMeans DEF MeantInv, WritesTheMeant
<1> QED BY <1>1, <1>2, <1>3, AlwaysTyped, PTL DEF Spec

-------------------------------------------------------------------------------
(*************************** the reads that compute ************************)
\* A set of numbers has a least one.
LEMMA LeastNat ==
  ASSUME NEW T \in SUBSET Nat, T # {}
  PROVE  \E x \in T : \A y \in T : x <= y
<1>1. PICK x \in T : \A y \in T : ~(<<y, x>> \in OpToRel(<, Nat))
  BY NatLessThanWellFounded, WFMin, Zenon
<1>2. \A y \in T : ~(y < x)
  BY <1>1 DEF OpToRel
<1>3. \A y \in T : x <= y
  BY <1>2
<1> QED BY <1>3

\* A set of numbers that has 0, and n + 1 with every n, has them all.
LEMMA Inductive ==
  ASSUME NEW U \in SUBSET Nat, 0 \in U, \A n \in U : n + 1 \in U
  PROVE  U = Nat
<1> SUFFICES ASSUME Nat \ U # {} PROVE FALSE
  OBVIOUS
<1>1. PICK x \in Nat \ U : \A y \in Nat \ U : x <= y
  BY LeastNat
<1>2. x - 1 \in Nat /\ ~(x <= x - 1)
  BY <1>1
<1>3. x - 1 \in U
  BY <1>1, <1>2
<1>4. x - 1 + 1 \in U /\ x - 1 + 1 = x
  BY <1>1, <1>3
<1> QED BY <1>1, <1>4

\* A function of the numbers that is defined by what it is at the number before.
LEMMA Iterates ==
  ASSUME NEW S, NEW g \in [S -> S], NEW s \in S
  PROVE  \E f \in [Nat -> S] : f[0] = s /\ \A n \in Nat : n > 0 => f[n] = g[f[n - 1]]
<1> DEFINE Starts(n) == {h \in [0..n -> S] : /\ h[0] = s
                                             /\ \A k \in 0..n : k > 0 => h[k] = g[h[k - 1]]}
<1>1. ASSUME NEW m \in Nat, NEW n \in Nat, m <= n, NEW h \in Starts(m), NEW k \in Starts(n)
      PROVE  \A i \in 0..m : h[i] = k[i]
  <2> DEFINE U == {i \in Nat : i <= m => h[i] = k[i]}
  <2>1. 0 \in U
    OBVIOUS
  <2>2. ASSUME NEW i \in U PROVE i + 1 \in U
    <3> SUFFICES ASSUME i + 1 <= m PROVE h[i + 1] = k[i + 1]
      OBVIOUS
    <3>1. i + 1 \in 0..m /\ i + 1 \in 0..n /\ i + 1 > 0 /\ i + 1 - 1 = i /\ i <= m
      BY <1>1
    <3>2. h[i + 1] = g[h[i + 1 - 1]] /\ k[i + 1] = g[k[i + 1 - 1]]
      BY <3>1
    <3> QED BY <3>1, <3>2
  <2>3. U = Nat
    <3> HIDE DEF U
    <3>1. U \subseteq Nat
      BY DEF U
    <3> QED BY <2>1, <2>2, <3>1, Inductive
  <2>4. \A i \in 0..m : i \in U /\ i <= m
    BY <2>3
  <2> QED BY <2>4
<1>2. \A n \in Nat : Starts(n) # {}
  <2> DEFINE U == {n \in Nat : Starts(n) # {}}
  <2>1. 0 \in U
    <3>1. [k \in 0..0 |-> s] \in Starts(0)
      OBVIOUS
    <3> QED BY <3>1
  <2>2. ASSUME NEW n \in U PROVE n + 1 \in U
    <3>1. PICK h : h \in Starts(n)
      BY <2>2
    <3> DEFINE j == [k \in 0..(n + 1) |-> IF k = n + 1 THEN g[h[n]] ELSE h[k]]
    <3>2. \A k \in 0..(n + 1) : k # n + 1 => k \in 0..n
      OBVIOUS
    <3>3. n \in 0..n /\ h[n] \in S /\ n # n + 1 /\ 0 # n + 1
      BY <3>1
    <3>4. j \in [0..(n + 1) -> S]
      BY <3>1, <3>2, <3>3
    <3>5. j[0] = s
      BY <3>1, <3>3
    <3>6. ASSUME NEW k \in 0..(n + 1), k > 0 PROVE j[k] = g[j[k - 1]]
      <4>1. k - 1 \in 0..(n + 1) /\ k - 1 # n + 1
        BY <3>6
      <4>2. j[k - 1] = h[k - 1]
        BY <4>1
      <4>3. CASE k = n + 1
        BY <4>2, <4>3
      <4>4. CASE k # n + 1
        BY <3>1, <3>2, <3>6, <4>2, <4>4
      <4> QED BY <4>3, <4>4
    <3> HIDE DEF j
    <3>7. j \in Starts(n + 1)
      BY <3>4, <3>5, <3>6
    <3> QED BY <3>7
  <2>3. U = Nat
    <3> HIDE DEF U
    <3>1. U \subseteq Nat
      BY DEF U
    <3> QED BY <2>1, <2>2, <3>1, Inductive
  <2> QED BY <2>3
<1> DEFINE pick == [n \in Nat |-> CHOOSE h : h \in Starts(n)]
           f == [n \in Nat |-> pick[n][n]]
<1>3. \A n \in Nat : pick[n] \in Starts(n)
  BY <1>2
<1> HIDE DEF pick
<1>4. ASSUME NEW n \in Nat, n > 0 PROVE pick[n][n] = g[pick[n - 1][n - 1]]
  <2>1. n - 1 \in Nat /\ n - 1 <= n /\ n \in 0..n /\ n - 1 \in 0..(n - 1)
    BY <1>4
  <2>2. pick[n - 1] \in Starts(n - 1) /\ pick[n] \in Starts(n)
    BY <1>3, <2>1
  <2>3. pick[n - 1][n - 1] = pick[n][n - 1]
    BY <2>1, <2>2, <1>1
  <2>4. pick[n][n] = g[pick[n][n - 1]]
    BY <1>4, <2>1, <2>2
  <2> QED BY <2>3, <2>4
<1>5. \A n \in Nat : pick[n][n] \in S /\ pick[0][0] = s
  BY <1>3
<1> HIDE DEF Starts
<1>6. f \in [Nat -> S]
  BY <1>5
<1>7. f[0] = s /\ \A n \in Nat : n > 0 => f[n] = g[f[n - 1]]
  BY <1>4, <1>5
<1> HIDE DEF f
<1> QED BY <1>6, <1>7

\* The entries that the places of a browser are.
Entries == [item : Items, cat : Nat, at : Seq(Nat)]

\* The items under an item are items.
LEMMA ItemFacts ==
  ASSUME NEW x \in Items
  PROVE  x.kids \in Seq(Items)
BY ReadsAssumption

\* The entries of the children that are looked at, each one deeper than its parent.
LEMMA ChildrenAre ==
  ASSUME NEW e \in Entries
  PROVE  /\ Children(e) \in Seq(Entries)
         /\ Len(Children(e)) <= ChildLimit /\ Len(Children(e)) <= Len(e.item.kids)
         /\ Len(Children(e)) = IF Len(e.item.kids) < ChildLimit THEN Len(e.item.kids) ELSE ChildLimit
         /\ \A i \in 1..Len(Children(e)) :
              /\ Children(e)[i] = Entry(e.item.kids[i], e.cat, Append(e.at, i))
              /\ Len(Append(e.at, i)) = Len(e.at) + 1
<1> DEFINE kids == e.item.kids
           n == IF Len(kids) < ChildLimit THEN Len(kids) ELSE ChildLimit
<1>1. e.item \in Items /\ e.cat \in Nat /\ e.at \in Seq(Nat)
  BY DEF Entries
<1>2. kids \in Seq(Items)
  BY <1>1, ItemFacts
<1> HIDE DEF kids
<1>3. ChildLimit \in Nat /\ Len(kids) \in Nat
  BY <1>2, ReadsAssumption
<1>4. n \in Nat /\ n <= ChildLimit /\ n <= Len(kids)
  BY <1>3
<1>5. Children(e) = [i \in 1..n |-> Entry(kids[i], e.cat, Append(e.at, i))]
  BY DEF Children, kids
<1> HIDE DEF n
<1>6. ASSUME NEW i \in 1..n PROVE Entry(kids[i], e.cat, Append(e.at, i)) \in Entries
  <2>1. i \in 1..Len(kids) /\ i \in Nat
    BY <1>3, <1>4
  <2>2. kids[i] \in Items
    BY <1>2, <2>1, ElementOfSeq
  <2>3. Append(e.at, i) \in Seq(Nat)
    BY <1>1, <2>1, AppendProperties
  <2> QED BY <1>1, <2>2, <2>3 DEF Entry, Entries
<1>7. Children(e) \in Seq(Entries) /\ Len(Children(e)) = n
  BY <1>4, <1>5, <1>6
<1>8. \A i \in 1..n : Children(e)[i] = Entry(kids[i], e.cat, Append(e.at, i))
  BY <1>5
<1>9. \A i \in 1..n : Len(Append(e.at, i)) = Len(e.at) + 1
  <2>1. \A i \in 1..n : i \in Nat
    BY <1>4
  <2> QED BY <1>1, <2>1, AppendProperties
<1> QED BY <1>4, <1>7, <1>8, <1>9 DEF kids, n

\* What is the next level of a set of entries may be taken again and again.
LEMMA LevelsExist ==
  ASSUME NEW g \in [SUBSET Entries -> SUBSET Entries], NEW roots \in SUBSET Entries
  PROVE  \E f \in [Nat -> SUBSET Entries] :
           f[0] = roots /\ \A n \in Nat : n > 0 => f[n] = g[f[n - 1]]
<1> DEFINE E == SUBSET Entries
<1>1. g \in [E -> E] /\ roots \in E
  OBVIOUS
<1> HIDE DEF E
<1>2. \E f \in [Nat -> E] : f[0] = roots /\ \A n \in Nat : n > 0 => f[n] = g[f[n - 1]]
  BY <1>1, Iterates
<1> QED BY <1>2 DEF E

\* The children of the entries of a level are the next one.
LEMMA LevelsAre ==
  ASSUME NEW browser \in Seq(Items)
  PROVE  \E level \in [Nat -> SUBSET Entries] :
           /\ \A depth \in Nat : Places(browser, depth) = UNION {level[n] : n \in 0..depth}
           /\ level[0] = {Entry(browser[cat], cat, <<>>) : cat \in DOMAIN browser}
           /\ \A n \in Nat : level[n + 1] = UNION {ToSet(Children(e)) : e \in level[n]}
<1> DEFINE roots == {Entry(browser[cat], cat, <<>>) : cat \in DOMAIN browser}
           Below(X) == UNION {ToSet(Children(e)) : e \in X}
           g == [X \in SUBSET Entries |-> Below(X)]
<1>1. roots \in SUBSET Entries
  <2>1. ASSUME NEW cat \in DOMAIN browser PROVE Entry(browser[cat], cat, <<>>) \in Entries
    <3>1. cat \in 1..Len(browser) /\ browser[cat] \in Items
      BY LenProperties, ElementOfSeq
    <3>2. cat \in Nat /\ <<>> \in Seq(Nat)
      BY <3>1
    <3> QED BY <3>1, <3>2 DEF Entry, Entries
  <2> QED BY <2>1
<1>2. ASSUME NEW X \in SUBSET Entries PROVE Below(X) \in SUBSET Entries
  <2>1. ASSUME NEW e \in X PROVE ToSet(Children(e)) \subseteq Entries
    BY ChildrenAre, ElementOfSeq, LenProperties DEF ToSet
  <2> QED BY <2>1
<1>3. g \in [SUBSET Entries -> SUBSET Entries]
  BY <1>2
<1> HIDE DEF roots, Below
<1>4. PICK f \in [Nat -> SUBSET Entries] : f[0] = roots /\ \A n \in Nat : n > 0 => f[n] = g[f[n - 1]]
  <2>1. roots \in SUBSET Entries /\ g \in [SUBSET Entries -> SUBSET Entries]
    BY <1>1, <1>3
  <2> HIDE DEF g
  <2> QED BY <2>1, LevelsExist
<1>5. f = [n \in Nat |-> IF n = 0 THEN roots ELSE Below(f[n - 1])]
  <2>1. \A n \in Nat : n # 0 => n - 1 \in Nat /\ n > 0
    OBVIOUS
  <2>2. \A n \in Nat : n # 0 => f[n - 1] \in SUBSET Entries
    BY <1>4, <2>1
  <2>3. \A n \in Nat : n # 0 => g[f[n - 1]] = Below(f[n - 1])
    BY <2>2
  <2> HIDE DEF g
  <2>4. \A n \in Nat : f[n] = IF n = 0 THEN roots ELSE Below(f[n - 1])
    BY <1>4, <2>1, <2>3
  <2> QED BY <2>4
<1> DEFINE level[n \in Nat] == IF n = 0 THEN roots ELSE Below(level[n - 1])
<1>6. level = [n \in Nat |-> IF n = 0 THEN roots ELSE Below(level[n - 1])]
  BY <1>5, Zenon DEF level
<1>7. \A depth \in Nat : Places(browser, depth) = UNION {level[n] : n \in 0..depth}
  BY Zenon DEF Places, level, roots, Below
<1> HIDE DEF level
<1>8. level \in [Nat -> SUBSET Entries]
  <2> DEFINE U == {n \in Nat : level[n] \in SUBSET Entries}
  <2>1. 0 \in U
    BY <1>1, <1>6
  <2>2. ASSUME NEW n \in U PROVE n + 1 \in U
    <3>1. n + 1 \in Nat /\ n + 1 # 0 /\ n + 1 - 1 = n
      OBVIOUS
    <3>2. level[n + 1] = Below(level[n])
      BY <1>6, <3>1
    <3> QED BY <1>2, <3>1, <3>2
  <2>3. U = Nat
    <3> HIDE DEF U
    <3>1. U \subseteq Nat
      BY DEF U
    <3> QED BY <2>1, <2>2, <3>1, Inductive
  <2> QED BY <2>3, <1>6
<1>9. level[0] = roots
  BY <1>6
<1>10. ASSUME NEW n \in Nat PROVE level[n + 1] = Below(level[n])
  <2>1. n + 1 \in Nat /\ n + 1 # 0 /\ n + 1 - 1 = n
    OBVIOUS
  <2> QED BY <1>6, <2>1
<1> QED BY <1>7, <1>8, <1>9, <1>10 DEF roots, Below

\* The places of a browser: the roots, the children of a place above the depth, no others.
LEMMA PlacesAre ==
  ASSUME NEW browser \in Seq(Items), NEW depth \in Nat
  PROVE  /\ Places(browser, depth) \subseteq Entries
         /\ \A p \in Places(browser, depth) : Len(p.at) <= depth
         /\ \A cat \in DOMAIN browser : Entry(browser[cat], cat, <<>>) \in Places(browser, depth)
         /\ \A e \in Places(browser, depth) : Len(e.at) < depth =>
              \A i \in 1..Len(Children(e)) : Children(e)[i] \in Places(browser, depth)
         /\ \A p \in Places(browser, depth) :
              \/ p.at = <<>> /\ p.cat \in DOMAIN browser /\ p = Entry(browser[p.cat], p.cat, <<>>)
              \/ \E e \in Places(browser, depth) : \E i \in 1..Len(Children(e)) : p = Children(e)[i]
<1> DEFINE P == Places(browser, depth)
<1>1. PICK level \in [Nat -> SUBSET Entries] :
           /\ \A d \in Nat : Places(browser, d) = UNION {level[n] : n \in 0..d}
           /\ level[0] = {Entry(browser[cat], cat, <<>>) : cat \in DOMAIN browser}
           /\ \A n \in Nat : level[n + 1] = UNION {ToSet(Children(e)) : e \in level[n]}
  BY LevelsAre
<1>2. /\ P = UNION {level[n] : n \in 0..depth}
      /\ level[0] = {Entry(browser[cat], cat, <<>>) : cat \in DOMAIN browser}
  BY <1>1, Zenon
<1>3. \A n \in Nat : level[n + 1] = UNION {ToSet(Children(e)) : e \in level[n]}
  BY <1>1
<1>4. \A p \in P : \E n \in 0..depth : p \in level[n]
  BY <1>2
<1>5. \A n \in 0..depth : \A p \in level[n] : p \in P
  BY <1>2
<1> HIDE DEF P
<1>6. \A n \in Nat : \A e \in level[n] : e \in Entries
  BY <1>1
<1>7. \A n \in Nat : \A p \in level[n + 1] :
        \E e \in level[n] : \E i \in 1..Len(Children(e)) : p = Children(e)[i]
  <2>1. ASSUME NEW n \in Nat, NEW p \in level[n + 1]
        PROVE  \E e \in level[n] : \E i \in 1..Len(Children(e)) : p = Children(e)[i]
    <3>1. PICK e \in level[n] : p \in ToSet(Children(e))
      BY <1>3, <2>1
    <3>2. PICK i \in DOMAIN Children(e) : p = Children(e)[i]
      BY <3>1 DEF ToSet
    <3>3. e \in Entries
      BY <1>6
    <3>4. DOMAIN Children(e) = 1..Len(Children(e))
      BY <3>3, ChildrenAre, LenProperties
    <3> QED BY <3>2, <3>4
  <2> QED BY <2>1
<1>8. \A n \in Nat : \A e \in level[n] : \A i \in 1..Len(Children(e)) : Children(e)[i] \in level[n + 1]
  <2>1. ASSUME NEW n \in Nat, NEW e \in level[n], NEW i \in 1..Len(Children(e))
        PROVE  Children(e)[i] \in level[n + 1]
    <3>1. e \in Entries
      BY <1>6
    <3>2. i \in DOMAIN Children(e)
      BY <3>1, ChildrenAre, LenProperties
    <3>3. Children(e)[i] \in ToSet(Children(e))
      BY <3>2 DEF ToSet
    <3> QED BY <1>3, <3>3
  <2> QED BY <2>1
<1>9. \A n \in Nat : \A p \in level[n] : Len(p.at) = n
  <2> DEFINE U == {n \in Nat : \A p \in level[n] : Len(p.at) = n}
  <2>1. 0 \in U
    <3>1. \A p \in level[0] : p.at = <<>>
      BY <1>2 DEF Entry
    <3>2. \A p \in level[0] : Len(p.at) = 0
      BY <3>1
    <3> QED BY <3>2
  <2>2. ASSUME NEW n \in U PROVE n + 1 \in U
    <3>1. ASSUME NEW p \in level[n + 1] PROVE Len(p.at) = n + 1
      <4>1. PICK e \in level[n] : \E i \in 1..Len(Children(e)) : p = Children(e)[i]
        BY <1>7, <3>1
      <4>2. PICK i \in 1..Len(Children(e)) : p = Children(e)[i]
        BY <4>1
      <4>3. e \in Entries /\ Len(e.at) = n
        BY <1>6, <2>2
      <4>4. p = Entry(e.item.kids[i], e.cat, Append(e.at, i)) /\ Len(Append(e.at, i)) = n + 1
        BY <4>2, <4>3, ChildrenAre
      <4>5. p.at = Append(e.at, i)
        BY <4>4 DEF Entry
      <4> QED BY <4>4, <4>5
    <3>2. n + 1 \in Nat
      BY <2>2
    <3> QED BY <3>1, <3>2
  <2>3. U = Nat
    <3> HIDE DEF U
    <3>1. U \subseteq Nat
      BY DEF U
    <3> QED BY <2>1, <2>2, <3>1, Inductive
  <2> QED BY <2>3
<1>10. P \subseteq Entries /\ \A p \in P : Len(p.at) <= depth
  <2>1. \A n \in 0..depth : n \in Nat /\ n <= depth
    OBVIOUS
  <2> QED BY <1>4, <1>6, <1>9, <2>1
<1>11. \A cat \in DOMAIN browser : Entry(browser[cat], cat, <<>>) \in P
  <2>1. 0 \in 0..depth
    OBVIOUS
  <2> QED BY <1>2, <1>5, <2>1
<1>12. ASSUME NEW e \in P, Len(e.at) < depth, NEW i \in 1..Len(Children(e))
       PROVE  Children(e)[i] \in P
  <2>1. PICK n \in 0..depth : e \in level[n]
    BY <1>4
  <2>2. n \in Nat /\ Len(e.at) = n
    BY <1>9, <2>1
  <2>3. n + 1 \in 0..depth
    BY <1>12, <2>2
  <2> QED BY <1>5, <1>8, <2>1, <2>2, <2>3
<1>13. ASSUME NEW p \in P
       PROVE  \/ p.at = <<>> /\ p.cat \in DOMAIN browser /\ p = Entry(browser[p.cat], p.cat, <<>>)
              \/ \E e \in P : \E i \in 1..Len(Children(e)) : p = Children(e)[i]
  <2>1. PICK n \in 0..depth : p \in level[n]
    BY <1>4
  <2>2. CASE n = 0
    <3>1. PICK cat \in DOMAIN browser : p = Entry(browser[cat], cat, <<>>)
      BY <1>2, <2>1, <2>2
    <3>2. p.cat = cat /\ p.at = <<>>
      BY <3>1 DEF Entry
    <3> QED BY <3>1, <3>2
  <2>3. CASE n # 0
    <3>1. n - 1 \in Nat /\ n - 1 \in 0..depth /\ n - 1 + 1 = n
      BY <2>3
    <3>2. p \in level[n - 1 + 1]
      BY <2>1, <3>1
    <3>3. \E e \in level[n - 1] : \E i \in 1..Len(Children(e)) : p = Children(e)[i]
      BY <1>7, <3>1, <3>2
    <3> QED BY <1>5, <3>1, <3>3
  <2> QED BY <2>2, <2>3
<1> QED BY <1>10, <1>11, <1>12, <1>13 DEF P

\* Positions tell their parent and the last step.
LEMMA AppendsDiffer ==
  ASSUME NEW s \in Seq(Nat), NEW t \in Seq(Nat), NEW a \in Nat, NEW b \in Nat,
         Append(s, a) = Append(t, b)
  PROVE  s = t /\ a = b
BY AppendInjective

\* A place is where it is.
LEMMA PlacesDiffer ==
  ASSUME NEW browser \in Seq(Items), NEW depth \in Nat,
         NEW p \in Places(browser, depth), NEW q \in Places(browser, depth),
         p.cat = q.cat, p.at = q.at
  PROVE  p = q
<1> DEFINE P == Places(browser, depth)
           U == {n \in Nat : \A x, y \in P : Len(x.at) = n /\ x.cat = y.cat /\ x.at = y.at => x = y}
<1> USE DEF Entries
<1>1. /\ P \subseteq Entries
      /\ \A x \in P :
              \/ x.at = <<>> /\ x.cat \in DOMAIN browser /\ x = Entry(browser[x.cat], x.cat, <<>>)
              \/ \E e \in P : \E i \in 1..Len(Children(e)) : x = Children(e)[i]
  BY PlacesAre
<1> HIDE DEF P
<1>2. \A e \in P : \A i \in 1..Len(Children(e)) :
        /\ Children(e)[i].item = e.item.kids[i]
        /\ Children(e)[i].cat = e.cat /\ Children(e)[i].at = Append(e.at, i)
        /\ Len(Append(e.at, i)) = Len(e.at) + 1
        /\ i \in Nat /\ Append(e.at, i) # <<>>
  <2>1. ASSUME NEW e \in P, NEW i \in 1..Len(Children(e))
        PROVE  /\ Children(e)[i].item = e.item.kids[i]
               /\ Children(e)[i].cat = e.cat /\ Children(e)[i].at = Append(e.at, i)
               /\ Len(Append(e.at, i)) = Len(e.at) + 1
               /\ i \in Nat /\ Append(e.at, i) # <<>>
    <3>1. e \in Entries
      BY <1>1
    <3>2. /\ Children(e)[i] = Entry(e.item.kids[i], e.cat, Append(e.at, i))
          /\ Len(Append(e.at, i)) = Len(e.at) + 1
      BY <3>1, ChildrenAre
    <3>3. i \in Nat
      BY <3>1, ChildrenAre, LenProperties
    <3>5. e.at \in Seq(Nat)
      BY <3>1
    <3>4. Append(e.at, i) # <<>>
      BY <3>3, <3>5, AppendProperties
    <3> QED BY <3>2, <3>3, <3>4 DEF Entry
  <2> QED BY <2>1
<1>3. ASSUME NEW x \in P, NEW y \in P, x.at = <<>>, y.at = <<>>, x.cat = y.cat PROVE x = y
  <2>1. ASSUME NEW z \in P, z.at = <<>> PROVE z = Entry(browser[z.cat], z.cat, <<>>)
    <3>1. ASSUME NEW e \in P, NEW i \in 1..Len(Children(e)) PROVE z # Children(e)[i]
      BY <1>2, <2>1
    <3> QED BY <1>1, <3>1
  <2> QED BY <1>3, <2>1
<1>4. 0 \in U
  <2>1. \A x \in P : Len(x.at) = 0 => x.at = <<>>
    BY <1>1, EmptySeq
  <2>2. \A x, y \in P : Len(x.at) = 0 /\ x.cat = y.cat /\ x.at = y.at => x = y
    BY <1>3, <2>1
  <2> QED BY <2>2
<1>5. ASSUME NEW n \in U PROVE n + 1 \in U
  <2>1. ASSUME NEW x \in P, NEW y \in P, Len(x.at) = n + 1, x.cat = y.cat, x.at = y.at PROVE x = y
    <3>1. x.at # <<>> /\ y.at # <<>> /\ n \in Nat
      BY <1>5, <2>1
    <3>2. PICK d \in P : \E i \in 1..Len(Children(d)) : x = Children(d)[i]
      BY <1>1, <3>1
    <3>3. PICK i \in 1..Len(Children(d)) : x = Children(d)[i]
      BY <3>2
    <3>4. PICK e \in P : \E j \in 1..Len(Children(e)) : y = Children(e)[j]
      BY <1>1, <3>1
    <3>5. PICK j \in 1..Len(Children(e)) : y = Children(e)[j]
      BY <3>4
    <3>6. /\ x.item = d.item.kids[i] /\ x.cat = d.cat /\ x.at = Append(d.at, i) /\ i \in Nat
          /\ y.item = e.item.kids[j] /\ y.cat = e.cat /\ y.at = Append(e.at, j) /\ j \in Nat
          /\ Len(x.at) = Len(d.at) + 1
      BY <1>2, <3>3, <3>5
    <3>7. d.at \in Seq(Nat) /\ e.at \in Seq(Nat)
      BY <1>1
    <3>11. Append(d.at, i) = Append(e.at, j)
      BY <2>1, <3>6
    <3>8. d.at = e.at /\ i = j
      <4>1. PICK s \in Seq(Nat) : s = d.at
        BY <3>7
      <4>2. PICK t \in Seq(Nat) : t = e.at
        BY <3>7
      <4>3. Append(s, i) = Append(t, j) /\ i \in Nat /\ j \in Nat
        BY <3>6, <3>11, <4>1, <4>2
      <4>4. s = t /\ i = j
        BY <4>3, AppendsDiffer
      <4> QED BY <4>1, <4>2, <4>4
    <3>9. Len(d.at) = n
      BY <2>1, <3>1, <3>6, <3>7, LenProperties
    <3>10. d = e
      BY <1>5, <2>1, <3>6, <3>8, <3>9
    <3> QED BY <3>3, <3>5, <3>8, <3>10
  <2>2. n + 1 \in Nat
    BY <1>5
  <2> QED BY <2>1, <2>2
<1>6. U = Nat
  <2> HIDE DEF U
  <2>1. U \subseteq Nat
    BY DEF U
  <2> QED BY <1>4, <1>5, <2>1, Inductive
<1>7. p \in P /\ q \in P
  BY DEF P
<1>8. Len(p.at) \in U
  BY <1>1, <1>6, <1>7, LenProperties
<1> QED BY <1>7, <1>8

\* A browser has no fewer places at a lower depth.
LEMMA PlacesGrow ==
  ASSUME NEW browser \in Seq(Items), NEW d \in Nat, NEW depth \in Nat, d <= depth
  PROVE  Places(browser, d) \subseteq Places(browser, depth)
<1>1. PICK level \in [Nat -> SUBSET Entries] :
           \A k \in Nat : Places(browser, k) = UNION {level[n] : n \in 0..k}
  BY LevelsAre
<1>2. 0..d \subseteq 0..depth
  OBVIOUS
<1>3. /\ Places(browser, d) = UNION {level[n] : n \in 0..d}
      /\ Places(browser, depth) = UNION {level[n] : n \in 0..depth}
  BY <1>1, Zenon
<1> QED BY <1>2, <1>3

\* An item was visited, if not at this place then at another of its key, or it is to be.
Met(s, e) == Key(e) \in s.visited \/ \E i \in DOMAIN s.stack : s.stack[i] = e
\* It was listed if it matches, and its children are met.
Opened(s, x, depth) ==
  /\ x.at # <<>> /\ x.item.hit => \E i \in DOMAIN s.found : s.found[i] = x
  /\ Len(x.at) < depth => \A i \in DOMAIN Children(x) : Met(s, Children(x)[i])

\* What a search can be at.
Searches(browser, limit, depth) ==
  {s \in [cat : 0..Len(browser), stack : Seq(Places(browser, depth)),
          visited : SUBSET {Key(p) : p \in Places(browser, depth)},
          found : Seq(Places(browser, depth))] :
     /\ IsFiniteSet(s.visited) /\ Cardinality(s.visited) <= VisitLimit
     /\ \A cat \in 1..s.cat : Met(s, Entry(browser[cat], cat, <<>>))
     /\ \A k \in s.visited : \E x \in Places(browser, depth) : Key(x) = k /\ Opened(s, x, depth)
     /\ Len(s.found) <= limit
     /\ \A i \in DOMAIN s.found : s.found[i].item.hit /\ Key(s.found[i]) \in s.visited
     /\ \A i, j \in DOMAIN s.found : i # j => Key(s.found[i]) # Key(s.found[j])}

\* The turns a search may still take.
Left(s, browser) ==
  Len(s.stack) + ChildLimit * (VisitLimit - Cardinality(s.visited)) + 2 * (Len(browser) - s.cat)

\* What is met stays met.
LEMMA MetStays ==
  ASSUME NEW s, NEW t, NEW depth,
         s.visited \subseteq t.visited,
         \A i \in DOMAIN s.stack :
           Key(s.stack[i]) \in t.visited \/ \E j \in DOMAIN t.stack : t.stack[j] = s.stack[i],
         \A i \in DOMAIN s.found : \E j \in DOMAIN t.found : t.found[j] = s.found[i]
  PROVE  /\ \A e : Met(s, e) => Met(t, e)
         /\ \A x : Opened(s, x, depth) => Opened(t, x, depth)
<1>1. \A e : Met(s, e) => Met(t, e)
  BY DEF Met
<1>2. ASSUME NEW x, Opened(s, x, depth) PROVE Opened(t, x, depth)
  <2>1. x.at # <<>> /\ x.item.hit => \E i \in DOMAIN t.found : t.found[i] = x
    BY <1>2, Zenon DEF Opened
  <2>2. Len(x.at) < depth => \A i \in DOMAIN Children(x) : Met(t, Children(x)[i])
    BY <1>1, <1>2, Zenon DEF Opened
  <2> QED BY <2>1, <2>2, Zenon DEF Opened
<1> QED BY <1>1, <1>2

\* What the parts of a search are.
LEMMA SearchFacts ==
  ASSUME NEW browser \in Seq(Items), NEW limit \in Nat, NEW depth \in Nat,
         NEW s \in Searches(browser, limit, depth)
  PROVE  /\ s \in [cat : 0..Len(browser), stack : Seq(Places(browser, depth)),
                   visited : SUBSET {Key(p) : p \in Places(browser, depth)},
                   found : Seq(Places(browser, depth))]
         /\ Len(browser) \in Nat /\ s.cat \in Nat /\ s.cat <= Len(browser)
         /\ IsFiniteSet(s.visited) /\ Cardinality(s.visited) \in Nat
         /\ Cardinality(s.visited) <= VisitLimit
         /\ VisitLimit \in Nat \ {0} /\ ChildLimit \in Nat \ {0}
         /\ Len(s.stack) \in Nat /\ Len(s.found) \in Nat /\ Len(s.found) <= limit
         /\ DOMAIN s.stack = 1..Len(s.stack) /\ DOMAIN s.found = 1..Len(s.found)
<1>1. Len(browser) \in Nat
  BY LenProperties
<1>2. s.cat \in 0..Len(browser) /\ s.stack \in Seq(Places(browser, depth))
       /\ s.found \in Seq(Places(browser, depth))
  BY DEF Searches
<1>3. IsFiniteSet(s.visited) /\ Cardinality(s.visited) <= VisitLimit /\ Len(s.found) <= limit
  BY DEF Searches
<1> QED BY <1>1, <1>2, <1>3, FS_CardinalityType, LenProperties, ReadsAssumption DEF Searches

\* The next category: its root is on the stack.
LEMMA NextCategoryKeeps ==
  ASSUME NEW browser \in Seq(Items), NEW limit \in Nat, NEW depth \in Nat,
         NEW s \in Searches(browser, limit, depth), s.stack = <<>>, s.cat # Len(browser)
  PROVE  /\ NextCategory(s, browser) \in Searches(browser, limit, depth)
         /\ Left(NextCategory(s, browser), browser) = Left(s, browser) - 1
<1> DEFINE P == Places(browser, depth)
           root == Entry(browser[s.cat + 1], s.cat + 1, <<>>)
           t == NextCategory(s, browser)
<1>1. /\ s \in [cat : 0..Len(browser), stack : Seq(P), visited : SUBSET {Key(p) : p \in P}, found : Seq(P)]
      /\ Len(browser) \in Nat /\ s.cat \in Nat /\ s.cat <= Len(browser)
      /\ Cardinality(s.visited) \in Nat /\ VisitLimit \in Nat /\ ChildLimit \in Nat
  BY SearchFacts
<1>2. s.cat + 1 \in 1..Len(browser) /\ s.cat + 1 \in 0..Len(browser)
  BY <1>1
<1>3. root \in P
  BY <1>2, PlacesAre, LenProperties
<1> HIDE DEF P
<1>4. <<root>> \in Seq(P)
  BY <1>3
<1> HIDE DEF root
<1>5. t = [s EXCEPT !.cat = s.cat + 1, !.stack = <<root>>]
  BY DEF NextCategory, root
<1> HIDE DEF t
<1>6. /\ t \in [cat : 0..Len(browser), stack : Seq(P), visited : SUBSET {Key(p) : p \in P}, found : Seq(P)]
      /\ t.cat = s.cat + 1 /\ t.stack = <<root>> /\ t.visited = s.visited /\ t.found = s.found
  BY <1>1, <1>2, <1>4, <1>5
<1>7. /\ \A e : Met(s, e) => Met(t, e)
      /\ \A x : Opened(s, x, depth) => Opened(t, x, depth)
  <2>1. \A i \in DOMAIN s.stack :
           Key(s.stack[i]) \in t.visited \/ \E j \in DOMAIN t.stack : t.stack[j] = s.stack[i]
    OBVIOUS
  <2>2. \A i \in DOMAIN s.found : \E j \in DOMAIN t.found : t.found[j] = s.found[i]
    BY <1>6
  <2>3. s.visited \subseteq t.visited
    BY <1>6
  <2> QED BY <2>1, <2>2, <2>3, MetStays
<1>8. ASSUME NEW cat \in 1..t.cat PROVE Met(t, Entry(browser[cat], cat, <<>>))
  <2>1. CASE cat = s.cat + 1
    <3>1. Entry(browser[cat], cat, <<>>) = root
      BY <2>1 DEF root
    <3>2. 1 \in DOMAIN t.stack /\ t.stack[1] = root
      BY <1>6
    <3> QED BY <3>1, <3>2, Zenon DEF Met
  <2>2. CASE cat # s.cat + 1
    <3>1. cat \in 1..s.cat
      BY <1>1, <1>6, <2>2
    <3>2. Met(s, Entry(browser[cat], cat, <<>>))
      BY <3>1 DEF Searches
    <3> QED BY <1>7, <3>2, Zenon
  <2> QED BY <2>1, <2>2
<1>9. \A k \in t.visited : \E x \in P : Key(x) = k /\ Opened(t, x, depth)
  <2>1. \A k \in s.visited : \E x \in P : Key(x) = k /\ Opened(s, x, depth)
    BY Zenon DEF Searches, P
  <2> QED BY <1>6, <1>7, <2>1, Zenon
<1>10. /\ IsFiniteSet(s.visited) /\ Cardinality(s.visited) <= VisitLimit
       /\ Len(s.found) <= limit
       /\ \A i \in DOMAIN s.found : s.found[i].item.hit /\ Key(s.found[i]) \in s.visited
       /\ \A i, j \in DOMAIN s.found : i # j => Key(s.found[i]) # Key(s.found[j])
  BY Zenon DEF Searches
<1>11. t \in Searches(browser, limit, depth)
  <2>1. /\ IsFiniteSet(t.visited) /\ Cardinality(t.visited) <= VisitLimit
        /\ Len(t.found) <= limit
        /\ \A i \in DOMAIN t.found : t.found[i].item.hit /\ Key(t.found[i]) \in t.visited
        /\ \A i, j \in DOMAIN t.found : i # j => Key(t.found[i]) # Key(t.found[j])
    BY <1>6, <1>10, Zenon
  <2> QED BY <1>6, <1>8, <1>9, <2>1, Zenon DEF Searches, P
<1>12. Left(t, browser) = Left(s, browser) - 1
  <2>1. Len(t.stack) = 1 /\ Len(s.stack) = 0
    BY <1>6
  <2>2. ChildLimit * (VisitLimit - Cardinality(s.visited)) \in Int
    BY <1>1
  <2>3. 2 * (Len(browser) - t.cat) = 2 * (Len(browser) - s.cat) - 2 /\ 2 * (Len(browser) - s.cat) \in Int
    <3>1. Len(browser) \in Nat /\ s.cat \in Nat /\ t.cat = s.cat + 1
      BY <1>1, <1>6, Zenon
    <3> QED BY <3>1
  <2>4. Cardinality(t.visited) = Cardinality(s.visited)
    BY <1>6
  <2> HIDE DEF t
  <2>5. /\ Left(t, browser) = 1 + ChildLimit * (VisitLimit - Cardinality(s.visited)) + 2 * (Len(browser) - t.cat)
        /\ Left(s, browser) = 0 + ChildLimit * (VisitLimit - Cardinality(s.visited)) + 2 * (Len(browser) - s.cat)
    BY <2>1, <2>4, Zenon DEF Left
  <2> QED BY <2>2, <2>3, <2>5
<1> QED BY <1>11, <1>12 DEF t

\* An item of a key that was visited is passed over.
LEMMA PassingKeeps ==
  ASSUME NEW browser \in Seq(Items), NEW limit \in Nat, NEW depth \in Nat,
         NEW s \in Searches(browser, limit, depth), s.stack # <<>>, Key(Head(s.stack)) \in s.visited
  PROVE  /\ Visit(s, depth) \in Searches(browser, limit, depth)
         /\ Left(Visit(s, depth), browser) = Left(s, browser) - 1
<1> DEFINE P == Places(browser, depth)
           rest == Tail(s.stack)
           t == Visit(s, depth)
<1>1. /\ s \in [cat : 0..Len(browser), stack : Seq(P), visited : SUBSET {Key(p) : p \in P}, found : Seq(P)]
      /\ Len(browser) \in Nat /\ s.cat \in Nat /\ Len(s.stack) \in Nat
      /\ Cardinality(s.visited) \in Nat /\ VisitLimit \in Nat /\ ChildLimit \in Nat
  BY SearchFacts
<1> HIDE DEF P
<1>2. s.stack \in Seq(P)
  BY <1>1
<1>3. /\ rest \in Seq(P) /\ Len(rest) = Len(s.stack) - 1 /\ Head(s.stack) = s.stack[1]
      /\ \A i \in 1..(Len(s.stack) - 1) : rest[i] = s.stack[i + 1]
  BY <1>2, TailFacts
<1> HIDE DEF rest
<1>4. t = [s EXCEPT !.stack = rest]
  BY Zenon DEF Visit, rest
<1> HIDE DEF t
<1>5. /\ t \in [cat : 0..Len(browser), stack : Seq(P), visited : SUBSET {Key(p) : p \in P}, found : Seq(P)]
      /\ t.cat = s.cat /\ t.stack = rest /\ t.visited = s.visited /\ t.found = s.found
  BY <1>1, <1>3, <1>4
<1>6. /\ \A e : Met(s, e) => Met(t, e)
      /\ \A x : Opened(s, x, depth) => Opened(t, x, depth)
  <2>1. ASSUME NEW i \in DOMAIN s.stack
        PROVE  Key(s.stack[i]) \in t.visited \/ \E j \in DOMAIN t.stack : t.stack[j] = s.stack[i]
    <3>1. CASE i = 1
      BY <1>3, <1>5, <3>1
    <3>2. CASE i # 1
      <4>1. i \in 1..Len(s.stack)
        BY <1>2, LenProperties
      <4>2. i - 1 \in 1..(Len(s.stack) - 1) /\ i - 1 + 1 = i
        BY <1>1, <3>2, <4>1
      <4>3. i - 1 \in DOMAIN rest
        BY <1>3, <4>2, LenProperties
      <4>4. rest[i - 1] = s.stack[i]
        BY <1>3, <4>2
      <4> QED BY <1>5, <4>3, <4>4
    <3> QED BY <3>1, <3>2
  <2>2. \A i \in DOMAIN s.found : \E j \in DOMAIN t.found : t.found[j] = s.found[i]
    BY <1>5
  <2>3. s.visited \subseteq t.visited
    BY <1>5
  <2> QED BY <2>1, <2>2, <2>3, MetStays
<1>7. /\ IsFiniteSet(s.visited) /\ Cardinality(s.visited) <= VisitLimit
      /\ \A cat \in 1..s.cat : Met(s, Entry(browser[cat], cat, <<>>))
      /\ \A k \in s.visited : \E x \in P : Key(x) = k /\ Opened(s, x, depth)
      /\ Len(s.found) <= limit
      /\ \A i \in DOMAIN s.found : s.found[i].item.hit /\ Key(s.found[i]) \in s.visited
      /\ \A i, j \in DOMAIN s.found : i # j => Key(s.found[i]) # Key(s.found[j])
  BY Zenon DEF Searches, P
<1>8. t \in Searches(browser, limit, depth)
  <2>1. /\ IsFiniteSet(t.visited) /\ Cardinality(t.visited) <= VisitLimit
        /\ \A cat \in 1..t.cat : Met(t, Entry(browser[cat], cat, <<>>))
        /\ \A k \in t.visited : \E x \in P : Key(x) = k /\ Opened(t, x, depth)
        /\ Len(t.found) <= limit
        /\ \A i \in DOMAIN t.found : t.found[i].item.hit /\ Key(t.found[i]) \in t.visited
        /\ \A i, j \in DOMAIN t.found : i # j => Key(t.found[i]) # Key(t.found[j])
    BY <1>5, <1>6, <1>7, Zenon
  <2> QED BY <1>5, <2>1, Zenon DEF Searches, P
<1>9. Left(t, browser) = Left(s, browser) - 1
  <2>1. ChildLimit * (VisitLimit - Cardinality(s.visited)) \in Int
    BY <1>1
  <2>2. 2 * (Len(browser) - s.cat) \in Int
    BY <1>1
  <2>3. Left(t, browser) = Len(rest) + ChildLimit * (VisitLimit - Cardinality(s.visited)) + 2 * (Len(browser) - s.cat)
    BY <1>5, Zenon DEF Left
  <2>4. Len(rest) = Len(s.stack) - 1 /\ Len(s.stack) \in Int
    BY <1>1, <1>3
  <2> QED BY <2>1, <2>2, <2>3, <2>4 DEF Left
<1> QED BY <1>8, <1>9 DEF t

\* A product with one factor less by one.
LEMMA OneLess ==
  ASSUME NEW c \in Nat, NEW v \in Nat, NEW n \in Nat
  PROVE  c * (v - (n + 1)) = c * (v - n) - c /\ c * (v - n) \in Int
OBVIOUS

\* An item that is new is visited: its children are on the stack, and it is listed if it matches.
LEMMA VisitKeeps ==
  ASSUME NEW browser \in Seq(Items), NEW limit \in Nat, NEW depth \in Nat,
         NEW s \in Searches(browser, limit, depth), s.stack # <<>>, Key(Head(s.stack)) \notin s.visited,
         ~Stopped(s, limit)
  PROVE  /\ Visit(s, depth) \in Searches(browser, limit, depth)
         /\ Left(Visit(s, depth), browser) <= Left(s, browser) - 1
<1> DEFINE P == Places(browser, depth)
           rest == Tail(s.stack)
           e == Head(s.stack)
           new == IF Len(e.at) < depth THEN Children(e) ELSE <<>>
           listed == IF e.at # <<>> /\ e.item.hit THEN Append(s.found, e) ELSE s.found
           t == Visit(s, depth)
<1>1. /\ s \in [cat : 0..Len(browser), stack : Seq(P), visited : SUBSET {Key(p) : p \in P}, found : Seq(P)]
      /\ Len(browser) \in Nat /\ s.cat \in Nat /\ Len(s.stack) \in Nat
      /\ Cardinality(s.visited) \in Nat /\ VisitLimit \in Nat /\ ChildLimit \in Nat
      /\ IsFiniteSet(s.visited) /\ Len(s.found) \in Nat
      /\ DOMAIN s.stack = 1..Len(s.stack) /\ DOMAIN s.found = 1..Len(s.found)
  BY SearchFacts
<1>2. s.stack \in Seq(P) /\ s.found \in Seq(P) /\ s.visited \in SUBSET {Key(p) : p \in P}
  BY <1>1
<1>3. /\ rest \in Seq(P) /\ Len(rest) = Len(s.stack) - 1 /\ e = s.stack[1]
      /\ \A i \in 1..(Len(s.stack) - 1) : rest[i] = s.stack[i + 1]
      /\ e \in P
  <2> HIDE DEF P
  <2> QED BY <1>2, TailFacts
<1>4. e \in Entries
  BY <1>3, PlacesAre
<1>5. new \in Seq(P) /\ Len(new) \in Nat /\ Len(new) <= ChildLimit
  <2>1. CASE Len(e.at) < depth
    <3>1. \A i \in 1..Len(Children(e)) : Children(e)[i] \in P
      BY <1>3, <2>1, PlacesAre
    <3>2. Children(e) \in Seq(Entries) /\ Len(Children(e)) <= ChildLimit
      BY <1>4, ChildrenAre
    <3> HIDE DEF P, e
    <3>3. Children(e) \in Seq(P)
      BY <3>1, <3>2
    <3> QED BY <2>1, <3>2, <3>3, LenProperties
  <2>2. CASE ~(Len(e.at) < depth)
    <3> HIDE DEF P, e
    <3>1. new = <<>>
      BY <2>2
    <3> HIDE DEF new
    <3>2. ChildLimit \in Nat
      BY <1>1
    <3> QED BY <3>1, <3>2, EmptySeq
  <2> QED BY <2>1, <2>2
<1> HIDE DEF P
<1>6. /\ listed \in Seq(P)
      /\ Len(listed) <= Len(s.found) + 1
      /\ DOMAIN listed = 1..Len(listed)
      /\ \A i \in DOMAIN s.found : i \in DOMAIN listed /\ listed[i] = s.found[i]
      /\ \A i \in DOMAIN listed : i \notin DOMAIN s.found => listed[i] = e /\ e.item.hit /\ i = Len(s.found) + 1
      /\ e.at # <<>> /\ e.item.hit => \E i \in DOMAIN listed : listed[i] = e
  <2> HIDE DEF e
  <2>1. CASE e.at # <<>> /\ e.item.hit
    <3>1. listed = Append(s.found, e)
      BY <2>1
    <3> HIDE DEF listed
    <3>2. /\ listed \in Seq(P) /\ Len(listed) = Len(s.found) + 1
          /\ \A i \in 1..Len(s.found) : listed[i] = s.found[i]
          /\ listed[Len(s.found) + 1] = e
      BY <1>2, <1>3, <3>1, AppendProperties
    <3>3. DOMAIN listed = 1..(Len(s.found) + 1)
      BY <3>2, LenProperties
    <3>4. Len(s.found) + 1 \in DOMAIN listed /\ \A i \in 1..Len(s.found) : i \in DOMAIN listed
      BY <1>1, <3>3
    <3>5. \A i \in DOMAIN listed : i \notin DOMAIN s.found => i = Len(s.found) + 1
      BY <1>1, <3>3
    <3>6. Len(listed) <= Len(s.found) + 1
      BY <1>1, <3>2
    <3> QED BY <1>1, <2>1, <3>2, <3>3, <3>4, <3>5, <3>6, Zenon
  <2>2. CASE ~(e.at # <<>> /\ e.item.hit)
    <3>1. listed = s.found
      BY <2>2
    <3> HIDE DEF listed
    <3>2. Len(s.found) <= Len(s.found) + 1
      BY <1>1
    <3> QED BY <1>1, <1>2, <2>2, <3>1, <3>2, Zenon
  <2> QED BY <2>1, <2>2
<1>7. /\ new \o rest \in Seq(P) /\ Len(new \o rest) = Len(new) + Len(rest)
      /\ \A i \in 1..(Len(new) + Len(rest)) :
           (new \o rest)[i] = IF i <= Len(new) THEN new[i] ELSE rest[i - Len(new)]
  <2> HIDE DEF new, rest
  <2>1. new \in Seq(P) /\ rest \in Seq(P)
    BY <1>3, <1>5, Zenon
  <2> QED BY <2>1, ConcatProperties
<1>8. t = [s EXCEPT !.stack = new \o rest, !.visited = s.visited \cup {Key(e)}, !.found = listed]
  BY Zenon DEF Visit
<1> HIDE DEF t, listed
<1>9. Key(e) \in {Key(p) : p \in P}
  BY <1>3
<1>10. /\ t \in [cat : 0..Len(browser), stack : Seq(P), visited : SUBSET {Key(p) : p \in P}, found : Seq(P)]
       /\ t.cat = s.cat /\ t.stack = new \o rest /\ t.visited = s.visited \cup {Key(e)} /\ t.found = listed
  <2> HIDE DEF new, rest, e
  <2>1. new \o rest \in Seq(P) /\ listed \in Seq(P)
        /\ s.visited \cup {Key(e)} \in SUBSET {Key(p) : p \in P}
    BY <1>2, <1>6, <1>7, <1>9
  <2> QED BY <1>1, <1>8, <2>1
<1> HIDE DEF e, rest
<1>11. /\ \A x : Met(s, x) => Met(t, x)
       /\ \A x : Opened(s, x, depth) => Opened(t, x, depth)
  <2>1. ASSUME NEW i \in DOMAIN s.stack
        PROVE  Key(s.stack[i]) \in t.visited \/ \E j \in DOMAIN t.stack : t.stack[j] = s.stack[i]
    <3>1. CASE i = 1
      BY <1>3, <1>10, <3>1
    <3>2. CASE i # 1
      <4> HIDE DEF new
      <4>1. i - 1 \in 1..(Len(s.stack) - 1) /\ i - 1 + 1 = i
        BY <1>1, <3>2
      <4> DEFINE j == Len(new) + (i - 1)
      <4>2. j \in 1..(Len(new) + Len(rest)) /\ ~(j <= Len(new)) /\ j - Len(new) = i - 1
        <5>1. Len(new) \in Nat /\ Len(s.stack) \in Nat /\ Len(rest) = Len(s.stack) - 1
          BY <1>1, <1>3, <1>5, Zenon
        <5>2. i - 1 \in Int /\ 1 <= i - 1 /\ i - 1 <= Len(s.stack) - 1
          BY <4>1, <5>1
        <5>3. j \in Int /\ 1 <= j /\ j <= Len(new) + Len(rest)
          BY <5>1, <5>2
        <5> QED BY <5>1, <5>2, <5>3
      <4> HIDE DEF j
      <4>3. (new \o rest)[j] = rest[i - 1]
        BY <1>7, <4>2
      <4>4. rest[i - 1] = s.stack[i]
        BY <1>3, <4>1
      <4>5. DOMAIN (new \o rest) = 1..(Len(new) + Len(rest))
        BY <1>7, LenProperties
      <4> QED BY <1>10, <4>2, <4>3, <4>4, <4>5, Zenon
    <3> QED BY <3>1, <3>2
  <2>2. \A i \in DOMAIN s.found : \E j \in DOMAIN t.found : t.found[j] = s.found[i]
    BY <1>6, <1>10, Zenon
  <2>3. s.visited \subseteq t.visited
    BY <1>10
  <2> QED BY <2>1, <2>2, <2>3, MetStays
<1>12. Opened(t, e, depth)
  <2>1. e.at # <<>> /\ e.item.hit => \E i \in DOMAIN t.found : t.found[i] = e
    BY <1>6, <1>10, Zenon
  <2>2. ASSUME Len(e.at) < depth, NEW i \in DOMAIN Children(e) PROVE Met(t, Children(e)[i])
    <3>1. new = Children(e)
      BY <2>2
    <3> HIDE DEF new
    <3>2. i \in 1..Len(new)
      BY <1>5, <2>2, <3>1, LenProperties
    <3>3. i \in 1..(Len(new) + Len(rest)) /\ i <= Len(new)
      BY <1>1, <1>3, <1>5, <3>2, LenProperties
    <3>4. (new \o rest)[i] = Children(e)[i]
      BY <1>7, <3>1, <3>3
    <3>5. DOMAIN (new \o rest) = 1..(Len(new) + Len(rest))
      BY <1>7, LenProperties
    <3> QED BY <1>10, <3>3, <3>4, <3>5, Zenon DEF Met
  <2> QED BY <2>1, <2>2, Zenon DEF Opened
<1>13. /\ Cardinality(s.visited) < VisitLimit /\ Len(s.found) < limit
  <2>1. ~(Len(s.found) >= limit) /\ ~(Cardinality(s.visited) >= VisitLimit)
    BY Zenon DEF Stopped
  <2> QED BY <1>1, <2>1
<1>14. IsFiniteSet(t.visited) /\ Cardinality(t.visited) = Cardinality(s.visited) + 1
  <2>1. Key(e) \notin s.visited
    BY DEF e
  <2>2. IsFiniteSet(s.visited) /\ t.visited = s.visited \cup {Key(e)}
    BY <1>1, <1>10, Zenon
  <2> HIDE DEF t
  <2> QED BY <2>1, <2>2, FS_AddElement
<1>15. /\ \A cat \in 1..s.cat : Met(s, Entry(browser[cat], cat, <<>>))
       /\ \A k \in s.visited : \E x \in P : Key(x) = k /\ Opened(s, x, depth)
       /\ \A i \in DOMAIN s.found : s.found[i].item.hit /\ Key(s.found[i]) \in s.visited
       /\ \A i, j \in DOMAIN s.found : i # j => Key(s.found[i]) # Key(s.found[j])
  BY Zenon DEF Searches, P
<1>16. \A cat \in 1..t.cat : Met(t, Entry(browser[cat], cat, <<>>))
  BY <1>10, <1>11, <1>15, Zenon
<1>17. ASSUME NEW k \in t.visited PROVE \E x \in P : Key(x) = k /\ Opened(t, x, depth)
  <2>1. CASE k \in s.visited
    BY <1>11, <1>15, <2>1, Zenon
  <2>2. CASE k = Key(e)
    BY <1>3, <1>12, <2>2, Zenon
  <2> QED BY <1>10, <2>1, <2>2
<1>18. \A i \in DOMAIN t.found : t.found[i].item.hit /\ Key(t.found[i]) \in t.visited
  <2>1. \A i \in DOMAIN listed : listed[i].item.hit /\ Key(listed[i]) \in s.visited \cup {Key(e)}
    BY <1>6, <1>15, Zenon
  <2> QED BY <1>10, <2>1, Zenon
<1>19. ASSUME NEW i \in DOMAIN listed, NEW j \in DOMAIN listed, i # j
       PROVE  Key(listed[i]) # Key(listed[j])
  <2>1. Key(e) \notin s.visited
    BY DEF e
  <2>2. CASE i \in DOMAIN s.found /\ j \in DOMAIN s.found
    BY <1>6, <1>15, <1>19, <2>2, Zenon
  <2>3. CASE i \in DOMAIN s.found /\ j \notin DOMAIN s.found
    BY <1>6, <1>15, <2>1, <2>3, Zenon
  <2>4. CASE i \notin DOMAIN s.found /\ j \in DOMAIN s.found
    BY <1>6, <1>15, <2>1, <2>4, Zenon
  <2>5. CASE i \notin DOMAIN s.found /\ j \notin DOMAIN s.found
    BY <1>6, <1>19, <2>5, Zenon
  <2> QED BY <2>2, <2>3, <2>4, <2>5
<1>20. Len(t.found) <= limit /\ Cardinality(t.visited) <= VisitLimit
  <2>1. Len(listed) \in Nat /\ Len(listed) <= Len(s.found) + 1 /\ t.found = listed
    BY <1>6, <1>10, LenProperties
  <2> QED BY <1>1, <1>13, <1>14, <2>1
<1>21. t \in Searches(browser, limit, depth)
  <2>1. \A i, j \in DOMAIN t.found : i # j => Key(t.found[i]) # Key(t.found[j])
    BY <1>10, <1>19, Zenon
  <2> QED BY <1>10, <1>14, <1>16, <1>17, <1>18, <1>20, <2>1, Zenon DEF Searches, P
<1>22. Left(t, browser) <= Left(s, browser) - 1
  <2> HIDE DEF new
  <2> DEFINE n == Cardinality(s.visited)
             m == ChildLimit * (VisitLimit - n)
             c == 2 * (Len(browser) - s.cat)
  <2>1. n \in Nat /\ ChildLimit \in Nat /\ VisitLimit \in Nat
    BY <1>1
  <2> HIDE DEF n
  <2>2. ChildLimit * (VisitLimit - (n + 1)) = m - ChildLimit /\ m \in Int
    BY <2>1, OneLess
  <2>3. c \in Int
    BY <1>1
  <2>4. Len(t.stack) = Len(new) + Len(rest) /\ Len(rest) = Len(s.stack) - 1
    BY <1>3, <1>7, <1>10
  <2>5. Left(t, browser) = Len(new) + Len(rest) + ChildLimit * (VisitLimit - (n + 1)) + c
    BY <1>10, <1>14, <2>4, Zenon DEF Left, n
  <2>6. Left(s, browser) = Len(s.stack) + m + c
    BY Zenon DEF Left, n
  <2> HIDE DEF m, c
  <2>7. Left(t, browser) = Len(new) + (Len(s.stack) - 1) + (m - ChildLimit) + c
    BY <2>2, <2>4, <2>5, Zenon
  <2>8. Len(new) \in Nat /\ Len(new) <= ChildLimit /\ Len(s.stack) \in Nat
    BY <1>1, <1>5
  <2> QED BY <2>1, <2>2, <2>3, <2>6, <2>7, <2>8
<1> QED BY <1>21, <1>22 DEF t

Start == [cat |-> 0, stack |-> <<>>, visited |-> {}, found |-> <<>>]

\* A search begins with all its turns to take.
LEMMA SearchStarts ==
  ASSUME NEW browser \in Seq(Items), NEW limit \in Nat, NEW depth \in Nat
  PROVE  /\ Start \in Searches(browser, limit, depth)
         /\ Left(Start, browser) = Turns(browser)
<1> DEFINE P == Places(browser, depth)
<1> HIDE DEF P
<1>1. Len(browser) \in Nat /\ ChildLimit \in Nat /\ VisitLimit \in Nat
  BY LenProperties, ReadsAssumption
<1>2. <<>> \in Seq(P) /\ 0 \in 0..Len(browser)
  BY <1>1
<1>3. /\ Start \in [cat : 0..Len(browser), stack : Seq(P), visited : SUBSET {Key(p) : p \in P}, found : Seq(P)]
      /\ Start.cat = 0 /\ Start.stack = <<>> /\ Start.visited = {} /\ Start.found = <<>>
  BY <1>2 DEF Start
<1> HIDE DEF Start
<1>4. IsFiniteSet({}) /\ Cardinality({}) = 0
  BY FS_EmptySet
<1>5. 1..0 = {} /\ DOMAIN <<>> = {} /\ Len(<<>>) = 0
  OBVIOUS
<1>6. Start \in Searches(browser, limit, depth)
  <2>1. 0 <= limit /\ 0 <= VisitLimit
    BY <1>1
  <2>2. /\ IsFiniteSet(Start.visited) /\ Cardinality(Start.visited) <= VisitLimit
        /\ \A cat \in 1..Start.cat : Met(Start, Entry(browser[cat], cat, <<>>))
        /\ \A k \in Start.visited : \E x \in P : Key(x) = k /\ Opened(Start, x, depth)
        /\ Len(Start.found) <= limit
        /\ \A i \in DOMAIN Start.found : Start.found[i].item.hit /\ Key(Start.found[i]) \in Start.visited
        /\ \A i, j \in DOMAIN Start.found : i # j => Key(Start.found[i]) # Key(Start.found[j])
    BY <1>3, <1>4, <1>5, <2>1
  <2> QED BY <1>3, <2>2, Zenon DEF Searches, P
<1>7. Left(Start, browser) = 0 + ChildLimit * (VisitLimit - 0) + 2 * (Len(browser) - 0)
  BY <1>3, <1>4, <1>5, Zenon DEF Left
<1>8. VisitLimit - 0 = VisitLimit /\ Len(browser) - 0 = Len(browser)
  BY <1>1
<1>9. ChildLimit * VisitLimit \in Int /\ 2 * Len(browser) \in Int
  BY <1>1
<1>10. Left(Start, browser) = 0 + ChildLimit * VisitLimit + 2 * Len(browser)
  BY <1>7, <1>8, Zenon
<1> QED BY <1>6, <1>9, <1>10 DEF Turns

\* A turn keeps the invariant of the search and takes one of those left, until it has ended.
LEMMA TurnKeeps ==
  ASSUME NEW browser \in Seq(Items), NEW limit \in Nat, NEW depth \in Nat,
         NEW s \in Searches(browser, limit, depth)
  PROVE  /\ Turn(s, browser, limit, depth) \in Searches(browser, limit, depth)
         /\ Ended(s, browser, limit) => Turn(s, browser, limit, depth) = s
         /\ ~Ended(s, browser, limit) => Left(Turn(s, browser, limit, depth), browser) <= Left(s, browser) - 1
         /\ Left(s, browser) \in Int
         /\ ~Ended(s, browser, limit) => Left(s, browser) > 0
<1>1. /\ Len(browser) \in Nat /\ s.cat \in Nat /\ s.cat <= Len(browser)
      /\ Cardinality(s.visited) \in Nat /\ Cardinality(s.visited) <= VisitLimit
      /\ VisitLimit \in Nat \ {0} /\ ChildLimit \in Nat \ {0} /\ Len(s.stack) \in Nat
  BY SearchFacts
<1> DEFINE v == VisitLimit - Cardinality(s.visited)
           m == ChildLimit * v
           c == 2 * (Len(browser) - s.cat)
<1>2. v \in Nat
  BY <1>1
<1>3. c \in Nat
  BY <1>1
<1> HIDE DEF v
<1>4. m \in Nat /\ (v > 0 => m > 0)
  BY <1>1, <1>2
<1>5. Left(s, browser) = Len(s.stack) + m + c
  BY Zenon DEF Left, v
<1> HIDE DEF m, c
<1>6. Left(s, browser) \in Int
  BY <1>1, <1>3, <1>4, <1>5
<1>7. CASE Ended(s, browser, limit)
  <2>1. Turn(s, browser, limit, depth) = s
    BY <1>7, Zenon DEF Turn
  <2> QED BY <1>6, <1>7, <2>1, Zenon
<1>8. CASE ~Ended(s, browser, limit)
  <2>1. ~Stopped(s, limit) /\ ~(s.stack = <<>> /\ s.cat = Len(browser))
    BY <1>8, Zenon DEF Ended
  <2>2. v > 0
    <3>1. ~(Cardinality(s.visited) >= VisitLimit)
      BY <2>1, Zenon DEF Stopped
    <3> QED BY <1>1, <3>1 DEF v
  <2>3. Left(s, browser) > 0
    BY <1>1, <1>3, <1>4, <1>5, <2>2
  <2>4. /\ Turn(s, browser, limit, depth) \in Searches(browser, limit, depth)
        /\ Left(Turn(s, browser, limit, depth), browser) <= Left(s, browser) - 1
    <3>1. CASE s.stack = <<>>
      <4>1. Turn(s, browser, limit, depth) = NextCategory(s, browser)
        BY <1>8, <3>1, Zenon DEF Turn
      <4>2. /\ NextCategory(s, browser) \in Searches(browser, limit, depth)
            /\ Left(NextCategory(s, browser), browser) = Left(s, browser) - 1
        BY <2>1, <3>1, NextCategoryKeeps, Zenon
      <4>3. Left(s, browser) - 1 <= Left(s, browser) - 1
        BY <1>6
      <4> QED BY <4>1, <4>2, <4>3, Zenon
    <3>2. CASE s.stack # <<>>
      <4>1. Turn(s, browser, limit, depth) = Visit(s, depth)
        BY <1>8, <3>2, Zenon DEF Turn
      <4>2. CASE Key(Head(s.stack)) \in s.visited
        <5>1. /\ Visit(s, depth) \in Searches(browser, limit, depth)
              /\ Left(Visit(s, depth), browser) = Left(s, browser) - 1
          BY <3>2, <4>2, PassingKeeps, Zenon
        <5>2. Left(s, browser) - 1 <= Left(s, browser) - 1
          BY <1>6
        <5> QED BY <4>1, <5>1, <5>2, Zenon
      <4>3. CASE Key(Head(s.stack)) \notin s.visited
        BY <2>1, <3>2, <4>1, <4>3, VisitKeeps, Zenon
      <4> QED BY <4>2, <4>3
    <3> QED BY <3>1, <3>2
  <2> QED BY <1>6, <1>8, <2>3, <2>4, Zenon
<1> QED BY <1>7, <1>8

\* The turns of a search follow each other.
LEMMA SearchRuns ==
  ASSUME NEW browser, NEW limit, NEW depth,
         Start \in Searches(browser, limit, depth),
         \A s \in Searches(browser, limit, depth) :
           Turn(s, browser, limit, depth) \in Searches(browser, limit, depth)
  PROVE  \E f : /\ f[0] = Start
                /\ \A n \in Nat : n > 0 => f[n] = Turn(f[n - 1], browser, limit, depth)
<1> DEFINE S == Searches(browser, limit, depth)
           g == [s \in S |-> Turn(s, browser, limit, depth)]
<1>1. Start \in S /\ g \in [S -> S]
  OBVIOUS
<1>2. \A s \in S : g[s] = Turn(s, browser, limit, depth)
  OBVIOUS
<1> HIDE DEF S, g
<1>3. PICK f \in [Nat -> S] : f[0] = Start /\ \A n \in Nat : n > 0 => f[n] = g[f[n - 1]]
  BY <1>1, Iterates
<1>4. \A n \in Nat : n > 0 => f[n] = Turn(f[n - 1], browser, limit, depth)
  <2>1. \A n \in Nat : n > 0 => n - 1 \in Nat
    OBVIOUS
  <2>2. \A n \in Nat : n > 0 => f[n - 1] \in S
    BY <1>3, <2>1
  <2> QED BY <1>2, <1>3, <2>2
<1> QED BY <1>3, <1>4, Zenon

\* A search comes to its end within the turns it is given.
LEMMA SearchEnds ==
  ASSUME NEW browser \in Seq(Items), NEW limit \in Nat, NEW depth \in Nat
  PROVE  /\ Search(browser, limit, depth) \in Searches(browser, limit, depth)
         /\ Ended(Search(browser, limit, depth), browser, limit)
<1> DEFINE S == Searches(browser, limit, depth)
<1>1. Start \in S /\ Left(Start, browser) = Turns(browser)
  BY SearchStarts
<1>2. \A s \in S : Turn(s, browser, limit, depth) \in S
  BY TurnKeeps
<1>3. PICK h : /\ h[0] = Start
               /\ \A n \in Nat : n > 0 => h[n] = Turn(h[n - 1], browser, limit, depth)
  BY <1>1, <1>2, SearchRuns
<1> HIDE DEF S
<1> DEFINE f == [n \in Nat |-> h[n]]
<1>4. \A n \in Nat : f[n] = IF n = 0 THEN Start ELSE Turn(f[n - 1], browser, limit, depth)
  <2>1. \A n \in Nat : n # 0 => n - 1 \in Nat /\ n > 0
    OBVIOUS
  <2>2. \A n \in Nat : f[n] = h[n]
    OBVIOUS
  <2> HIDE DEF f
  <2> QED BY <1>3, <2>1, <2>2
<1>5. f = [n \in Nat |-> IF n = 0 THEN Start ELSE Turn(f[n - 1], browser, limit, depth)]
  <2>1. f = [n \in Nat |-> f[n]]
    OBVIOUS
  <2> HIDE DEF f
  <2> QED BY <1>4, <2>1
<1> HIDE DEF f
<1> DEFINE after[n \in Nat] == IF n = 0 THEN Start ELSE Turn(after[n - 1], browser, limit, depth)
<1>6. after = [n \in Nat |-> IF n = 0 THEN Start ELSE Turn(after[n - 1], browser, limit, depth)]
  BY <1>5, Zenon DEF after
<1>7. Search(browser, limit, depth) = after[Turns(browser)]
  BY Zenon DEF Search, after, Start
<1> HIDE DEF after
<1> DEFINE U == {n \in Nat : /\ after[n] \in S
                             /\ \/ Ended(after[n], browser, limit)
                                \/ Left(after[n], browser) <= Turns(browser) - n}
<1>8. Turns(browser) \in Nat
  <2>1. Len(browser) \in Nat /\ ChildLimit \in Nat /\ VisitLimit \in Nat
    BY LenProperties, ReadsAssumption
  <2>2. 2 * Len(browser) \in Nat /\ ChildLimit * VisitLimit \in Nat
    BY <2>1
  <2> QED BY <2>2 DEF Turns
<1>9. 0 \in U
  <2>1. after[0] = Start
    BY <1>6
  <2>2. Left(Start, browser) <= Turns(browser) - 0
    BY <1>1, <1>8
  <2> QED BY <1>1, <2>1, <2>2
<1>10. ASSUME NEW n \in U PROVE n + 1 \in U
  <2>1. n \in Nat /\ n + 1 \in Nat /\ n + 1 # 0 /\ n + 1 - 1 = n
    BY <1>10
  <2>2. after[n + 1] = Turn(after[n], browser, limit, depth)
    BY <1>6, <2>1
  <2>3. after[n] \in S
    BY <1>10
  <2>4. after[n + 1] \in S
    BY <1>2, <2>2, <2>3, Zenon
  <2>5. CASE Ended(after[n], browser, limit)
    <3>1. after[n + 1] = after[n]
      BY <2>2, <2>3, <2>5, TurnKeeps, Zenon DEF S
    <3> QED BY <2>1, <2>4, <2>5, <3>1
  <2>6. CASE ~Ended(after[n], browser, limit)
    <3>1. Left(after[n], browser) <= Turns(browser) - n
      BY <1>10, <2>6
    <3>2. /\ Left(after[n + 1], browser) <= Left(after[n], browser) - 1
          /\ Left(after[n], browser) \in Int /\ Left(after[n + 1], browser) \in Int
      BY <2>2, <2>3, <2>4, <2>6, TurnKeeps, Zenon DEF S
    <3>3. Left(after[n + 1], browser) <= Turns(browser) - (n + 1)
      BY <1>8, <2>1, <3>1, <3>2
    <3> QED BY <2>1, <2>4, <3>3
  <2> QED BY <2>5, <2>6
<1>11. U = Nat
  <2> HIDE DEF U
  <2>1. U \subseteq Nat
    BY DEF U
  <2> QED BY <1>9, <1>10, <2>1, Inductive
<1>12. /\ after[Turns(browser)] \in S
       /\ Ended(after[Turns(browser)], browser, limit)
  <2> DEFINE last == after[Turns(browser)]
  <2>1. /\ last \in S
        /\ Ended(last, browser, limit) \/ Left(last, browser) <= Turns(browser) - Turns(browser)
    BY <1>8, <1>11
  <2> HIDE DEF last
  <2>2. ASSUME ~Ended(last, browser, limit) PROVE FALSE
    <3>1. Left(last, browser) \in Int /\ Left(last, browser) > 0
      BY <2>1, <2>2, TurnKeeps, Zenon DEF S
    <3> QED BY <1>8, <2>1, <2>2, <3>1
  <2> QED BY <2>1, <2>2 DEF last
<1> QED BY <1>7, <1>12 DEF S

\* What is on the way to a parent is on the way to its children.
LEMMA PrefixOfAppend ==
  ASSUME NEW s \in Seq(Nat), NEW t \in Seq(Nat), NEW i \in Nat
  PROVE  /\ IsPrefix(t, t)
         /\ IsPrefix(s, t) => IsPrefix(s, Append(t, i))
<1>1. IsPrefix(t, t)
  <2>1. Len(t) <= Len(t)
    BY LenProperties
  <2> QED BY <2>1 DEF IsPrefix
<1>2. ASSUME IsPrefix(s, t) PROVE IsPrefix(s, Append(t, i))
  <2> DEFINE n == Len(s)
             u == Append(t, i)
  <2>1. /\ n \in Nat /\ Len(t) \in Nat /\ n <= Len(t)
        /\ SubSeq(s, 1, n) = SubSeq(t, 1, n)
    BY <1>2, LenProperties DEF IsPrefix
  <2>2. u \in Seq(Nat) /\ Len(u) = Len(t) + 1 /\ \A k \in 1..Len(t) : u[k] = t[k]
    BY AppendProperties
  <2> HIDE DEF n, u
  <2>3. n <= Len(u)
    BY <2>1, <2>2
  <2>4. \A k \in 1..n : k \in 1..Len(t) /\ k \in 1..Len(u) /\ 1 + k - 1 = k /\ k \in 1..(n - 1 + 1)
    BY <2>1, <2>2
  <2>5. \A k \in 1..n : t[k] \in Nat /\ u[k] \in Nat
    BY <2>2, <2>4, ElementOfSeq
  <2>6. /\ SubSeq(t, 1, n) \in Seq(Nat) /\ Len(SubSeq(t, 1, n)) = IF 1 <= n THEN n - 1 + 1 ELSE 0
        /\ \A k \in 1..(n - 1 + 1) : SubSeq(t, 1, n)[k] = t[1 + k - 1]
    <3>1. 1 \in Int /\ n \in Int
      BY <2>1
    <3> QED BY <2>5, <3>1, SubSeqProperties
  <2>7. /\ SubSeq(u, 1, n) \in Seq(Nat) /\ Len(SubSeq(u, 1, n)) = IF 1 <= n THEN n - 1 + 1 ELSE 0
        /\ \A k \in 1..(n - 1 + 1) : SubSeq(u, 1, n)[k] = u[1 + k - 1]
    <3>1. 1 \in Int /\ n \in Int
      BY <2>1
    <3> QED BY <2>5, <3>1, SubSeqProperties
  <2>8. Len(SubSeq(t, 1, n)) = n /\ Len(SubSeq(u, 1, n)) = n
    BY <2>1, <2>6, <2>7
  <2>9. \A k \in 1..n : SubSeq(t, 1, n)[k] = SubSeq(u, 1, n)[k]
    BY <2>2, <2>4, <2>6, <2>7, Zenon
  <2>10. SubSeq(t, 1, n) = SubSeq(u, 1, n)
    BY <2>6, <2>7, <2>8, <2>9, SeqEqual
  <2> QED BY <2>1, <2>3, <2>10 DEF IsPrefix, n, u
<1> QED BY <1>1, <1>2

\* A key tells the uri of its item or, if there is none, the place.
LEMMA KeysTell ==
  ASSUME NEW x, NEW y, Key(x) = Key(y)
  PROVE  /\ x.item.uri = y.item.uri
         /\ x.item.uri = "" => x.cat = y.cat /\ x.at = y.at
<1>1. Key(x).uri = x.item.uri /\ Key(y).uri = y.item.uri
  BY DEF Key
<1>2. x.item.uri = "" => Key(x).cat = x.cat /\ Key(x).at = x.at
  BY DEF Key
<1>3. y.item.uri = "" => Key(y).cat = y.cat /\ Key(y).at = y.at
  BY DEF Key
<1> QED BY <1>1, <1>2, <1>3

\* Uris that are unique to some depth are so to a lower one.
LEMMA UrisStayUnique ==
  ASSUME NEW browser \in Seq(Items), NEW d \in Nat, NEW depth \in Nat, d <= depth,
         UrisAreUnique(browser, depth)
  PROVE  UrisAreUnique(browser, d)
BY PlacesGrow DEF UrisAreUnique

\* What is shared on the way to an entry is so at the same depth, or nothing is.
Clear(P, e) == \A p \in OnTheWay(e, P) : \A q \in P :
                 q.item = p.item /\ p.item.uri # "" => Len(q.at) = Len(p.at)
Alone(P, e) == \A p \in OnTheWay(e, P) : \A q \in P : q.item = p.item /\ p.item.uri # "" => q = p

\* An item like that of e, at the depth of e, was listed and its children are met.
Reached(P, s, e, depth) ==
  \E x \in P : /\ x.item = e.item /\ Len(x.at) = Len(e.at) /\ Opened(s, x, depth)
               /\ Alone(P, e) => x = e

\* What holds of the way to a child holds of the way to its parent.
LEMMA WayGrows ==
  ASSUME NEW P \in SUBSET Entries, NEW d \in P, NEW i \in 1..Len(Children(d)), NEW e \in P,
         e = Children(d)[i]
  PROVE  /\ Clear(P, e) => Clear(P, d)
         /\ Alone(P, e) => Alone(P, d)
<1>1. d \in Entries
  OBVIOUS
<1>2. e = Entry(d.item.kids[i], d.cat, Append(d.at, i)) /\ Len(Children(d)) \in Nat
  BY <1>1, ChildrenAre, LenProperties
<1>3. e.cat = d.cat /\ e.at = Append(d.at, i) /\ i \in Nat
  BY <1>2 DEF Entry
<1>4. ASSUME NEW p \in OnTheWay(d, P) PROVE p \in OnTheWay(e, P)
  <2>1. p \in P /\ p.cat = d.cat /\ IsPrefix(p.at, d.at)
    BY <1>4, Zenon DEF OnTheWay
  <2>2. PICK s \in Seq(Nat) : s = p.at
    BY <2>1 DEF Entries
  <2>3. PICK t \in Seq(Nat) : t = d.at
    BY <1>1 DEF Entries
  <2>4. IsPrefix(s, Append(t, i))
    BY <1>3, <2>1, <2>2, <2>3, PrefixOfAppend
  <2>5. IsPrefix(p.at, e.at)
    BY <1>3, <2>2, <2>3, <2>4, Zenon
  <2> QED BY <1>3, <2>1, <2>5, Zenon DEF OnTheWay
<1> QED BY <1>4, Zenon DEF Clear, Alone

\* A place is on the way to itself.
LEMMA OnItsWay ==
  ASSUME NEW P \in SUBSET Entries, NEW e \in P
  PROVE  e \in OnTheWay(e, P)
<1>1. PICK t \in Seq(Nat) : t = e.at
  BY DEF Entries
<1>2. IsPrefix(t, t)
  BY <1>1, PrefixOfAppend
<1> QED BY <1>1, <1>2, Zenon DEF OnTheWay

\* An item that was visited here, or at a place that stands for this one.
LEMMA VisitedIsReached ==
  ASSUME NEW browser \in Seq(Items), NEW limit \in Nat, NEW depth \in Nat,
         NEW s \in Searches(browser, limit, depth), UrisAreUnique(browser, depth),
         NEW e \in Places(browser, depth), NEW y \in Places(browser, depth),
         Clear(Places(browser, depth), e), y.item = e.item, Len(y.at) = Len(e.at),
         Alone(Places(browser, depth), e) => y = e,
         Key(y) \in s.visited
  PROVE  Reached(Places(browser, depth), s, e, depth)
<1> DEFINE P == Places(browser, depth)
<1>1. P \in SUBSET Entries
  BY PlacesAre
<1>2. PICK x \in P : Key(x) = Key(y) /\ Opened(s, x, depth)
  BY Zenon DEF Searches
<1>3. e \in OnTheWay(e, P)
  BY <1>1, OnItsWay
<1>4. CASE y.item.uri # ""
  <2>1. x.item.uri = y.item.uri
    BY <1>2, KeysTell
  <2>2. x.item = e.item /\ e.item.uri # ""
    BY <1>4, <2>1, Zenon DEF UrisAreUnique
  <2>3. Len(x.at) = Len(e.at)
    BY <1>3, <2>2, Zenon DEF Clear
  <2>4. Alone(P, e) => x = e
    BY <1>3, <2>2, Zenon DEF Alone
  <2> QED BY <1>2, <2>2, <2>3, <2>4, Zenon DEF Reached
<1>5. CASE y.item.uri = ""
  <2>1. x.cat = y.cat /\ x.at = y.at
    BY <1>2, <1>5, KeysTell
  <2>2. x = y
    BY <2>1, PlacesDiffer
  <2> QED BY <1>2, <2>2, Zenon DEF Reached
<1> QED BY <1>4, <1>5

\* When nothing is left to visit every place is reached, but behind an item that is shared
\* at different depths.
LEMMA AllIsReached ==
  ASSUME NEW browser \in Seq(Items), NEW limit \in Nat, NEW depth \in Nat,
         NEW s \in Searches(browser, limit, depth), UrisAreUnique(browser, depth),
         s.stack = <<>>, s.cat = Len(browser)
  PROVE  \A e \in Places(browser, depth) :
           Clear(Places(browser, depth), e) => Reached(Places(browser, depth), s, e, depth)
<1> DEFINE P == Places(browser, depth)
           U == {n \in Nat : \A e \in P : Len(e.at) = n /\ Clear(P, e) => Reached(P, s, e, depth)}
<1>1. /\ P \in SUBSET Entries
      /\ \A p \in P : Len(p.at) <= depth
      /\ \A e \in P : Len(e.at) < depth => \A i \in 1..Len(Children(e)) : Children(e)[i] \in P
      /\ \A p \in P :
              \/ p.at = <<>> /\ p.cat \in DOMAIN browser /\ p = Entry(browser[p.cat], p.cat, <<>>)
              \/ \E e \in P : \E i \in 1..Len(Children(e)) : p = Children(e)[i]
  BY PlacesAre
<1>2. \A e : Met(s, e) => Key(e) \in s.visited
  BY DEF Met
<1>3. \A cat \in 1..Len(browser) : Met(s, Entry(browser[cat], cat, <<>>))
  BY Zenon DEF Searches
<1>4. \A e \in P : Len(e.at) \in Nat
  BY <1>1, LenProperties DEF Entries
<1>5. \A e, y \in P : /\ Clear(P, e) /\ y.item = e.item /\ Len(y.at) = Len(e.at)
                      /\ Alone(P, e) => y = e
                      /\ Key(y) \in s.visited
                      => Reached(P, s, e, depth)
  BY VisitedIsReached, Zenon
<1> HIDE DEF P
<1>6. ASSUME NEW d \in P, NEW i \in 1..Len(Children(d)), NEW e \in P, e = Children(d)[i],
             Clear(P, e), Reached(P, s, d, depth)
      PROVE  Reached(P, s, e, depth)
  <2>1. PICK x \in P : /\ x.item = d.item /\ Len(x.at) = Len(d.at) /\ Opened(s, x, depth)
                       /\ Alone(P, d) => x = d
    BY <1>6, Zenon DEF Reached
  <2>2. d \in Entries /\ x \in Entries
    BY <1>1
  <2>3. Len(Children(x)) = Len(Children(d)) /\ Len(Children(d)) \in Nat
    <3>1. /\ Len(Children(d)) = IF Len(d.item.kids) < ChildLimit THEN Len(d.item.kids) ELSE ChildLimit
          /\ Len(Children(x)) = IF Len(x.item.kids) < ChildLimit THEN Len(x.item.kids) ELSE ChildLimit
          /\ Len(Children(d)) \in Nat
      BY <2>2, ChildrenAre, LenProperties
    <3> QED BY <2>1, <3>1
  <2>4. i \in 1..Len(Children(x)) /\ i \in DOMAIN Children(x)
    BY <2>2, <2>3, ChildrenAre, LenProperties
  <2>5. /\ e = Entry(d.item.kids[i], d.cat, Append(d.at, i)) /\ Len(Append(d.at, i)) = Len(d.at) + 1
        /\ Children(x)[i] = Entry(x.item.kids[i], x.cat, Append(x.at, i))
        /\ Len(Append(x.at, i)) = Len(x.at) + 1
    BY <1>6, <2>2, <2>4, ChildrenAre
  <2>6. /\ e.item = d.item.kids[i] /\ Len(e.at) = Len(d.at) + 1
        /\ Children(x)[i].item = x.item.kids[i] /\ Len(Children(x)[i].at) = Len(x.at) + 1
    BY <2>5 DEF Entry
  <2>7. Len(x.at) < depth
    <3>1. Len(d.at) + 1 <= depth /\ Len(d.at) \in Nat
      BY <1>1, <1>4, <2>6
    <3> QED BY <2>1, <3>1
  <2>8. Children(x)[i] \in P
    BY <1>1, <2>4, <2>7
  <2>9. Key(Children(x)[i]) \in s.visited
    BY <1>2, <2>1, <2>4, <2>7, Zenon DEF Opened
  <2>10. Alone(P, e) => Children(x)[i] = e
    <3>1. Alone(P, e) => Alone(P, d)
      BY <1>1, <1>6, WayGrows
    <3> QED BY <1>6, <2>1, <3>1
  <2>11. Children(x)[i].item = e.item /\ Len(Children(x)[i].at) = Len(e.at)
    BY <2>1, <2>6
  <2> QED BY <1>5, <1>6, <2>8, <2>9, <2>10, <2>11, Zenon
<1>7. ASSUME NEW e \in P, Clear(P, e), e.at = <<>>, e.cat \in DOMAIN browser,
             e = Entry(browser[e.cat], e.cat, <<>>)
      PROVE  Reached(P, s, e, depth)
  <2>1. e.cat \in 1..Len(browser)
    BY <1>7, LenProperties
  <2>2. Key(e) \in s.visited
    BY <1>2, <1>3, <1>7, <2>1
  <2> QED BY <1>5, <1>7, <2>2, Zenon
<1>8. 0 \in U
  <2>1. ASSUME NEW e \in P, Len(e.at) = 0, Clear(P, e) PROVE Reached(P, s, e, depth)
    <3>1. ASSUME NEW d \in P, NEW i \in 1..Len(Children(d)) PROVE e # Children(d)[i]
      <4>1. d \in Entries
        BY <1>1
      <4>2. /\ Children(d)[i] = Entry(d.item.kids[i], d.cat, Append(d.at, i))
            /\ Len(Append(d.at, i)) = Len(d.at) + 1
        BY <4>1, ChildrenAre
      <4>3. Len(Children(d)[i].at) = Len(d.at) + 1 /\ Len(d.at) \in Nat
        BY <1>4, <4>2 DEF Entry
      <4> QED BY <2>1, <4>3
    <3> QED BY <1>1, <1>7, <2>1, <3>1
  <2> QED BY <2>1
<1>9. ASSUME NEW n \in U PROVE n + 1 \in U
  <2>1. ASSUME NEW e \in P, Len(e.at) = n + 1, Clear(P, e) PROVE Reached(P, s, e, depth)
    <3>1. CASE e.at = <<>> /\ e.cat \in DOMAIN browser /\ e = Entry(browser[e.cat], e.cat, <<>>)
      BY <1>7, <2>1, <3>1, Zenon
    <3>2. CASE \E d \in P : \E i \in 1..Len(Children(d)) : e = Children(d)[i]
      <4>1. PICK d \in P : \E i \in 1..Len(Children(d)) : e = Children(d)[i]
        BY <3>2
      <4>2. PICK i \in 1..Len(Children(d)) : e = Children(d)[i]
        BY <4>1
      <4>3. d \in Entries /\ Len(d.at) \in Nat
        BY <1>1, <1>4
      <4>4. /\ e = Entry(d.item.kids[i], d.cat, Append(d.at, i))
            /\ Len(Append(d.at, i)) = Len(d.at) + 1
        BY <4>2, <4>3, ChildrenAre
      <4>5. Len(e.at) = Len(d.at) + 1
        BY <4>4 DEF Entry
      <4>6. Len(d.at) = n
        BY <1>9, <2>1, <4>3, <4>5
      <4>7. Clear(P, d)
        BY <1>1, <2>1, <4>2, WayGrows
      <4>8. Reached(P, s, d, depth)
        BY <1>9, <4>6, <4>7
      <4> QED BY <1>6, <2>1, <4>2, <4>8
    <3> QED BY <1>1, <3>1, <3>2
  <2>2. n + 1 \in Nat
    BY <1>9
  <2> QED BY <2>1, <2>2
<1>10. U = Nat
  <2> HIDE DEF U
  <2>1. U \subseteq Nat
    BY DEF U
  <2> QED BY <1>8, <1>9, <2>1, Inductive
<1>11. \A e \in P : Clear(P, e) => Reached(P, s, e, depth)
  BY <1>4, <1>10
<1> QED BY <1>11 DEF P

\* A search says all there is to say.
LEMMA SearchTellsAll ==
  ASSUME NEW browser \in Seq(Items), NEW limit \in Nat, NEW depth \in Nat,
         UrisAreUnique(browser, depth)
  PROVE  SearchComplete(browser, limit, depth)
<1> DEFINE s == Search(browser, limit, depth)
           places == Places(browser, depth)
           Likes(p) == {q \in places \ {p} : q.item = p.item /\ p.item.uri # ""}
<1>1. s \in Searches(browser, limit, depth) /\ Ended(s, browser, limit)
  BY SearchEnds
<1> HIDE DEF s
<1>2. s.found \in Seq(places) /\ Len(s.found) <= limit
  BY <1>1, SearchFacts
<1>3. \A i, j \in DOMAIN s.found : i # j => Key(s.found[i]) # Key(s.found[j])
  BY <1>1, Zenon DEF Searches
<1>4. \A i \in DOMAIN s.found : s.found[i].item.hit
  BY <1>1, Zenon DEF Searches
<1>5. \A i \in DOMAIN s.found : s.found[i] \in places
  BY <1>2, LenProperties, ElementOfSeq
<1>6. ASSUME ~Stopped(s, limit), NEW e \in {p \in places : p.at # <<>> /\ p.item.hit}
      PROVE  LET again == UNION {Likes(p) : p \in OnTheWay(e, places)} IN
             \/ \E i \in DOMAIN s.found : s.found[i].item = e.item /\ (again = {} => s.found[i] = e)
             \/ \E p \in OnTheWay(e, places) : \E q \in Likes(p) : Len(q.at) # Len(p.at)
  <2> DEFINE again == UNION {Likes(p) : p \in OnTheWay(e, places)}
  <2> SUFFICES ASSUME ~\E p \in OnTheWay(e, places) : \E q \in Likes(p) : Len(q.at) # Len(p.at)
               PROVE  \E i \in DOMAIN s.found : s.found[i].item = e.item /\ (again = {} => s.found[i] = e)
    OBVIOUS
  <2>1. s.stack = <<>> /\ s.cat = Len(browser)
    BY <1>1, <1>6, Zenon DEF Ended
  <2>2. e \in places /\ e.at # <<>> /\ e.item.hit
    BY <1>6
  <2>3. Clear(places, e)
    BY DEF Clear
  <2>4. ASSUME again = {} PROVE Alone(places, e)
    <3>1. ASSUME NEW p \in OnTheWay(e, places), NEW q \in places,
                 q.item = p.item, p.item.uri # "", q # p
          PROVE  FALSE
      <4>1. q \in Likes(p)
        BY <3>1
      <4>2. q \in again
        BY <4>1
      <4> QED BY <2>4, <4>2
    <3> QED BY <3>1, Zenon DEF Alone
  <2> HIDE DEF again, Likes
  <2>5. PICK x \in places : /\ x.item = e.item /\ Len(x.at) = Len(e.at) /\ Opened(s, x, depth)
                            /\ Alone(places, e) => x = e
    BY <1>1, <2>1, <2>2, <2>3, AllIsReached, Zenon DEF Reached
  <2>6. x.at # <<>>
    <3>1. e \in Entries
      BY <2>2, PlacesAre
    <3>2. e.at \in Seq(Nat)
      BY <3>1 DEF Entries
    <3>3. Len(e.at) # 0
      BY <2>2, <3>2, EmptySeq
    <3> QED BY <2>5, <3>3
  <2>7. x.item.hit
    BY <2>2, <2>5, Zenon
  <2>8. PICK i \in DOMAIN s.found : s.found[i] = x
    BY <2>5, <2>6, <2>7, Zenon DEF Opened
  <2>9. s.found[i].item = e.item
    BY <2>5, <2>8
  <2>10. again = {} => s.found[i] = e
    BY <2>4, <2>5, <2>8, Zenon
  <2> QED BY <2>9, <2>10
<1> QED BY <1>2, <1>3, <1>4, <1>5, <1>6, Zenon DEF SearchComplete, s

Clips == Seq([pitch : Int, start : Int, length : Nat \ {0}])

\* A note is sooner than another of its pitch, or that is sooner.
LEMMA SoonerOrders ==
  ASSUME NEW notes \in Clips, NEW i \in DOMAIN notes, NEW j \in DOMAIN notes
  PROVE  /\ i \in Nat /\ notes[i].pitch \in Int /\ notes[i].start \in Int /\ notes[i].length \in Nat \ {0}
         /\ i # j /\ notes[i].pitch = notes[j].pitch => Sooner(notes, i, j) \/ Sooner(notes, j, i)
         /\ Sooner(notes, i, j) => notes[i].start <= notes[j].start
<1>1. \A k \in DOMAIN notes : /\ k \in Nat /\ notes[k].pitch \in Int /\ notes[k].start \in Int
                              /\ notes[k].length \in Nat \ {0}
  <2>1. ASSUME NEW k \in DOMAIN notes
        PROVE  /\ k \in Nat /\ notes[k].pitch \in Int /\ notes[k].start \in Int
               /\ notes[k].length \in Nat \ {0}
    <3>1. k \in 1..Len(notes) /\ Len(notes) \in Nat
      BY LenProperties DEF Clips
    <3>2. notes[k] \in [pitch : Int, start : Int, length : Nat \ {0}]
      BY <3>1, ElementOfSeq DEF Clips
    <3> QED BY <3>1, <3>2
  <2> QED BY <2>1
<1> QED BY <1>1 DEF Sooner

\* The next note of its pitch.
LEMMA NextNote ==
  ASSUME NEW notes \in Clips, NEW i \in DOMAIN notes, NEW j \in DOMAIN notes, Sooner(notes, i, j)
  PROVE  \E k \in DOMAIN notes : <<i, k>> \in Neighbours(notes) /\ notes[k].start <= notes[j].start
<1> DEFINE After == {k \in DOMAIN notes : Sooner(notes, i, k)}
           gaps == {notes[k].start - notes[i].start : k \in After}
<1>1. \A k \in DOMAIN notes : /\ k \in Nat /\ notes[k].pitch \in Int /\ notes[k].start \in Int
  BY SoonerOrders
<1>2. \A k \in After : notes[k].start - notes[i].start \in Nat
  <2>1. ASSUME NEW k \in After PROVE notes[k].start - notes[i].start \in Nat
    <3>1. k \in DOMAIN notes /\ notes[i].start <= notes[k].start
      BY SoonerOrders
    <3> QED BY <1>1, <3>1
  <2> QED BY <2>1
<1>3. gaps \in SUBSET Nat /\ gaps # {}
  BY <1>2
<1>4. PICK gap \in gaps : \A g \in gaps : gap <= g
  <2> HIDE DEF gaps
  <2> QED BY <1>3, LeastNat
<1> DEFINE First == {k \in After : notes[k].start - notes[i].start = gap}
<1>5. First \in SUBSET Nat /\ First # {}
  BY <1>1, <1>4
<1>6. PICK k \in First : \A l \in First : k <= l
  <2> HIDE DEF First
  <2> QED BY <1>5, LeastNat
<1>7. /\ k \in DOMAIN notes /\ k \in After /\ k \in Nat /\ Sooner(notes, i, k)
      /\ notes[k].start - notes[i].start = gap
  BY <1>1, <1>6
<1>8. \A l \in After : l \in DOMAIN notes /\ l \in Nat /\ notes[l].start \in Int /\ notes[k].start <= notes[l].start
  <2>1. ASSUME NEW l \in After PROVE notes[k].start <= notes[l].start
    <3>1. notes[l].start - notes[i].start \in gaps /\ l \in DOMAIN notes
      OBVIOUS
    <3>2. gap <= notes[l].start - notes[i].start
      BY <1>4, <3>1
    <3> QED BY <1>1, <1>7, <3>1, <3>2
  <2> QED BY <1>1, <2>1
<1>9. ASSUME NEW l \in DOMAIN notes, Sooner(notes, i, l), Sooner(notes, l, k) PROVE FALSE
  <2>1. l \in After
    BY <1>9
  <2>2. notes[k].start <= notes[l].start /\ l \in Nat /\ notes[l].start \in Int
    BY <1>8, <2>1
  <2>3. notes[l].start < notes[k].start \/ (notes[l].start = notes[k].start /\ l < k)
    BY <1>9, Zenon DEF Sooner
  <2>4. notes[l].start = notes[k].start /\ l < k
    BY <1>1, <1>7, <2>2, <2>3
  <2>5. l \in First
    BY <1>7, <2>1, <2>4
  <2>6. k <= l
    BY <1>6, <2>5
  <2> QED BY <1>7, <2>2, <2>4, <2>6
<1>10. <<i, k>> \in Neighbours(notes)
  <2>1. <<i, k>> \in (DOMAIN notes) \X (DOMAIN notes) /\ <<i, k>>[1] = i /\ <<i, k>>[2] = k
    BY <1>7
  <2> QED BY <1>7, <1>9, <2>1 DEF Neighbours
<1>11. notes[k].start <= notes[j].start
  BY <1>8
<1> QED BY <1>7, <1>10, <1>11

\* Neighbours overlap if any notes of one pitch do.
LEMMA OverlapsAreSeen ==
  ASSUME NEW notes \in Clips
  PROVE  OverlapsSeen(notes)
<1> DEFINE Count == {p \in Neighbours(notes) : notes[p[2]].start < notes[p[1]].start + notes[p[1]].length}
           Overlap(i, j) == /\ i # j /\ notes[i].pitch = notes[j].pitch
                            /\ notes[i].start <= notes[j].start
                            /\ notes[j].start < notes[i].start + notes[i].length
<1>1. \A k \in DOMAIN notes : /\ k \in Nat /\ notes[k].pitch \in Int /\ notes[k].start \in Int
                              /\ notes[k].length \in Nat \ {0}
  BY SoonerOrders
<1>2. IsFiniteSet(Count)
  <2>1. IsFiniteSet(DOMAIN notes)
    <3>1. DOMAIN notes = 1..Len(notes) /\ Len(notes) \in Int /\ 1 \in Int
      BY LenProperties DEF Clips
    <3> QED BY <3>1, FS_Interval
  <2>2. IsFiniteSet((DOMAIN notes) \X (DOMAIN notes))
    BY <2>1, FS_Product
  <2>3. Count \subseteq (DOMAIN notes) \X (DOMAIN notes)
    BY DEF Neighbours
  <2> HIDE DEF Count
  <2> QED BY <2>2, <2>3, FS_Subset
<1>3. OverlapsCount(notes) > 0 <=> Count # {}
  <2>1. OverlapsCount(notes) = Cardinality(Count)
    BY Zenon DEF OverlapsCount
  <2> HIDE DEF Count
  <2>2. Cardinality(Count) \in Nat /\ (Cardinality(Count) = 0 <=> Count = {})
    BY <1>2, FS_CardinalityType, FS_EmptySet
  <2> QED BY <2>1, <2>2
<1>4. ASSUME Count # {} PROVE \E i, j \in DOMAIN notes : Overlap(i, j)
  <2>1. PICK p \in Count : TRUE
    BY <1>4
  <2>2. /\ p[1] \in DOMAIN notes /\ p[2] \in DOMAIN notes /\ Sooner(notes, p[1], p[2])
        /\ notes[p[2]].start < notes[p[1]].start + notes[p[1]].length
    BY DEF Neighbours
  <2>3. notes[p[1]].start <= notes[p[2]].start
    BY <2>2, SoonerOrders
  <2>4. p[1] # p[2] /\ notes[p[1]].pitch = notes[p[2]].pitch
    BY <1>1, <2>2 DEF Sooner
  <2> QED BY <2>2, <2>3, <2>4
<1>5. ASSUME NEW i \in DOMAIN notes, NEW j \in DOMAIN notes, Sooner(notes, i, j),
             notes[j].start < notes[i].start + notes[i].length
      PROVE  Count # {}
  <2>1. PICK k \in DOMAIN notes : <<i, k>> \in Neighbours(notes) /\ notes[k].start <= notes[j].start
    BY <1>5, NextNote
  <2>2. notes[k].start < notes[i].start + notes[i].length
    BY <1>1, <1>5, <2>1
  <2>3. <<i, k>>[1] = i /\ <<i, k>>[2] = k
    OBVIOUS
  <2>4. <<i, k>> \in Count
    BY <2>1, <2>2, <2>3
  <2> QED BY <2>4
<1>6. ASSUME NEW i \in DOMAIN notes, NEW j \in DOMAIN notes, Overlap(i, j) PROVE Count # {}
  <2> HIDE DEF Count
  <2>1. CASE Sooner(notes, i, j)
    BY <1>5, <1>6, <2>1
  <2>2. CASE ~Sooner(notes, i, j)
    <3>1. Sooner(notes, j, i)
      BY <1>6, <2>2, SoonerOrders
    <3>2. notes[j].start <= notes[i].start
      BY <3>1, SoonerOrders
    <3>3. notes[i].start < notes[j].start + notes[j].length
      BY <1>1, <1>6, <3>2
    <3> QED BY <1>5, <3>1, <3>3
  <2> QED BY <2>1, <2>2
<1>7. Count # {} <=> \E i, j \in DOMAIN notes : Overlap(i, j)
  <2> HIDE DEF Count, Overlap
  <2> QED BY <1>4, <1>6
<1> HIDE DEF Count
<1> QED BY <1>3, <1>7, Zenon DEF OverlapsSeen

\* The arguments of the two reads.
LEMMA ReadCommands ==
  ASSUME NEW c \in Commands
  PROVE  /\ c.op = "search_browser" => /\ c.browser \in Browsers /\ c.category \in 0..1
                                       /\ c.limit \in {0, 2, MaxFound + 1} /\ c.depth \in 0..(MaxDepth + 1)
         /\ c.op = "diagnose_midi_clip" => c.notes \in Notes
BY DEF Commands, Plain, EnvelopeOps, Addressed, Creating, Transport

\* Each of the two, whatever its arguments, tells all there is to tell.
LEMMA CommandsTellAll ==
  ASSUME NEW c \in Commands
  PROVE  /\ c.op = "search_browser" => SearchComplete(Selected(c), LimitOf(c), c.depth)
         /\ c.op = "diagnose_midi_clip" => OverlapsSeen(c.notes)
<1>1. ASSUME c.op = "search_browser" PROVE SearchComplete(Selected(c), LimitOf(c), c.depth)
  <2>1. /\ c.browser \in Browsers /\ c.category \in 0..1
        /\ c.limit \in {0, 2, MaxFound + 1} /\ c.depth \in 0..(MaxDepth + 1)
    BY <1>1, ReadCommands
  <2>2. MaxFound \in Nat /\ MaxDepth \in Nat
    BY ReadsAssumption
  <2>3. LimitOf(c) \in Nat
    BY <2>1, <2>2 DEF LimitOf
  <2>4. c.depth \in Nat /\ MaxDepth + 1 \in Nat /\ c.depth <= MaxDepth + 1
    BY <2>1, <2>2
  <2>5. c.browser \in Seq(Items) /\ c.browser # <<>>
    BY <2>1, BrowsersAssumption
  <2>6. Selected(c) \in Seq(Items)
    <3>1. CASE c.category = 0
      BY <2>5, <3>1 DEF Selected
    <3>2. CASE c.category # 0
      <4>1. c.category = 1 /\ 1 \in 1..Len(c.browser)
        BY <2>1, <2>5, <3>2, EmptySeq
      <4>2. c.browser[1] \in Items
        BY <2>5, <4>1, ElementOfSeq
      <4> QED BY <3>2, <4>1, <4>2 DEF Selected
    <3> QED BY <3>1, <3>2
  <2>7. Selected([browser |-> c.browser, category |-> c.category]) = Selected(c)
    BY DEF Selected
  <2>8. UrisAreUnique(Selected(c), MaxDepth + 1)
    <3>1. UrisAreUnique(Selected([browser |-> c.browser, category |-> c.category]), MaxDepth + 1)
      BY <2>1, BrowsersAssumption
    <3> QED BY <2>7, <3>1
  <2>9. UrisAreUnique(Selected(c), c.depth)
    BY <2>4, <2>6, <2>8, UrisStayUnique
  <2> QED BY <2>3, <2>4, <2>6, <2>9, SearchTellsAll
<1>2. ASSUME c.op = "diagnose_midi_clip" PROVE OverlapsSeen(c.notes)
  <2>1. c.notes \in Clips
    BY <1>2, ReadCommands, BrowsersAssumption DEF Clips
  <2> QED BY <2>1, OverlapsAreSeen
<1> QED BY <1>1, <1>2

\* A search of the browser lists every item that matches, where it is first met, each once,
\* unless a limit stops it or its depth is exhausted at another place of a shared item; and
\* it comes to an end, whatever the browser holds and however deep it is (reads.py:348-415).
\* Overlapping notes are counted if there are any (composition.py:96-108).
THEOREM ReadsAreComplete == Spec => []ReadsTellAll
<1>1. TypeInv => ReadsTellAll
  <2> SUFFICES ASSUME TypeInv PROVE ReadsTellAll
    OBVIOUS
  <2>1. cmd \in Commands
    BY DEF TypeInv
  <2> QED BY <2>1, CommandsTellAll, Zenon DEF ReadsTellAll
<1> QED BY <1>1, AlwaysTyped, PTL
==============================================================================
