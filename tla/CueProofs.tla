------------------------------- MODULE CueProofs -------------------------------
(***************************************************************************)
(* Locators and the playhead, for any places, grids, names, requests,      *)
(* edits by the user and whatever Live does with the toggles.              *)
(*                                                                         *)
(* Live's thread alone moves the playhead inside a tick, and the request   *)
(* that finds it back where it was replies in the same tick: that, and     *)
(* that the way back begins at the place remembered in the first tick, is  *)
(* why the user's moves in between do no harm.                             *)
(*                                                                         *)
(* What a reply tells of the locators is followed item by item: between    *)
(* two items they are as the results so far tell, and within one they      *)
(* differ from the list it began with by at most the place toggled.        *)
(***************************************************************************)
EXTENDS CuePoints, SequenceTheorems, FiniteSetTheorems, TLAPS

Sets == [Times -> Names \cup {None}]
Toggles == [at : Times, late : BOOLEAN]
Outcomes == Done \cup Failed
Jobs ==
  [pc : Phases, at : Nat \ {0}, results : Seq(Outcomes), attempt : Nat,
   then : {"toggle", "finish"}, aim : Times, from : Times, users : {"users", "none"},
   before : Sets, began : Sets, undoes : BOOLEAN, held : Times \cup {None},
   name : Names \cup {None}, outcome : {"created", "renamed", "deleted", "absent"},
   touched : Seq(Times)]

\* A request under way: the item it is at exists where one is handled, the attempts of each
\* phase are counted, and a locator is named only by a name.
Going(r, j) ==
  /\ j \in Jobs
  /\ j.at <= Len(r.items) + 1 /\ Len(j.results) < j.at
  /\ j.pc \in {"toggle", "wait", "rename"} \/ (j.pc = "position" /\ j.then = "toggle") =>
       j.at <= Len(r.items)
  /\ j.pc \in {"wait", "rename"} => j.attempt <= Ticks
  /\ j.pc \notin {"wait", "rename"} => j.attempt <= Retries
  /\ (j.pc = "jump" <=> r.kind = "jump") /\ (j.pc = "jump" => j.at = 1)
  /\ r.kind # "delete" \/ j.pc = "rename" => j.name \in Names

TypeInv ==
  /\ inTick \in BOOLEAN
  /\ cues \in Sets /\ playhead \in Times /\ quant \in {"users", "none"}
  /\ pending \in Seq(Toggles)
  /\ req \in Inputs \cup {None}
  /\ req # None => Going(req, job)

\* The way back: it begins at the place remembered, and ends within the tick in which the
\* playhead is found there.  Until it has left that place the request has ended no item.
Back(r, j) ==
  /\ j.pc = "item" => inTick
  /\ j.pc = "finish" => inTick /\ playhead = j.from
  /\ j.pc = "position" /\ j.then = "finish" => j.aim = j.from
  /\ j.pc = "item" /\ j.at = 1 =>
       /\ playhead = j.from
       /\ r.kind = "delete" /\ cues[r.items[1].time] = None => quant = j.users

\* Some reply has told that the playhead could not be put back.
Confessed == \E rep \in replies : ~rep.restored
BackInv ==
  /\ \A rep \in replies : rep.restored /\ rep.req.kind # "jump" => ~rep.moved
  /\ req = None /\ quant = "none" => Confessed
  /\ req # None => Back(req, job) /\ (job.users = "none" => Confessed)
-------------------------------------------------------------------------------
(*************************** the record of a request ***********************)
LEMMA ItemsOf ==
  ASSUME NEW r \in Inputs
  PROVE  /\ r \in Requests /\ r # None /\ r.items \in Seq(Items)
         /\ Len(r.items) \in Nat /\ Len(r.items) > 0 /\ DOMAIN r.items = 1..Len(r.items)
         /\ r.kind \in {"create", "bulk", "delete", "jump"}
         /\ \A i \in 1..Len(r.items) : r.items[i].time \in Times /\ r.items[i].name \in Names \cup {None}
<1>1. r \in Requests /\ r # None
  BY CueAssumption
<1>2. /\ r.items \in Seq(Items) /\ r.items # <<>>
      /\ r.kind \in {"create", "bulk", "delete", "jump"}
  BY <1>1 DEF Requests
<1>3. Len(r.items) \in Nat /\ DOMAIN r.items = 1..Len(r.items)
  BY <1>2
<1>4. Len(r.items) > 0
  BY <1>2, <1>3
<1>5. \A i \in 1..Len(r.items) : r.items[i] \in Items
  BY <1>2, <1>3
<1> QED
  BY <1>1, <1>2, <1>3, <1>4, <1>5 DEF Items

LEMMA TravelJob ==
  ASSUME NEW j \in Jobs, NEW t \in Times, NEW then \in {"toggle", "finish"}
  PROVE  LET k == Travel(j, t, then) IN
         /\ k \in Jobs /\ k.pc = "position" /\ k.then = then /\ k.aim = t /\ k.attempt = 0
         /\ k.at = j.at /\ k.results = j.results /\ k.from = j.from /\ k.users = j.users
         /\ k.name = j.name
BY DEF Jobs, Travel, Phases

LEMMA EndedJob ==
  ASSUME NEW j \in Jobs, NEW outcome \in Outcomes
  PROVE  LET k == ItemEnds(j, outcome) IN
         /\ k \in Jobs /\ k.pc = "item" /\ k.at = j.at + 1 /\ k.attempt = 0
         /\ Len(k.results) = Len(j.results) + 1
         /\ k.from = j.from /\ k.users = j.users /\ k.name = j.name
<1>1. j.results \in Seq(Outcomes) /\ j.at \in Nat \ {0}
  BY DEF Jobs
<1> DEFINE rs == Append(j.results, outcome)
           n == j.at + 1
           k == [j EXCEPT !.pc = "item", !.at = n, !.results = rs, !.attempt = 0]
<1>2. rs \in Seq(Outcomes) /\ Len(rs) = Len(j.results) + 1 /\ n \in Nat \ {0} /\ n = j.at + 1
  BY <1>1
<1>3. k = ItemEnds(j, outcome)
  BY DEF ItemEnds
<1> HIDE DEF rs, n
<1>4. /\ k \in Jobs /\ k.pc = "item" /\ k.at = n /\ k.attempt = 0 /\ k.results = rs
      /\ k.from = j.from /\ k.users = j.users /\ k.name = j.name
  BY <1>2 DEF Jobs, Phases
<1> QED
  BY <1>2, <1>3, <1>4

\* The end of an item that exists leaves the request under way.
LEMMA EndedGoing ==
  ASSUME NEW r \in Inputs, NEW j, Going(r, j), j.at <= Len(r.items), j.pc # "jump",
         NEW outcome \in Outcomes
  PROVE  /\ Going(r, ItemEnds(j, outcome)) /\ ItemEnds(j, outcome).pc = "item"
         /\ ItemEnds(j, outcome).at > 1
         /\ ItemEnds(j, outcome).users = j.users /\ ItemEnds(j, outcome).from = j.from
<1>1. Len(r.items) \in Nat
  BY ItemsOf
<1>2. j \in Jobs /\ j.at \in Nat \ {0} /\ Len(j.results) \in Nat /\ Len(j.results) < j.at
  BY DEF Going, Jobs
<1> DEFINE k == ItemEnds(j, outcome)
<1>3. /\ k \in Jobs /\ k.pc = "item" /\ k.at = j.at + 1 /\ k.attempt = 0
      /\ Len(k.results) = Len(j.results) + 1
      /\ k.from = j.from /\ k.users = j.users /\ k.name = j.name
  BY <1>2, EndedJob
<1> HIDE DEF k
<1>4. 0 <= Retries
  BY CueAssumption
<1>5. Going(r, k)
  BY <1>1, <1>2, <1>3, <1>4 DEF Going
<1> QED
  BY <1>2, <1>3, <1>5 DEF k

LEMMA AbortedGoing ==
  ASSUME req \in Inputs, NEW j, Going(req, j), j.at <= Len(req.items), j.pc # "jump"
  PROVE  /\ Going(req, Abort(j)) /\ Abort(j).pc = "item" /\ Abort(j).at > 1
         /\ Abort(j).users = j.users /\ Abort(j).from = j.from
<1> DEFINE k == ItemEnds(j, "exception")
           m == [k EXCEPT !.at = Len(req.items) + 1]
<1>1. Going(req, k) /\ k.pc = "item" /\ k.at > 1 /\ k.users = j.users /\ k.from = j.from
  BY EndedGoing DEF Outcomes, Failed
<1>2. Len(req.items) \in Nat
  BY ItemsOf
<1>3. m = Abort(j)
  BY DEF Abort
<1>4. k \in Jobs /\ k.at \in Nat /\ k.at <= Len(req.items) + 1
  BY <1>1 DEF Going, Jobs
<1>5. Len(req.items) + 1 \in Nat \ {0}
  BY <1>2
<1> HIDE DEF k
<1>6. /\ m \in Jobs /\ m.at = Len(req.items) + 1 /\ m.pc = k.pc /\ m.results = k.results
      /\ m.attempt = k.attempt /\ m.then = k.then /\ m.name = k.name
      /\ m.users = k.users /\ m.from = k.from
  BY <1>4, <1>5 DEF Jobs
<1> HIDE DEF m
<1>7. Len(k.results) \in Nat
  BY <1>4 DEF Jobs
<1>8. Going(req, m) /\ m.at > 1
  BY <1>1, <1>2, <1>4, <1>6, <1>7 DEF Going
<1> QED
  BY <1>1, <1>3, <1>6, <1>8
-------------------------------------------------------------------------------
(*************************** the steps *************************************)
CueInv == TypeInv /\ BackInv

\* A step of a request that goes on.
LEMMA Continues ==
  ASSUME CueInv, req # None, req' = req, replies' = replies,
         inTick' \in BOOLEAN, cues' \in Sets, playhead' \in Times, quant' = quant,
         pending' \in Seq(Toggles),
         Going(req, job'), Back(req, job)', job'.users = job.users
  PROVE  CueInv'
BY DEF CueInv, TypeInv, BackInv, Confessed

\* A reply is given: it does not claim what it has not done.
LEMMA Replied ==
  ASSUME CueInv, req # None, NEW j, NEW restored \in BOOLEAN, Reply(j, restored),
         restored /\ req.kind # "jump" => playhead = j.from,
         quant' \in {"users", "none"}, quant' = "none" => ~restored \/ Confessed,
         UNCHANGED <<inTick, cues, playhead, pending>>
  PROVE  CueInv'
<1> DEFINE new == [req |-> req, results |-> j.results, restored |-> restored, touched |-> j.touched,
                   began |-> j.began, ended |-> cues, moved |-> playhead # j.from]
<1>1. replies' = replies \cup {new} /\ req' = None
  BY DEF Reply
<1>2. new.restored = restored /\ new.req = req /\ (new.moved <=> playhead # j.from)
  OBVIOUS
<1> HIDE DEF new
<1>3. \A rep \in replies' : rep.restored /\ rep.req.kind # "jump" => ~rep.moved
  BY <1>1, <1>2 DEF CueInv, BackInv
<1>4. quant' = "none" => Confessed'
  BY <1>1, <1>2 DEF Confessed
<1>5. TypeInv'
  BY <1>1 DEF CueInv, TypeInv
<1> QED
  BY <1>1, <1>3, <1>4, <1>5 DEF CueInv, BackInv

LEMMA Now ==
  ASSUME CueInv, inTick, req # None
  PROVE  /\ req \in Inputs /\ Going(req, job) /\ Back(req, job) /\ job \in Jobs
         /\ (job.users = "none" => Confessed)
         /\ cues \in Sets /\ playhead \in Times /\ quant \in {"users", "none"}
         /\ pending \in Seq(Toggles)
         /\ job.at \in Nat \ {0} /\ job.attempt \in Nat /\ job.results \in Seq(Outcomes)
         /\ Len(req.items) \in Nat
<1>1. req \in Inputs /\ Going(req, job) /\ Back(req, job) /\ (job.users = "none" => Confessed)
      /\ cues \in Sets /\ playhead \in Times /\ quant \in {"users", "none"}
      /\ pending \in Seq(Toggles)
  BY DEF CueInv, TypeInv, BackInv
<1>2. job \in Jobs
  BY <1>1 DEF Going
<1>3. job.at \in Nat \ {0} /\ job.attempt \in Nat /\ job.results \in Seq(Outcomes)
  BY <1>2 DEF Jobs
<1> QED
  BY <1>1, <1>2, <1>3, ItemsOf

LEMMA StepTick ==
  ASSUME CueInv, TickBegins \/ TickEnds
  PROVE  CueInv'
<1>1. UNCHANGED <<cues, playhead, quant, pending, req, job, replies>>
  BY DEF TickBegins, TickEnds, song, env
<1>2. inTick' \in BOOLEAN /\ (req # None => inTick')
  BY DEF TickBegins, TickEnds
<1>3. TypeInv'
  BY <1>1, <1>2 DEF CueInv, TypeInv, Going
<1>4. BackInv'
  <2>1. \A j : req # None /\ Back(req, j) => Back(req, j)'
    BY <1>1, <1>2 DEF Back
  <2> QED
    BY <1>1, <1>2, <2>1 DEF CueInv, BackInv, Back, Confessed
<1> QED
  BY <1>3, <1>4 DEF CueInv

LEMMA StepBegin ==
  ASSUME CueInv, NEW r \in Inputs, Begin(r)
  PROVE  CueInv'
<1>1. /\ req' = r /\ UNCHANGED <<inTick, cues, playhead, pending, replies>> /\ inTick /\ req = None
      /\ job' = [pc |-> IF r.kind = "jump" THEN "jump" ELSE "item",
                 at |-> 1, results |-> <<>>, attempt |-> 0, then |-> "toggle", aim |-> playhead,
                 from |-> playhead, users |-> quant, before |-> cues, began |-> cues,
                 undoes |-> FALSE, held |-> None, name |-> AutoName, outcome |-> "absent",
                 touched |-> <<>>]
      /\ quant' = IF r.kind = "delete" /\ cues[r.items[1].time] = None THEN quant ELSE "none"
  BY DEF Begin
<1>2. /\ r \in Requests /\ r # None /\ Len(r.items) \in Nat /\ Len(r.items) > 0
  BY ItemsOf
<1>3. cues \in Sets /\ playhead \in Times /\ quant \in {"users", "none"} /\ AutoName \in Names
  BY CueAssumption DEF CueInv, TypeInv
<1>4. /\ job' \in Jobs /\ job'.pc \in {"jump", "item"} /\ (job'.pc = "jump" <=> r.kind = "jump")
      /\ job'.at = 1 /\ job'.results = <<>> /\ job'.attempt = 0 /\ job'.then = "toggle"
      /\ job'.from = playhead /\ job'.users = quant /\ job'.name = AutoName
  BY <1>1, <1>3 DEF Jobs, Phases
<1>5. Going(r, job')
  <2>1. Len(<<>>) = 0 /\ 0 <= Retries
    BY CueAssumption
  <2> QED
    BY <1>2, <1>3, <1>4, <2>1 DEF Going
<1>6. Back(r, job)'
  BY <1>1, <1>4 DEF Back
<1>7. quant = "none" => Confessed
  BY <1>1 DEF CueInv, BackInv
<1>8. TypeInv'
  BY <1>1, <1>3, <1>5 DEF CueInv, TypeInv, Going
<1>9. BackInv'
  BY <1>1, <1>2, <1>4, <1>6, <1>7 DEF CueInv, BackInv, Back, Confessed
<1> QED
  BY <1>8, <1>9 DEF CueInv

LEMMA StepAbsent ==
  ASSUME CueInv, DeleteAbsent
  PROVE  CueInv'
<1> DEFINE j == [job EXCEPT !.results = <<"absent">>]
<1>1. /\ inTick /\ req # None /\ job.pc = "item" /\ job.at = 1 /\ req.kind = "delete"
      /\ cues[req.items[1].time] = None
      /\ Reply(j, TRUE) /\ UNCHANGED <<inTick, cues, playhead, quant, pending>>
  BY DEF DeleteAbsent, At, Item, song
<1>2. playhead = job.from /\ quant = job.users /\ (quant = "none" => Confessed)
      /\ quant \in {"users", "none"} /\ job \in Jobs
  BY <1>1, Now DEF Back
<1>3. j.from = job.from
  BY <1>2 DEF Jobs
<1> HIDE DEF j
<1> QED
  BY <1>1, <1>2, <1>3, Replied

LEMMA StepStart ==
  ASSUME CueInv, StartItem
  PROVE  CueInv'
<1> DEFINE t == Item.time
           j == [job EXCEPT !.undoes = FALSE, !.attempt = 0, !.name = Item.name, !.before = cues]
<1>1. /\ inTick /\ req # None /\ job.pc = "item" /\ job.at \in DOMAIN req.items
      /\ UNCHANGED <<inTick, cues, playhead, quant, pending, req, replies>>
      /\ \/ req.kind = "delete" /\ job' = Travel([j EXCEPT !.outcome = "deleted"], t, "toggle")
         \/ req.kind # "delete" /\ job' = [j EXCEPT !.outcome = "renamed", !.pc = "rename", !.held = t]
         \/ req.kind # "delete" /\ job' = Travel([j EXCEPT !.outcome = "created"], t, "toggle")
  BY DEF StartItem, At, song, env
<1>2. req \in Inputs /\ Going(req, job) /\ job \in Jobs /\ cues \in Sets
  BY <1>1, Now
<1>3. job.at <= Len(req.items) /\ Len(req.items) \in Nat /\ t \in Times /\ Item.name \in Names \cup {None}
  BY <1>1, <1>2, ItemsOf DEF Item
<1>4. req.kind \notin {"delete", "jump"} => Item.name \in Names
  BY <1>1, <1>2, <1>3, ItemsOf, CueAssumption DEF Item
<1>5. req.kind # "jump" /\ 0 <= Ticks /\ 0 <= Retries
  BY <1>1, <1>2, CueAssumption DEF Going
<1>6. /\ j \in Jobs /\ j.attempt = 0 /\ j.name = Item.name /\ j.at = job.at /\ j.results = job.results
      /\ j.from = job.from /\ j.users = job.users
  BY <1>2, <1>3 DEF Jobs
<1>7. Len(job.results) < job.at /\ job.at \in Nat /\ job.at <= Len(req.items) + 1
  BY <1>2 DEF Going, Jobs
<1> HIDE DEF j, t
<1>8. ASSUME NEW outcome \in {"deleted", "created"}, job' = Travel([j EXCEPT !.outcome = outcome], t, "toggle")
      PROVE  Going(req, job') /\ job'.pc \notin {"item", "finish"} /\ job'.then = "toggle"
             /\ job'.users = job.users
  <2> DEFINE k == [j EXCEPT !.outcome = outcome]
  <2>1. k \in Jobs /\ k.name = j.name /\ k.at = j.at /\ k.results = j.results /\ k.users = j.users
    BY <1>6 DEF Jobs
  <2>2. job' = Travel(k, t, "toggle")
    BY <1>8
  <2> HIDE DEF k
  <2>3. /\ job' \in Jobs /\ job'.pc = "position" /\ job'.then = "toggle" /\ job'.attempt = 0
        /\ job'.at = job.at /\ job'.results = job.results /\ job'.users = job.users /\ job'.name = Item.name
    BY <1>3, <1>6, <2>1, <2>2, TravelJob
  <2> QED
    BY <1>3, <1>4, <1>5, <1>7, <2>3 DEF Going
<1>9. ASSUME req.kind # "delete", job' = [j EXCEPT !.outcome = "renamed", !.pc = "rename", !.held = t]
      PROVE  Going(req, job') /\ job'.pc \notin {"item", "finish", "position"} /\ job'.users = job.users
  <2>1. /\ job' \in Jobs /\ job'.pc = "rename" /\ job'.attempt = 0 /\ job'.then = j.then
        /\ job'.at = job.at /\ job'.results = job.results /\ job'.users = job.users /\ job'.name = Item.name
    BY <1>3, <1>6, <1>9 DEF Jobs, Phases
  <2> QED
    BY <1>3, <1>4, <1>5, <1>7, <1>9, <2>1 DEF Going
<1>10. Going(req, job') /\ job'.users = job.users /\ job'.pc \notin {"item", "finish"}
       /\ (job'.pc = "position" => job'.then = "toggle")
  BY <1>1, <1>8, <1>9
<1>11. Back(req, job)'
  BY <1>10 DEF Back
<1> QED
  BY <1>1, <1>2, <1>10, <1>11, Now, Continues DEF CueInv, TypeInv

LEMMA StepGoBack ==
  ASSUME CueInv, GoBack
  PROVE  CueInv'
<1>1. /\ inTick /\ req # None /\ job.pc = "item" /\ job.at > Len(req.items)
      /\ job' = Travel(job, job.from, "finish")
      /\ UNCHANGED <<inTick, cues, playhead, quant, pending, req, replies>>
  BY DEF GoBack, At, song, env
<1>2. Going(req, job) /\ job \in Jobs /\ job.from \in Times /\ 0 <= Retries
  BY <1>1, Now, CueAssumption DEF Jobs
<1>3. /\ job' \in Jobs /\ job'.pc = "position" /\ job'.then = "finish" /\ job'.aim = job.from
      /\ job'.from = job.from /\ job'.attempt = 0 /\ job'.at = job.at /\ job'.results = job.results
      /\ job'.users = job.users /\ job'.name = job.name
  BY <1>1, <1>2, TravelJob
<1>4. Going(req, job')
  BY <1>1, <1>2, <1>3 DEF Going
<1>5. Back(req, job)'
  BY <1>3 DEF Back
<1> QED
  BY <1>1, <1>3, <1>4, <1>5, Now, Continues DEF CueInv, TypeInv

\* One more attempt, as long as there is one.
LEMMA NextGoing ==
  ASSUME NEW r \in Inputs, NEW j, Going(r, j),
         j.pc \in {"wait", "rename"} => j.attempt < Ticks,
         j.pc \notin {"wait", "rename"} => j.attempt < Retries
  PROVE  LET k == [j EXCEPT !.attempt = @ + 1] IN
         /\ Going(r, k) /\ k.pc = j.pc /\ k.then = j.then /\ k.aim = j.aim /\ k.from = j.from
         /\ k.users = j.users
<1> DEFINE n == j.attempt + 1
           k == [j EXCEPT !.attempt = n]
<1>1. j \in Jobs /\ n \in Nat /\ j.attempt \in Nat /\ Len(j.results) < j.at /\ j.at <= Len(r.items) + 1
  BY DEF Going, Jobs
<1>2. k = [j EXCEPT !.attempt = @ + 1]
  OBVIOUS
<1>3. /\ j.pc \in {"wait", "rename"} => n <= Ticks
      /\ j.pc \notin {"wait", "rename"} => n <= Retries
  BY <1>1, CueAssumption
<1> HIDE DEF n
<1>4. /\ k \in Jobs /\ k.pc = j.pc /\ k.at = j.at /\ k.results = j.results /\ k.attempt = n
      /\ k.then = j.then /\ k.aim = j.aim /\ k.from = j.from /\ k.users = j.users /\ k.name = j.name
  BY <1>1 DEF Jobs
<1> HIDE DEF k
<1>5. Going(r, k)
  BY <1>1, <1>3, <1>4 DEF Going
<1> QED
  BY <1>2, <1>4, <1>5

LEMMA StepPosition ==
  ASSUME CueInv, Position
  PROVE  CueInv'
<1>1. /\ inTick /\ req # None /\ job.pc = "position" /\ UNCHANGED <<cues, quant, pending>>
  BY DEF Position, At
<1>2. /\ req \in Inputs /\ Going(req, job) /\ Back(req, job) /\ job \in Jobs
      /\ Len(req.items) \in Nat /\ job.aim \in Times /\ job.then \in {"toggle", "finish"}
      /\ job.at \in Nat /\ job.attempt \in Nat /\ inTick \in BOOLEAN
      /\ playhead \in Times /\ quant \in {"users", "none"}
      /\ (job.users = "none" => Confessed)
  BY <1>1, Now DEF Jobs, CueInv, TypeInv
<1>3. CASE playhead = job.aim
  <2> DEFINE k == [job EXCEPT !.pc = job.then, !.attempt = 0]
  <2>1. job' = k /\ UNCHANGED <<inTick, req, playhead, replies>>
    BY <1>3 DEF Position
  <2>2. /\ k \in Jobs /\ k.pc = job.then /\ k.attempt = 0 /\ k.at = job.at
        /\ k.results = job.results /\ k.from = job.from /\ k.users = job.users
        /\ k.name = job.name /\ k.then = job.then
    BY <1>2 DEF Jobs, Phases
  <2> HIDE DEF k
  <2>3. Going(req, k)
    <3>1. 0 <= Retries
      BY CueAssumption
    <3> QED
      BY <1>1, <1>2, <2>2, <3>1 DEF Going
  <2>4. Back(req, job)'
    BY <1>1, <1>2, <1>3, <2>1, <2>2 DEF Back
  <2> QED
    BY <1>1, <2>1, <2>2, <2>3, <2>4, Now, Continues
<1>4. CASE playhead # job.aim /\ job.attempt < Retries
  <2>1. /\ NextTick(job) /\ playhead' \in {playhead, job.aim} /\ UNCHANGED <<req, replies>>
    BY <1>4 DEF Position
  <2>2. /\ Going(req, job') /\ job'.pc = "position" /\ job'.then = job.then
        /\ job'.aim = job.aim /\ job'.from = job.from /\ job'.users = job.users
        /\ inTick' = FALSE
    BY <1>1, <1>2, <1>4, <2>1, NextGoing DEF NextTick
  <2>3. Back(req, job)'
    BY <1>1, <1>2, <2>1, <2>2 DEF Back
  <2> QED
    BY <1>1, <1>2, <2>1, <2>2, <2>3, Now, Continues
<1>5. CASE playhead # job.aim /\ ~(job.attempt < Retries) /\ job.then = "finish"
  <2>1. /\ Reply([job EXCEPT !.results = Append(@, "not_moved")], FALSE)
        /\ UNCHANGED <<inTick, playhead>>
    BY <1>5 DEF Position
  <2> QED
    BY <1>1, <1>2, <2>1, Replied
<1>6. CASE playhead # job.aim /\ ~(job.attempt < Retries) /\ job.then # "finish"
  <2>1. /\ job' = ItemEnds(job, "not_moved") /\ UNCHANGED <<inTick, playhead, req, replies>>
    BY <1>6 DEF Position
  <2>2. job.at <= Len(req.items)
    BY <1>1, <1>2, <1>6 DEF Going
  <2>3. Going(req, job') /\ job'.pc = "item" /\ job'.at > 1 /\ job'.users = job.users
    BY <1>1, <1>2, <2>1, <2>2, EndedGoing DEF Outcomes, Failed
  <2>4. Back(req, job)'
    BY <1>1, <2>1, <2>3 DEF Back
  <2> QED
    BY <1>1, <1>2, <2>1, <2>3, <2>4, Now, Continues
<1> QED
  BY <1>3, <1>4, <1>5, <1>6

LEMMA StepToggle ==
  ASSUME CueInv, Toggle
  PROVE  CueInv'
<1> DEFINE k == [job EXCEPT !.pc = "wait", !.attempt = 1]
<1>1. /\ inTick /\ req # None /\ job.pc = "toggle" /\ job' = k /\ inTick' = FALSE
      /\ pending' = Append(pending, [at |-> playhead, late |-> FALSE])
      /\ UNCHANGED <<cues, playhead, quant, req, replies>>
  BY DEF Toggle, At, env
<1>2. /\ req \in Inputs /\ Going(req, job) /\ job \in Jobs /\ Len(req.items) \in Nat
      /\ playhead \in Times /\ pending \in Seq(Toggles) /\ 1 <= Ticks
  BY <1>1, Now, CueAssumption
<1>3. pending' \in Seq(Toggles)
  BY <1>1, <1>2 DEF Toggles
<1>4. /\ k \in Jobs /\ k.pc = "wait" /\ k.attempt = 1 /\ k.at = job.at
      /\ k.results = job.results /\ k.from = job.from /\ k.users = job.users
      /\ k.name = job.name /\ k.then = job.then
  BY <1>2 DEF Jobs, Phases
<1> HIDE DEF k
<1>5. Going(req, k)
  BY <1>1, <1>2, <1>4 DEF Going
<1>6. Back(req, job)'
  BY <1>1, <1>4 DEF Back
<1> QED
  BY <1>1, <1>3, <1>4, <1>5, <1>6, Now, Continues

LEMMA GivenUpType ==
  ASSUME pending \in Seq(Toggles)
  PROVE  GivenUp \in Seq(Toggles)
<1>1. DOMAIN pending = 1..Len(pending) /\ Len(pending) \in Nat
  OBVIOUS
<1>2. \A i \in DOMAIN pending : [pending[i] EXCEPT !.late = TRUE] \in Toggles
  <2>1. \A i \in DOMAIN pending : pending[i] \in Toggles
    BY <1>1
  <2> QED
    BY <2>1 DEF Toggles
<1>3. GivenUp \in [1..Len(pending) -> Toggles]
  BY <1>1, <1>2 DEF GivenUp
<1> QED
  BY <1>1, <1>3, SeqDef

LEMMA StepObserve ==
  ASSUME CueInv, Observe
  PROVE  CueInv'
<1>1. /\ inTick /\ req # None /\ job.pc = "wait"
      /\ UNCHANGED <<cues, playhead, quant, req, replies>>
  BY DEF Observe, At, env
<1>2. /\ req \in Inputs /\ Going(req, job) /\ job \in Jobs /\ Len(req.items) \in Nat
      /\ cues \in Sets /\ playhead \in Times /\ pending \in Seq(Toggles)
      /\ job.at \in Nat /\ job.attempt \in Nat /\ job.aim \in Times
      /\ 0 <= Ticks /\ 0 <= Retries
  BY <1>1, Now, CueAssumption DEF Jobs
<1>3. /\ job.at <= Len(req.items) /\ Len(job.results) < job.at /\ req.kind # "jump"
      /\ (req.kind # "delete" => job.name \in Names)
  BY <1>1, <1>2 DEF Going
<1>4. pending' \in Seq(Toggles)
  BY <1>2, GivenUpType DEF Observe
<1>5. ASSUME NEW outcome \in Outcomes, job' = ItemEnds(job, outcome), inTick' = inTick PROVE CueInv'
  <2>1. Going(req, job') /\ job'.pc = "item" /\ job'.at > 1 /\ job'.users = job.users
    BY <1>1, <1>2, <1>3, <1>5, EndedGoing
  <2>2. Back(req, job)'
    BY <1>1, <1>5, <2>1 DEF Back
  <2> QED
    BY <1>1, <1>4, <1>5, <2>1, <2>2, Now, Continues
<1>6. ASSUME NEW name \in Names, inTick' = inTick,
             job' = [job EXCEPT !.pc = "rename", !.held = job.aim, !.name = name, !.attempt = 0]
      PROVE  CueInv'
  <2>1. /\ job' \in Jobs /\ job'.pc = "rename" /\ job'.attempt = 0 /\ job'.at = job.at
        /\ job'.results = job.results /\ job'.users = job.users /\ job'.name = name
    BY <1>2, <1>6 DEF Jobs, Phases
  <2>2. Going(req, job')
    BY <1>2, <1>3, <2>1 DEF Going
  <2>3. Back(req, job)'
    BY <2>1 DEF Back
  <2> QED
    BY <1>1, <1>4, <1>6, <2>1, <2>2, <2>3, Now, Continues
<1>7. CASE Wished
  <2>1. job' \in {ItemEnds(job, "unexpected"), AsWished} /\ inTick' = inTick
    BY <1>7 DEF Observe
  <2>2. CASE job' = ItemEnds(job, "unexpected")
    BY <1>5, <2>1, <2>2 DEF Outcomes, Failed
  <2>3. CASE job' = AsWished
    <3>1. CASE job' \in {ItemEnds(job, "snapped"), ItemEnds(job, "deleted")}
      BY <1>5, <2>1, <3>1 DEF Outcomes, Failed, Done
    <3>2. CASE job.undoes /\ job.before[job.aim] # None
      <4>1. job.before[job.aim] \in Names
        BY <1>2, <3>2 DEF Jobs, Sets
      <4> QED
        BY <1>6, <2>1, <2>3, <3>2, <4>1 DEF AsWished
    <3>3. CASE ~job.undoes /\ req.kind # "delete"
      <4>1. job' = [job EXCEPT !.pc = "rename", !.held = job.aim, !.name = job.name, !.attempt = 0]
        BY <1>2, <2>3, <3>3 DEF AsWished, Jobs
      <4> QED
        BY <1>3, <1>6, <2>1, <3>3, <4>1
    <3> QED
      BY <2>3, <3>1, <3>2, <3>3 DEF AsWished
  <2> QED
    BY <2>1, <2>2, <2>3
<1>8. CASE ~Wished /\ ~job.undoes /\ (Added # {} \/ Removed # {})
  <2> DEFINE t == CHOOSE t \in Added \cup Removed : TRUE
             j == [job EXCEPT !.undoes = TRUE]
  <2>1. /\ job' \in {ItemEnds(job, "unexpected"), Travel(j, t, "toggle")} /\ inTick' = inTick
    BY <1>8 DEF Observe
  <2>2. t \in Times
    BY <1>8 DEF Added, Removed, Present
  <2>3. j \in Jobs /\ j.at = job.at /\ j.results = job.results /\ j.users = job.users /\ j.name = job.name
    BY <1>2 DEF Jobs
  <2> HIDE DEF j, t
  <2>4. CASE job' = ItemEnds(job, "unexpected")
    BY <1>5, <2>1, <2>4 DEF Outcomes, Failed
  <2>5. CASE job' = Travel(j, t, "toggle")
    <3>1. /\ job' \in Jobs /\ job'.pc = "position" /\ job'.then = "toggle" /\ job'.attempt = 0
          /\ job'.at = job.at /\ job'.results = job.results /\ job'.users = job.users
          /\ job'.name = job.name
      BY <2>2, <2>3, <2>5, TravelJob
    <3>2. Going(req, job')
      BY <1>2, <1>3, <3>1 DEF Going
    <3>3. Back(req, job)'
      BY <3>1 DEF Back
    <3> QED
      BY <1>1, <1>4, <2>1, <3>1, <3>2, <3>3, Now, Continues
  <2> QED
    BY <2>1, <2>4, <2>5
<1>9. CASE ~Wished /\ ~(~job.undoes /\ (Added # {} \/ Removed # {})) /\ job.attempt < Ticks
  <2>1. NextTick(job)
    BY <1>9 DEF Observe
  <2>2. Going(req, job') /\ job'.pc = "wait" /\ job'.users = job.users /\ inTick' = FALSE
    BY <1>1, <1>2, <1>9, <2>1, NextGoing DEF NextTick
  <2>3. Back(req, job)'
    BY <2>2 DEF Back
  <2> QED
    BY <1>1, <1>4, <2>2, <2>3, Now, Continues
<1>10. CASE ~Wished /\ ~(~job.undoes /\ (Added # {} \/ Removed # {})) /\ ~(job.attempt < Ticks)
  <2>1. job' = ItemEnds(job, "unavailable") /\ inTick' = inTick
    BY <1>10 DEF Observe
  <2> QED
    BY <1>5, <2>1 DEF Outcomes, Failed
<1> QED
  BY <1>7, <1>8, <1>9, <1>10

LEMMA StepRename ==
  ASSUME CueInv, Rename
  PROVE  CueInv'
<1>1. /\ inTick /\ req # None /\ job.pc = "rename"
      /\ UNCHANGED <<playhead, quant, pending, req, replies>>
  BY DEF Rename, At, env
<1>2. /\ req \in Inputs /\ Going(req, job) /\ job \in Jobs /\ Len(req.items) \in Nat
      /\ cues \in Sets /\ playhead \in Times /\ pending \in Seq(Toggles) /\ job.attempt \in Nat
      /\ inTick \in BOOLEAN
  BY <1>1, Now DEF CueInv, TypeInv
<1>3. job.at <= Len(req.items) /\ job.name \in Names
  BY <1>1, <1>2 DEF Going
<1>4. cues' \in Sets
  <2>1. [cues EXCEPT ![job.held] = job.name] \in Sets
    BY <1>2, <1>3 DEF Sets
  <2> QED
    BY <1>2, <2>1 DEF Rename
<1>5. ASSUME Going(req, job'), job'.pc = "item", job'.at > 1, job'.users = job.users, inTick' = inTick
      PROVE  CueInv'
  <2>1. Back(req, job)'
    BY <1>1, <1>5 DEF Back
  <2> QED
    BY <1>1, <1>2, <1>4, <1>5, <2>1, Continues
<1>6. ASSUME NEW outcome \in Outcomes, job' = ItemEnds(job, outcome), inTick' = inTick PROVE CueInv'
  <2>1. Going(req, job') /\ job'.pc = "item" /\ job'.at > 1 /\ job'.users = job.users
    BY <1>1, <1>2, <1>3, <1>6, EndedGoing
  <2> QED
    BY <1>5, <1>6, <2>1
<1>7. CASE job' = Abort(job) /\ inTick' = inTick
  <2>1. Going(req, job') /\ job'.pc = "item" /\ job'.at > 1 /\ job'.users = job.users
    BY <1>1, <1>2, <1>3, <1>7, AbortedGoing
  <2> QED
    BY <1>5, <1>7, <2>1
<1>8. CASE NextTick(job) /\ job.attempt < Ticks
  <2>1. Going(req, job') /\ job'.pc = "rename" /\ job'.users = job.users /\ inTick' = FALSE
    BY <1>1, <1>2, <1>8, NextGoing DEF NextTick
  <2>2. Back(req, job)'
    BY <2>1 DEF Back
  <2> QED
    BY <1>1, <1>2, <1>4, <2>1, <2>2, Continues
<1>9. \/ job' \in {Named(job), ItemEnds(job, "unnamed"), Abort(job)} /\ inTick' = inTick
      \/ NextTick(job) /\ job.attempt < Ticks
  BY DEF Rename
<1>10. job.outcome \in Outcomes /\ {"snapped", "unnamed"} \subseteq Outcomes
  BY <1>2 DEF Jobs, Outcomes, Done, Failed
<1> QED
  BY <1>6, <1>7, <1>8, <1>9, <1>10 DEF Named

LEMMA StepFinish ==
  ASSUME CueInv, Finish
  PROVE  CueInv'
<1>1. /\ inTick /\ req # None /\ job.pc = "finish" /\ quant' = job.users /\ Reply(job, TRUE)
      /\ UNCHANGED <<inTick, cues, playhead, pending>>
  BY DEF Finish, At
<1>2. playhead = job.from /\ (job.users = "none" => Confessed) /\ job.users \in {"users", "none"}
  BY <1>1, Now DEF Back, Jobs
<1> QED
  BY <1>1, <1>2, Replied

LEMMA StepJump ==
  ASSUME CueInv, Jump
  PROVE  CueInv'
<1> DEFINE t == req.items[1].time
<1>1. /\ inTick /\ req # None /\ job.pc = "jump" /\ UNCHANGED <<cues, pending>>
      /\ \/ /\ quant' = job.users /\ UNCHANGED <<inTick, playhead>>
            /\ \E outcome \in {"moved", "not_moved"} : Reply([job EXCEPT !.results = <<outcome>>], TRUE)
         \/ /\ job.attempt # Retries /\ NextTick(job) /\ playhead' \in {playhead, t}
            /\ UNCHANGED <<quant, req, replies>>
  BY DEF Jump, At
<1>2. /\ req \in Inputs /\ Going(req, job) /\ req.kind = "jump" /\ job.users \in {"users", "none"}
      /\ (job.users = "none" => Confessed) /\ job.attempt \in Nat /\ job.attempt <= Retries
      /\ cues \in Sets /\ playhead \in Times /\ pending \in Seq(Toggles)
  BY <1>1, Now DEF Going, Jobs
<1>3. ASSUME NEW outcome, Reply([job EXCEPT !.results = <<outcome>>], TRUE), quant' = job.users,
             UNCHANGED <<inTick, playhead>>
      PROVE  CueInv'
  BY <1>1, <1>2, <1>3, Replied
<1>4. CASE /\ job.attempt # Retries /\ NextTick(job) /\ playhead' \in {playhead, t}
           /\ UNCHANGED <<quant, req, replies>>
  <2>1. t \in Times
    BY <1>2, ItemsOf
  <2>2. job.attempt < Retries
    BY <1>2, <1>4, CueAssumption
  <2>3. Going(req, job') /\ job'.pc = "jump" /\ job'.users = job.users /\ inTick' = FALSE
    BY <1>1, <1>2, <1>4, <2>2, NextGoing DEF NextTick
  <2>4. Back(req, job)'
    BY <2>3 DEF Back
  <2> QED
    BY <1>1, <1>2, <1>4, <2>1, <2>3, <2>4, Continues
<1> QED
  BY <1>1, <1>3, <1>4

LEMMA StepRaises ==
  ASSUME CueInv, LiveRaises
  PROVE  CueInv'
<1>1. /\ inTick /\ req # None /\ job.pc # "jump" /\ pending' \in {GivenUp, pending}
      /\ job.pc = "item" => job.at \in DOMAIN req.items
      /\ job.pc # "wait" => pending' = pending
      /\ UNCHANGED <<inTick, cues, playhead, quant>>
  BY DEF LiveRaises
<1>2. /\ req \in Inputs /\ Going(req, job) /\ job \in Jobs /\ cues \in Sets /\ playhead \in Times
      /\ pending \in Seq(Toggles) /\ inTick \in BOOLEAN /\ quant \in {"users", "none"}
      /\ Len(req.items) \in Nat /\ DOMAIN req.items = 1..Len(req.items)
      /\ (req # None => (job.users = "none" => Confessed))
  BY <1>1, Now, ItemsOf DEF CueInv, TypeInv
<1>3. pending' \in Seq(Toggles)
  BY <1>1, <1>2, GivenUpType
<1>4. CASE job.pc = "finish" \/ (job.pc = "position" /\ job.then = "finish")
  <2>1. Reply([job EXCEPT !.results = Append(@, "exception")], FALSE) /\ pending' = pending
    BY <1>1, <1>4 DEF LiveRaises
  <2> QED
    BY <1>1, <1>2, <2>1, Replied
<1>5. CASE ~(job.pc = "finish" \/ (job.pc = "position" /\ job.then = "finish"))
  <2>1. job' = Abort(job) /\ UNCHANGED <<req, replies>>
    BY <1>5 DEF LiveRaises
  <2>2. job.pc \in Phases /\ job.then \in {"toggle", "finish"} /\ job.at \in Nat
    BY <1>2 DEF Jobs
  <2>3. job.at <= Len(req.items)
    <3>1. CASE job.pc = "item"
      BY <1>1, <1>2, <3>1
    <3>2. CASE job.pc \in {"toggle", "wait", "rename"} \/ (job.pc = "position" /\ job.then = "toggle")
      BY <1>2, <3>2 DEF Going
    <3> QED
      BY <1>1, <1>5, <2>2, <3>1, <3>2 DEF Phases
  <2>4. Going(req, job') /\ job'.pc = "item" /\ job'.at > 1 /\ job'.users = job.users
    BY <1>1, <1>2, <2>1, <2>3, AbortedGoing
  <2>5. Back(req, job)'
    BY <1>1, <2>1, <2>4 DEF Back
  <2> QED
    BY <1>1, <1>2, <1>3, <2>1, <2>4, <2>5, Continues
<1> QED
  BY <1>4, <1>5

LEMMA StepJumpRaises ==
  ASSUME CueInv, JumpRaises
  PROVE  CueInv'
<1>1. /\ inTick /\ req # None /\ job.pc = "jump" /\ UNCHANGED <<inTick, cues, playhead, pending>>
  BY DEF JumpRaises, At
<1>2. PICK restored \in BOOLEAN :
        /\ quant' = IF restored THEN job.users ELSE quant
        /\ Reply([job EXCEPT !.results = <<"exception">>], restored)
  BY DEF JumpRaises
<1>3. /\ Going(req, job) /\ req.kind = "jump" /\ job.users \in {"users", "none"}
      /\ quant \in {"users", "none"} /\ (job.users = "none" => Confessed)
  BY <1>1, Now DEF Going, Jobs
<1>4. quant' \in {"users", "none"} /\ (quant' = "none" => ~restored \/ Confessed)
  BY <1>2, <1>3
<1> QED
  BY <1>1, <1>2, <1>3, <1>4, Replied
-------------------------------------------------------------------------------
(*************************** Live and the user *****************************)
\* Between ticks no request has its playhead back and not replied, and what happens to
\* the locators changes nothing of the way back.
LEMMA Between ==
  ASSUME CueInv, ~inTick, inTick' = inTick, UNCHANGED <<quant, req, replies>>,
         playhead' \in Times, cues' \in Sets, pending' \in Seq(Toggles),
         \/ job' = job
         \/ /\ req # None
            /\ \E touched \in Seq(Times), held \in Times \cup {None} :
                 job' = [job EXCEPT !.touched = touched, !.held = held]
  PROVE  CueInv'
<1>1. CASE req = None
  BY <1>1 DEF CueInv, TypeInv, BackInv, Confessed
<1>2. CASE req # None
  <2>1. Going(req, job) /\ Back(req, job)
    BY <1>2 DEF CueInv, TypeInv, BackInv
  <2>2. /\ job' \in Jobs /\ job'.pc = job.pc /\ job'.at = job.at /\ job'.results = job.results
        /\ job'.attempt = job.attempt /\ job'.then = job.then /\ job'.name = job.name
        /\ job'.aim = job.aim /\ job'.from = job.from /\ job'.users = job.users
    BY <2>1 DEF Going, Jobs
  <2>3. Going(req, job')
    BY <2>1, <2>2 DEF Going
  <2>4. Back(req, job)'
    BY <2>1, <2>2 DEF Back
  <2>5. inTick' \in BOOLEAN
    BY DEF CueInv, TypeInv
  <2> QED
    BY <1>2, <2>2, <2>3, <2>4, <2>5, Continues
<1> QED
  BY <1>1, <1>2

LEMMA Touched ==
  ASSUME CueInv, NEW t \in Times, NEW name \in Names \cup {None}, NEW byRequest \in BOOLEAN,
         Touch(t, name, byRequest)
  PROVE  /\ cues' \in Sets
         /\ \/ job' = job
            \/ /\ req # None
               /\ \E touched \in Seq(Times), held \in Times \cup {None} :
                    job' = [job EXCEPT !.touched = touched, !.held = held]
<1>1. cues' \in Sets
  BY DEF CueInv, TypeInv, Touch, Sets
<1>2. ASSUME req # None
      PROVE  \E touched \in Seq(Times), held \in Times \cup {None} :
                job' = [job EXCEPT !.touched = touched, !.held = held]
  <2>1. job \in Jobs
    BY <1>2 DEF CueInv, TypeInv, Going
  <2> DEFINE touched == IF byRequest THEN job.touched ELSE Append(job.touched, t)
             held == IF name = None /\ job.held = t THEN None ELSE job.held
  <2>2. touched \in Seq(Times) /\ held \in Times \cup {None}
    BY <2>1 DEF Jobs
  <2>3. job' = [job EXCEPT !.touched = touched, !.held = held]
    BY <1>2, <2>1 DEF Touch, Jobs
  <2> QED
    BY <2>2, <2>3
<1> QED
  BY <1>1, <1>2 DEF Touch

LEMMA StepLive ==
  ASSUME CueInv, LiveToggles
  PROVE  CueInv'
<1>1. /\ ~inTick /\ pending # <<>> /\ pending' = Tail(pending)
      /\ UNCHANGED <<inTick, playhead, quant, req, replies>>
      /\ pending \in Seq(Toggles) /\ playhead \in Times /\ cues \in Sets
  BY DEF LiveToggles, env, CueInv, TypeInv
<1>2. Head(pending) \in Toggles /\ pending' \in Seq(Toggles)
  BY <1>1
<1>3. Head(pending).at \in Times /\ Head(pending).late \in BOOLEAN
  BY <1>2 DEF Toggles
<1>4. {Head(pending).at, Grid[Head(pending).at]} \subseteq Times /\ AutoName \in Names
  BY <1>3, CueAssumption
<1>5. CASE UNCHANGED <<cues, job>>
  BY <1>1, <1>2, <1>5, Between
<1>6. ASSUME NEW t \in {Head(pending).at, Grid[Head(pending).at]},
             Touch(t, IF cues[t] = None THEN AutoName ELSE None, ~Head(pending).late)
      PROVE  CueInv'
  <2>1. t \in Times /\ (IF cues[t] = None THEN AutoName ELSE None) \in Names \cup {None}
        /\ (~Head(pending).late) \in BOOLEAN
    BY <1>3, <1>4
  <2>2. /\ cues' \in Sets
        /\ \/ job' = job
           \/ /\ req # None
              /\ \E touched \in Seq(Times), held \in Times \cup {None} :
                   job' = [job EXCEPT !.touched = touched, !.held = held]
    BY <1>6, <2>1, Touched
  <2> QED
    BY <1>1, <1>2, <2>2, Between
<1> QED
  BY <1>5, <1>6 DEF LiveToggles

LEMMA StepUser ==
  ASSUME CueInv, UserEdit
  PROVE  CueInv'
<1>1. /\ ~inTick /\ UNCHANGED <<inTick, quant, pending, req, replies>>
      /\ pending \in Seq(Toggles) /\ playhead \in Times /\ cues \in Sets
  BY DEF UserEdit, CueInv, TypeInv
<1>2. CASE playhead' \in Times /\ UNCHANGED <<cues, job>>
  BY <1>1, <1>2, Between
<1>3. ASSUME NEW t \in Times, NEW name \in {None, Own}, Touch(t, name, FALSE), UNCHANGED playhead
      PROVE  CueInv'
  <2>1. name \in Names \cup {None}
    BY CueAssumption
  <2>2. /\ cues' \in Sets
        /\ \/ job' = job
           \/ /\ req # None
              /\ \E touched \in Seq(Times), held \in Times \cup {None} :
                   job' = [job EXCEPT !.touched = touched, !.held = held]
    BY <1>3, <2>1, Touched
  <2> QED
    BY <1>1, <1>3, <2>2, Between
<1> QED
  BY <1>2, <1>3 DEF UserEdit
-------------------------------------------------------------------------------
(*************************** the theorems **********************************)
LEMMA CueInit == Init => CueInv
<1> SUFFICES ASSUME Init PROVE CueInv
  OBVIOUS
<1>1. TypeInv
  <2>1. cues \in Sets /\ playhead \in Times
    BY CueAssumption DEF Init, Sets
  <2>2. pending \in Seq(Toggles)
    BY DEF Init
  <2> QED
    BY <2>1, <2>2 DEF Init, TypeInv
<1>2. BackInv
  BY DEF Init, BackInv
<1> QED
  BY <1>1, <1>2 DEF CueInv

LEMMA CueStep == CueInv /\ [Next]_vars => CueInv'
<1> SUFFICES ASSUME CueInv, [Next]_vars PROVE CueInv'
  OBVIOUS
<1>1. CASE UNCHANGED vars
  <2>1. UNCHANGED <<inTick, cues, playhead, quant, pending, req, job, replies>>
    BY <1>1 DEF vars, song, env
  <2>2. \A r, j : (Back(r, j) => Back(r, j)') /\ (Going(r, j) => Going(r, j)')
    BY <2>1 DEF Back, Going
  <2> QED
    BY <2>1, <2>2 DEF CueInv, TypeInv, BackInv, Going, Back, Confessed
<1> QED
  BY <1>1, StepTick, StepBegin, StepAbsent, StepStart, StepGoBack, StepPosition, StepToggle,
     StepObserve, StepRename, StepFinish, StepJump, StepRaises, StepJumpRaises, StepLive,
     StepUser DEF Next, Serve

\* Every variable keeps its type: no item is handled beyond the last, and no phase is
\* tried more often than it may be. (cues.py)
THEOREM TypeCorrect == Spec => []TypeOK
<1>1. ASSUME CueInv PROVE TypeOK
  <2>1. inTick \in BOOLEAN /\ cues \in Sets /\ playhead \in Times /\ quant \in {"users", "none"}
    BY <1>1 DEF CueInv, TypeInv
  <2>2. ASSUME req # None
        PROVE  /\ job.pc \in Phases /\ job.at \in 1..(Len(req.items) + 1)
               /\ job.attempt \in 0..(IF Ticks > Retries THEN Ticks ELSE Retries)
               /\ \A i \in DOMAIN job.results : job.results[i] \in Outcomes
               /\ Len(job.results) < job.at
    <3>1. req \in Inputs /\ Going(req, job) /\ job \in Jobs
      BY <1>1, <2>2 DEF CueInv, TypeInv, Going
    <3>2. Len(req.items) \in Nat
      BY <3>1, ItemsOf
    <3>3. job.at <= Len(req.items) + 1 /\ Len(job.results) < job.at
          /\ (job.attempt <= Ticks \/ job.attempt <= Retries)
      BY <3>1 DEF Going
    <3>4. job.pc \in Phases /\ job.at \in Nat \ {0} /\ job.attempt \in Nat /\ job.results \in Seq(Outcomes)
      BY <3>1 DEF Jobs
    <3> QED
      BY <3>2, <3>3, <3>4, CueAssumption
  <2> QED
    BY <2>1, <2>2 DEF TypeOK, Sets, Outcomes
<1> QED
  BY <1>1, CueInit, CueStep, PTL DEF Spec

\* However an item fails and whatever the user does between the ticks, a reply that does
\* not say otherwise is given with the playhead where it was, and the quantization is
\* suspended between requests only after one that did. (cues.py, the finally blocks)
THEOREM PlayheadIsPutBack == Spec => []PutBack
<1>1. CueInv => PutBack
  BY DEF CueInv, BackInv, PutBack, Confessed
<1> QED
  BY <1>1, CueInit, CueStep, PTL DEF Spec
-------------------------------------------------------------------------------
(*************************** what replies tell of the locators *************)
\* v is what the items that a request has ended so far tell of the locator at t.
Counted == {"created", "renamed", "deleted"}
EndedAt(r, j, t) == {i \in DOMAIN j.results : r.items[i].time = t /\ j.results[i] \in Counted}
Tells(r, j, t, v) ==
  \/ EndedAt(r, j, t) = {} /\ v = j.began[t]
  \/ \E i \in EndedAt(r, j, t) :
       /\ \A k \in EndedAt(r, j, t) : k <= i
       /\ v = IF j.results[i] = "deleted" THEN None ELSE r.items[i].name

\* The places that the user or a late toggle has been at.
Others(j) == {j.touched[i] : i \in DOMAIN j.touched}

\* So far the reply would be one that promises something.
Clean(r, j) ==
  /\ \A i \in DOMAIN j.results : j.results[i] \in Done \cup {"snapped"}
  /\ Len(j.touched) <= 1
  /\ Others(j) \cap {r.items[i].time : i \in DOMAIN r.items} = {}

\* A toggle that has not been given up is the one the request waits for.
AllLate(toggles) == \A i \in DOMAIN toggles : toggles[i].late
PendingOK(r, j, toggles) ==
  \A i \in DOMAIN toggles :
    \/ toggles[i].late
    \/ i = Len(toggles) /\ r # None /\ j.pc = "wait" /\ toggles[i].at = j.aim

\* The locators are as they were listed, but for those in s and those of the others.
Same(j, c, s) == \A t \in Times \ (Others(j) \cup s) : c[t] = j.before[t]
Turned(j, c, t) == (c[t] # None) <=> (j.before[t] = None)

\* On the way to a toggle, or waiting for it.
Toggling(j) == j.pc \in {"toggle", "wait"} \/ (j.pc = "position" /\ j.then = "toggle")

\* Before a toggle of the item itself is seen to have had an effect.
Forward(r, j, c, toggles) ==
  /\ j.aim = r.items[j.at].time /\ j.name = r.items[j.at].name
  /\ j.outcome = IF r.kind = "delete" THEN "deleted" ELSE "created"
  /\ (j.before[j.aim] # None) <=> (r.kind = "delete")
  /\ \/ Same(j, c, {})
     \/ /\ j.pc = "wait" /\ AllLate(toggles)
        /\ \E p \in {j.aim, Grid[j.aim]} : Same(j, c, {p}) /\ (p \in Others(j) \/ Turned(j, c, p))

\* While one that has hit another place is reversed: that place lies on the grid, or the
\* user has been there and the reversal cannot succeed anywhere else.
Reverse(j, c, toggles) ==
  \/ Same(j, c, {j.aim}) /\ (Grid[j.aim] = j.aim \/ (j.pc = "wait" /\ AllLate(toggles)))
  \/ /\ Others(j) = {j.aim} /\ Turned(j, c, j.aim)
     /\ Same(j, c, {}) \/ (j.pc = "wait" /\ AllLate(toggles))

\* While a locator that was made or put back gets its name.
Naming(r, j, c) ==
  LET t == IF j.undoes THEN j.aim ELSE r.items[j.at].time
  IN /\ j.held \in {t, None} /\ Same(j, c, {t})
     /\ j.name = IF j.undoes THEN j.before[t] ELSE r.items[j.at].name
     /\ j.undoes \/ j.outcome \in {"created", "renamed"}

Located(r, j, c, toggles) ==
  /\ Len(j.results) = j.at - 1
  /\ j.pc = "finish" \/ (j.pc = "position" /\ j.then = "finish") => j.at = Len(r.items) + 1
  /\ IF Toggling(j) \/ j.pc = "rename"
     THEN \A t \in Times \ Others(j) : Tells(r, j, t, j.before[t])
     ELSE \A t \in Times \ Others(j) : Tells(r, j, t, c[t])
  /\ Toggling(j) /\ ~j.undoes => Forward(r, j, c, toggles)
  /\ Toggling(j) /\ j.undoes => Reverse(j, c, toggles)
  /\ j.pc = "rename" => Naming(r, j, c)

LocInv ==
  /\ CueInv
  /\ PendingOK(req, job, pending)
  /\ req # None /\ job.pc = "toggle" => inTick /\ playhead = job.aim
  /\ req # None /\ Clean(req, job) => Located(req, job, cues, pending)
  /\ RepliesTellTheLocators

\* RepliesTellTheLocators, one reply at a time.
Truthful(rep) ==
  /\ rep.restored /\ \A i \in DOMAIN rep.results : rep.results[i] \in Done \cup {"snapped"}
  /\ Len(rep.touched) <= 1
  => \A t \in Times : LET others == {rep.touched[i] : i \in DOMAIN rep.touched} IN
       others \cap {rep.req.items[i].time : i \in DOMAIN rep.req.items} = {} /\ t \notin others
       => rep.ended[t] = Told(rep, t)

LEMMA TruthfulAll == RepliesTellTheLocators <=> \A rep \in replies : Truthful(rep)
BY DEF RepliesTellTheLocators, Truthful

LEMMA TruthfulAllNext == RepliesTellTheLocators' <=> \A rep \in replies' : Truthful(rep)
BY DEF RepliesTellTheLocators, Truthful, Told

\* What is told when all items have ended.
LEMMA ToldAtLast ==
  ASSUME NEW rep, DOMAIN rep.results = DOMAIN rep.req.items, DOMAIN rep.results \subseteq Nat,
         NEW t, NEW v, Tells(rep.req, rep, t, v)
  PROVE  v = Told(rep, t)
<1> DEFINE there == {i \in DOMAIN rep.req.items :
                       rep.req.items[i].time = t /\ rep.results[i] \in {"created", "renamed", "deleted"}}
           last == CHOOSE i \in there : \A k \in there : k <= i
<1>1. EndedAt(rep.req, rep, t) = there
  BY DEF EndedAt, Counted
<1>2. Told(rep, t) = IF there = {} THEN rep.began[t]
                     ELSE IF rep.results[last] = "deleted" THEN None ELSE rep.req.items[last].name
  BY DEF Told
<1>3. there \subseteq Nat
  OBVIOUS
<1> HIDE DEF there
<1>4. (\E m \in there : \A k \in there : k <= m) =>
        last \in there /\ \A k \in there : k <= last
  OBVIOUS
<1> HIDE DEF last
<1>5. ASSUME NEW m \in there, \A k \in there : k <= m PROVE last = m
  <2>1. \E i \in there : \A k \in there : k <= i
    BY <1>5
  <2>2. last \in there /\ (\A k \in there : k <= last)
    BY <1>4, <2>1
  <2>3. m \in Nat /\ last \in Nat /\ m <= last /\ last <= m
    BY <1>3, <1>5, <2>2
  <2> QED
    BY <2>3
<1> QED
  BY <1>1, <1>2, <1>5 DEF Tells

\* One more item ends: it tells of its own place, if its outcome counts, and of no other.
LEMMA TellsMore ==
  ASSUME NEW r, NEW j, j.results \in Seq(Outcomes), NEW outcome, NEW k,
         k.results = Append(j.results, outcome), k.began = j.began, NEW t, NEW v
  PROVE  LET n == Len(j.results) + 1 IN
         /\ outcome \in Counted /\ r.items[n].time = t =>
              (Tells(r, k, t, v) <=> v = IF outcome = "deleted" THEN None ELSE r.items[n].name)
         /\ ~(outcome \in Counted /\ r.items[n].time = t) =>
              (Tells(r, k, t, v) <=> Tells(r, j, t, v))
<1> DEFINE n == Len(j.results) + 1
<1>1. /\ n \in Nat /\ DOMAIN j.results = 1..(n - 1) /\ DOMAIN k.results = 1..n
      /\ k.results[n] = outcome /\ \A i \in 1..(n - 1) : k.results[i] = j.results[i]
  OBVIOUS
<1> HIDE DEF n
<1>2. EndedAt(r, k, t) = EndedAt(r, j, t) \cup
        (IF outcome \in Counted /\ r.items[n].time = t THEN {n} ELSE {})
  <2>1. \A i : i \in 1..n <=> i \in 1..(n - 1) \/ i = n
    BY <1>1
  <2>2. \A i : i \in EndedAt(r, k, t) <=> \/ i \in EndedAt(r, j, t)
                                          \/ i = n /\ outcome \in Counted /\ r.items[n].time = t
    BY <1>1, <2>1 DEF EndedAt
  <2> QED
    BY <2>2
<1>3. EndedAt(r, j, t) \subseteq 1..(n - 1)
  BY <1>1 DEF EndedAt
<1>4. CASE outcome \in Counted /\ r.items[n].time = t
  <2>1. n \in EndedAt(r, k, t) /\ \A i \in EndedAt(r, k, t) : i \in Nat /\ i <= n
    BY <1>1, <1>2, <1>3, <1>4
  <2>2. \A i \in EndedAt(r, k, t) : (\A m \in EndedAt(r, k, t) : m <= i) <=> i = n
    BY <1>1, <2>1
  <2>3. Tells(r, k, t, v) <=> v = IF k.results[n] = "deleted" THEN None ELSE r.items[n].name
    BY <2>1, <2>2 DEF Tells
  <2> QED
    BY <1>1, <1>4, <2>3 DEF n
<1>5. CASE ~(outcome \in Counted /\ r.items[n].time = t)
  <2>1. EndedAt(r, k, t) = EndedAt(r, j, t)
    BY <1>2, <1>5
  <2>2. \A i \in EndedAt(r, j, t) : k.results[i] = j.results[i]
    BY <1>1, <1>3
  <2>3. Tells(r, k, t, v) <=> Tells(r, j, t, v)
    BY <2>1, <2>2 DEF Tells
  <2> QED
    BY <1>5, <2>3 DEF n
<1> QED
  BY <1>4, <1>5

LEMMA TellsSame ==
  ASSUME NEW r, NEW j, NEW k, k.results = j.results, k.began = j.began, NEW t, NEW v
  PROVE  Tells(r, k, t, v) <=> Tells(r, j, t, v)
BY DEF Tells, EndedAt

LEMMA TravelKeeps ==
  ASSUME NEW j \in Jobs, NEW t \in Times, NEW then \in {"toggle", "finish"}
  PROVE  LET k == Travel(j, t, then) IN
         /\ k.before = j.before /\ k.began = j.began /\ k.touched = j.touched
         /\ k.undoes = j.undoes /\ k.outcome = j.outcome /\ k.held = j.held
BY DEF Jobs, Travel

LEMMA EndedKeeps ==
  ASSUME NEW j \in Jobs, NEW outcome
  PROVE  LET k == ItemEnds(j, outcome) IN
         /\ k.results = Append(j.results, outcome)
         /\ k.before = j.before /\ k.began = j.began /\ k.touched = j.touched
BY DEF Jobs, ItemEnds

LEMMA CleanSame ==
  ASSUME NEW r, NEW j, NEW k, k.results = j.results, k.touched = j.touched
  PROVE  (Clean(r, k) <=> Clean(r, j)) /\ Others(k) = Others(j)
BY DEF Clean, Others

\* A reply that promises something promised it before its last item as well.
LEMMA EndedClean ==
  ASSUME NEW r, NEW j \in Jobs, NEW outcome \in Outcomes, Clean(r, ItemEnds(j, outcome))
  PROVE  Clean(r, j) /\ outcome \in Done \cup {"snapped"}
<1> DEFINE k == ItemEnds(j, outcome)
<1>1. k.results = Append(j.results, outcome) /\ k.touched = j.touched
  BY EndedKeeps
<1>2. Clean(r, k)
  OBVIOUS
<1> HIDE DEF k
<1>3. j.results \in Seq(Outcomes)
  BY DEF Jobs
<1> DEFINE n == Len(j.results) + 1
<1>4. /\ n \in Nat \ {0} /\ DOMAIN j.results = 1..(n - 1) /\ DOMAIN k.results = 1..n
      /\ k.results[n] = outcome /\ \A i \in 1..(n - 1) : k.results[i] = j.results[i]
  BY <1>1, <1>3
<1> HIDE DEF n
<1>5. n \in DOMAIN k.results /\ \A i \in DOMAIN j.results : i \in DOMAIN k.results
  BY <1>4
<1>6. \A i \in DOMAIN k.results : k.results[i] \in Done \cup {"snapped"}
  BY <1>2 DEF Clean
<1>7. (\A i \in DOMAIN j.results : j.results[i] \in Done \cup {"snapped"}) /\ outcome \in Done \cup {"snapped"}
  BY <1>4, <1>5, <1>6
<1>8. Len(j.touched) <= 1 /\ Others(j) \cap {r.items[i].time : i \in DOMAIN r.items} = {}
  BY <1>1, <1>2 DEF Clean, Others
<1> QED
  BY <1>7, <1>8 DEF Clean

\* An item ends: its own locator is as its outcome tells, the others are as they were told.
LEMMA EndedLocated ==
  ASSUME NEW r \in Inputs, NEW j \in Jobs, NEW outcome \in Outcomes, NEW c, NEW toggles,
         Len(j.results) = j.at - 1,
         \A t \in Times \ Others(j) :
           IF outcome \in Counted /\ r.items[j.at].time = t
           THEN c[t] = IF outcome = "deleted" THEN None ELSE r.items[j.at].name
           ELSE Tells(r, j, t, c[t])
  PROVE  Located(r, ItemEnds(j, outcome), c, toggles)
<1> DEFINE k == ItemEnds(j, outcome)
<1>1. /\ k.results = Append(j.results, outcome) /\ k.began = j.began /\ k.touched = j.touched
      /\ k.pc = "item" /\ k.at = j.at + 1 /\ Len(k.results) = Len(j.results) + 1
  BY EndedKeeps, EndedJob
<1> HIDE DEF k
<1>2. j.results \in Seq(Outcomes) /\ j.at \in Nat \ {0}
  BY DEF Jobs
<1>3. Len(k.results) = k.at - 1
  BY <1>1, <1>2
<1>4. Others(k) = Others(j) /\ ~Toggling(k)
  BY <1>1 DEF Others, Toggling
<1>5. ASSUME NEW t \in Times \ Others(k) PROVE Tells(r, k, t, c[t])
  <2>1. j.at = Len(j.results) + 1
    BY <1>2
  <2> DEFINE n == Len(j.results) + 1
             v == c[t]
  <2>2. /\ outcome \in Counted /\ r.items[n].time = t =>
             (Tells(r, k, t, v) <=> v = IF outcome = "deleted" THEN None ELSE r.items[n].name)
        /\ ~(outcome \in Counted /\ r.items[n].time = t) =>
             (Tells(r, k, t, v) <=> Tells(r, j, t, v))
    <3> HIDE DEF v
    <3> QED
      BY <1>1, <1>2, TellsMore, Zenon
  <2> HIDE DEF n
  <2> QED
    BY <1>4, <1>5, <2>1, <2>2 DEF n
<1>6. Located(r, k, c, toggles)
  BY <1>1, <1>3, <1>4, <1>5 DEF Located
<1> QED
  BY <1>6 DEF k

\* An item that ends with anything that was not meant ends what the reply promises.
LEMMA EndedUnclean ==
  ASSUME NEW r, NEW j \in Jobs, NEW outcome \in Outcomes, outcome \notin Done \cup {"snapped"}
  PROVE  ~Clean(r, ItemEnds(j, outcome))
BY EndedClean

\* A step of a request that goes on.
LEMMA LocContinues ==
  ASSUME LocInv, CueInv', req' = req, req # None, replies' = replies,
         PendingOK(req, job', pending'),
         job'.pc = "toggle" => inTick' /\ playhead' = job'.aim,
         Clean(req, job') => Located(req, job', cues', pending')
  PROVE  LocInv'
<1>1. RepliesTellTheLocators'
  BY TruthfulAll, TruthfulAllNext DEF LocInv
<1> QED
  BY <1>1 DEF LocInv

\* A reply is given, which tells the truth if it promises to.
LEMMA LocReplied ==
  ASSUME LocInv, CueInv', req \in Inputs, NEW j, NEW restored \in BOOLEAN, Reply(j, restored),
         pending' = pending, job.pc # "wait", j.results \in Seq(Outcomes),
         Clean(req, j) /\ restored =>
           /\ Len(j.results) = Len(req.items)
           /\ \A t \in Times \ Others(j) : Tells(req, j, t, cues[t])
  PROVE  LocInv'
<1> DEFINE new == [req |-> req, results |-> j.results, restored |-> restored, touched |-> j.touched,
                   began |-> j.began, ended |-> cues, moved |-> playhead # j.from]
<1>1. replies' = replies \cup {new} /\ req' = None /\ job' = Idle
  BY DEF Reply
<1>2. /\ new.req = req /\ new.results = j.results /\ new.restored = restored
      /\ new.touched = j.touched /\ new.began = j.began /\ new.ended = cues
  OBVIOUS
<1> HIDE DEF new
<1>3. Truthful(new)
  <2> SUFFICES ASSUME new.restored,
                      \A i \in DOMAIN new.results : new.results[i] \in Done \cup {"snapped"},
                      Len(new.touched) <= 1, NEW t \in Times, t \notin Others(new),
                      Others(new) \cap {new.req.items[i].time : i \in DOMAIN new.req.items} = {}
               PROVE  new.ended[t] = Told(new, t)
    BY DEF Truthful, Others
  <2>0. Clean(req, j) /\ restored /\ t \notin Others(j)
    <3>1. Clean(new.req, new)
      BY DEF Clean
    <3> QED
      BY <1>2, <3>1, CleanSame
  <2>1. Len(j.results) = Len(req.items) /\ Tells(req, j, t, cues[t])
    BY <2>0
  <2>2. Tells(req, new, t, cues[t])
    BY <1>2, <2>1, TellsSame
  <2>3. DOMAIN req.items = 1..Len(req.items)
    BY ItemsOf
  <2>4. DOMAIN new.results = DOMAIN req.items /\ DOMAIN new.results \subseteq Nat
    BY <1>2, <2>1, <2>3
  <2> QED
    BY <1>2, <2>2, <2>4, ToldAtLast
<1>4. RepliesTellTheLocators'
  BY <1>1, <1>3, TruthfulAll, TruthfulAllNext DEF LocInv
<1>5. PendingOK(req', job', pending')
  BY <1>1 DEF LocInv, PendingOK
<1> QED
  BY <1>1, <1>4, <1>5 DEF LocInv

\* A request that counts the attempts of a phase, and nothing else.
LEMMA LocatedSame ==
  ASSUME NEW r, NEW j, NEW k, NEW c, NEW toggles,
         k.pc = j.pc, k.at = j.at, k.results = j.results, k.then = j.then, k.aim = j.aim,
         k.before = j.before, k.began = j.began, k.undoes = j.undoes, k.held = j.held,
         k.name = j.name, k.outcome = j.outcome, k.touched = j.touched
  PROVE  /\ Clean(r, k) <=> Clean(r, j)
         /\ Located(r, j, c, toggles) => Located(r, k, c, toggles)
<1>1. (Clean(r, k) <=> Clean(r, j)) /\ Others(k) = Others(j)
  BY CleanSame
<1>2. \A t, v : Tells(r, k, t, v) <=> Tells(r, j, t, v)
  BY TellsSame
<1>3. Toggling(k) <=> Toggling(j)
  BY DEF Toggling
<1>4. \A s : Same(k, c, s) <=> Same(j, c, s)
  BY <1>1 DEF Same
<1>5. \A t : Turned(k, c, t) <=> Turned(j, c, t)
  BY DEF Turned
<1>6. Forward(r, j, c, toggles) => Forward(r, k, c, toggles)
  BY <1>1, <1>4, <1>5 DEF Forward
<1>7. Reverse(j, c, toggles) => Reverse(k, c, toggles)
  BY <1>1, <1>4, <1>5 DEF Reverse
<1>8. Naming(r, j, c) => Naming(r, k, c)
  BY <1>4 DEF Naming
<1>9. (\A t \in Times \ Others(k) : Tells(r, k, t, k.before[t]) <=> Tells(r, j, t, j.before[t]))
      /\ (\A t \in Times \ Others(k) : Tells(r, k, t, c[t]) <=> Tells(r, j, t, c[t]))
  BY <1>2
<1> QED
  BY <1>1, <1>3, <1>6, <1>7, <1>8, <1>9 DEF Located

LEMMA LocTick ==
  ASSUME LocInv, CueInv', TickBegins \/ TickEnds
  PROVE  LocInv'
<1>1. UNCHANGED <<cues, playhead, pending, req, job, replies>> /\ (req # None => inTick')
  BY DEF TickBegins, TickEnds, song, env
<1>2. RepliesTellTheLocators'
  BY <1>1, TruthfulAll, TruthfulAllNext DEF LocInv
<1>3. PendingOK(req', job', pending')
  BY <1>1 DEF LocInv
<1>4. req' # None /\ Clean(req', job') => Located(req', job', cues', pending')
  BY <1>1 DEF LocInv
<1>5. req' # None /\ job'.pc = "toggle" => inTick' /\ playhead' = job'.aim
  BY <1>1 DEF LocInv
<1> QED
  BY <1>2, <1>3, <1>4, <1>5 DEF LocInv

LEMMA LocBegin ==
  ASSUME LocInv, CueInv', NEW r \in Inputs, Begin(r)
  PROVE  LocInv'
<1>1. /\ req = None /\ req' = r /\ UNCHANGED <<cues, pending, replies>>
      /\ job' = [pc |-> IF r.kind = "jump" THEN "jump" ELSE "item",
                 at |-> 1, results |-> <<>>, attempt |-> 0, then |-> "toggle", aim |-> playhead,
                 from |-> playhead, users |-> quant, before |-> cues, began |-> cues,
                 undoes |-> FALSE, held |-> None, name |-> AutoName, outcome |-> "absent",
                 touched |-> <<>>]
  BY DEF Begin
<1>2. /\ job'.pc \in {"jump", "item"} /\ job'.at = 1 /\ job'.results = <<>> /\ job'.began = cues
  BY <1>1
<1>3. \A t : Tells(r, job', t, cues[t])
  BY <1>2 DEF Tells, EndedAt
<1>4. Located(r, job', cues', pending')
  <2>1. Len(job'.results) = job'.at - 1 /\ ~Toggling(job')
    BY <1>2 DEF Toggling
  <2> QED
    BY <1>1, <1>2, <1>3, <2>1 DEF Located
<1>5. PendingOK(r, job', pending')
  BY <1>1 DEF LocInv, PendingOK
<1>6. RepliesTellTheLocators'
  BY <1>1, TruthfulAll, TruthfulAllNext DEF LocInv
<1> QED
  BY <1>1, <1>2, <1>4, <1>5, <1>6 DEF LocInv

LEMMA LocNow ==
  ASSUME LocInv, inTick, req # None
  PROVE  /\ req \in Inputs /\ Going(req, job) /\ job \in Jobs /\ cues \in Sets
         /\ Len(req.items) \in Nat /\ DOMAIN req.items = 1..Len(req.items)
         /\ job.at \in Nat \ {0} /\ job.results \in Seq(Outcomes) /\ Len(job.results) \in Nat
         /\ PendingOK(req, job, pending) /\ pending \in Seq(Toggles)
         /\ job.pc # "wait" => AllLate(pending) /\ \A k : PendingOK(req, k, pending)
         /\ Clean(req, job) => Located(req, job, cues, pending)
<1>1. CueInv
  BY DEF LocInv
<1>2. /\ req \in Inputs /\ Going(req, job) /\ job \in Jobs /\ cues \in Sets
      /\ job.at \in Nat \ {0} /\ job.results \in Seq(Outcomes) /\ pending \in Seq(Toggles)
  BY <1>1, Now
<1>3. Len(req.items) \in Nat /\ DOMAIN req.items = 1..Len(req.items)
  BY <1>2, ItemsOf
<1>4. job.pc # "wait" => AllLate(pending) /\ \A k : PendingOK(req, k, pending)
  BY DEF LocInv, PendingOK, AllLate
<1> QED
  BY <1>2, <1>3, <1>4 DEF LocInv

\* A reply without any locator made, named or deleted.
LEMMA LocSingle ==
  ASSUME LocInv, CueInv', inTick, req # None, req.kind # "bulk", job.pc \in {"item", "jump"},
         job.at = 1, NEW outcome \in Outcomes \ Counted,
         Reply([job EXCEPT !.results = <<outcome>>], TRUE), pending' = pending
  PROVE  LocInv'
<1> DEFINE j == [job EXCEPT !.results = <<outcome>>]
<1>1. req \in Inputs /\ job \in Jobs /\ Len(job.results) \in Nat /\ Len(job.results) < job.at
      /\ job.results \in Seq(Outcomes)
  BY LocNow DEF Going
<1>2. job.results = <<>>
  BY <1>1
<1>3. j.results = <<outcome>> /\ j.touched = job.touched /\ j.began = job.began
  BY <1>1 DEF Jobs
<1> HIDE DEF j
<1>4. /\ j.results \in Seq(Outcomes) /\ Len(j.results) = 1 /\ DOMAIN j.results = {1}
      /\ j.results[1] = outcome
  BY <1>3
<1>5. Len(req.items) = 1
  BY <1>1, CueAssumption
<1>6. ASSUME Clean(req, j), NEW t \in Times \ Others(j) PROVE Tells(req, j, t, cues[t])
  <2>1. Clean(req, job) /\ Others(job) = Others(j)
    <3>1. Others(job) = Others(j)
      BY <1>3 DEF Others
    <3>2. Len(job.touched) <= 1 /\ Others(job) \cap {req.items[i].time : i \in DOMAIN req.items} = {}
      BY <1>3, <1>6, <3>1 DEF Clean
    <3> QED
      BY <1>2, <3>1, <3>2 DEF Clean
  <2>2. Tells(req, job, t, cues[t])
    <3>1. Located(req, job, cues, pending) /\ ~Toggling(job)
      BY <2>1, LocNow DEF Toggling
    <3> QED
      BY <1>6, <2>1, <3>1 DEF Located
  <2>3. EndedAt(req, job, t) = {} /\ EndedAt(req, j, t) = {}
    BY <1>2, <1>4 DEF EndedAt
  <2> QED
    BY <1>3, <2>2, <2>3 DEF Tells
<1>7. Reply(j, TRUE)
  BY DEF j
<1> QED
  BY <1>1, <1>4, <1>5, <1>6, <1>7, LocReplied

LEMMA LocAbsent ==
  ASSUME LocInv, CueInv', DeleteAbsent
  PROVE  LocInv'
<1>1. /\ inTick /\ req # None /\ job.pc = "item" /\ job.at = 1 /\ req.kind = "delete"
      /\ Reply([job EXCEPT !.results = <<"absent">>], TRUE) /\ pending' = pending
  BY DEF DeleteAbsent, At, song
<1> QED
  BY <1>1, LocSingle DEF Outcomes, Done, Counted

LEMMA LocJump ==
  ASSUME LocInv, CueInv', Jump
  PROVE  LocInv'
<1> DEFINE t == req.items[1].time
<1>1. /\ inTick /\ req # None /\ job.pc = "jump" /\ UNCHANGED <<cues, pending>>
      /\ \/ \E outcome \in {"moved", "not_moved"} : Reply([job EXCEPT !.results = <<outcome>>], TRUE)
         \/ NextTick(job) /\ UNCHANGED <<req, replies>>
  BY DEF Jump, At
<1>2. req.kind = "jump" /\ job.at = 1 /\ job \in Jobs
  BY <1>1, LocNow DEF Going
<1>3. ASSUME NEW outcome \in {"moved", "not_moved"}, Reply([job EXCEPT !.results = <<outcome>>], TRUE)
      PROVE  LocInv'
  BY <1>1, <1>2, <1>3, LocSingle DEF Outcomes, Done, Failed, Counted
<1>4. CASE NextTick(job) /\ UNCHANGED <<req, replies>>
  <2>1. job'.pc = "jump" /\ (Clean(req, job') <=> Clean(req, job))
        /\ (Located(req, job, cues, pending) => Located(req, job', cues, pending))
    BY <1>1, <1>2, <1>4, LocatedSame DEF NextTick, Jobs
  <2> QED
    BY <1>1, <1>4, <2>1, LocNow, LocContinues
<1> QED
  BY <1>1, <1>3, <1>4

LEMMA LocStart ==
  ASSUME LocInv, CueInv', StartItem
  PROVE  LocInv'
<1> DEFINE t == Item.time
           j == [job EXCEPT !.undoes = FALSE, !.attempt = 0, !.name = Item.name, !.before = cues]
<1>1. /\ inTick /\ req # None /\ job.pc = "item" /\ job.at \in DOMAIN req.items
      /\ UNCHANGED <<inTick, cues, playhead, pending, req, replies>>
      /\ \/ /\ req.kind = "delete" /\ cues[t] # None
            /\ job' = Travel([j EXCEPT !.outcome = "deleted"], t, "toggle")
         \/ /\ req.kind # "delete" /\ cues[t] # None
            /\ job' = [j EXCEPT !.outcome = "renamed", !.pc = "rename", !.held = t]
         \/ /\ req.kind # "delete" /\ cues[t] = None
            /\ job' = Travel([j EXCEPT !.outcome = "created"], t, "toggle")
  BY DEF StartItem, At, song, env
<1>2. /\ req \in Inputs /\ job \in Jobs /\ cues \in Sets /\ AllLate(pending)
      /\ \A k : PendingOK(req, k, pending)
      /\ Clean(req, job) => Located(req, job, cues, pending)
  BY <1>1, LocNow
<1>3. t \in Times /\ Item.name \in Names \cup {None}
  BY <1>1, <1>2, LocNow, ItemsOf DEF Item
<1>4. /\ j \in Jobs /\ j.name = Item.name /\ j.at = job.at /\ j.results = job.results
      /\ j.before = cues /\ j.began = job.began /\ j.touched = job.touched /\ j.undoes = FALSE
  BY <1>2, <1>3 DEF Jobs
<1>5. t = req.items[job.at].time /\ Item.name = req.items[job.at].name
  BY DEF Item
<1> HIDE DEF j, t
<1>6. /\ job'.name = Item.name /\ job'.at = job.at /\ job'.results = job.results
      /\ job'.before = cues /\ job'.began = job.began /\ job'.touched = job.touched
      /\ job'.undoes = FALSE
      /\ \/ /\ job'.pc = "position" /\ job'.then = "toggle" /\ job'.aim = t
            /\ job'.outcome = IF req.kind = "delete" THEN "deleted" ELSE "created"
            /\ (cues[t] # None) <=> (req.kind = "delete")
         \/ job'.pc = "rename" /\ job'.held = t /\ job'.outcome = "renamed"
  <2>1. ASSUME NEW outcome \in {"deleted", "created"},
               job' = Travel([j EXCEPT !.outcome = outcome], t, "toggle")
        PROVE  /\ job'.name = Item.name /\ job'.at = job.at /\ job'.results = job.results
               /\ job'.before = cues /\ job'.began = job.began /\ job'.touched = job.touched
               /\ job'.undoes = FALSE /\ job'.outcome = outcome
               /\ job'.pc = "position" /\ job'.then = "toggle" /\ job'.aim = t
    <3> DEFINE k == [j EXCEPT !.outcome = outcome]
    <3>1. /\ k \in Jobs /\ k.name = j.name /\ k.at = j.at /\ k.results = j.results
          /\ k.before = j.before /\ k.began = j.began /\ k.touched = j.touched
          /\ k.undoes = j.undoes /\ k.outcome = outcome
      BY <1>4 DEF Jobs
    <3>2. job' = Travel(k, t, "toggle")
      BY <2>1
    <3> HIDE DEF k
    <3> QED
      BY <1>3, <1>4, <3>1, <3>2, TravelJob, TravelKeeps
  <2>2. ASSUME job' = [j EXCEPT !.outcome = "renamed", !.pc = "rename", !.held = t]
        PROVE  /\ job'.name = Item.name /\ job'.at = job.at /\ job'.results = job.results
               /\ job'.before = cues /\ job'.began = job.began /\ job'.touched = job.touched
               /\ job'.undoes = FALSE /\ job'.outcome = "renamed"
               /\ job'.pc = "rename" /\ job'.held = t
    BY <1>4, <2>2 DEF Jobs
  <2> QED
    BY <1>1, <2>1, <2>2
<1>7. ASSUME Clean(req, job') PROVE Located(req, job', cues', pending')
  <2>1. Clean(req, job) /\ Others(job') = Others(job)
    BY <1>6, <1>7, CleanSame
  <2>2. Located(req, job, cues, pending) /\ ~Toggling(job)
    BY <1>1, <1>2, <2>1 DEF Toggling
  <2>3. \A x \in Times \ Others(job') : Tells(req, job', x, job'.before[x])
    <3>1. \A x \in Times \ Others(job) : Tells(req, job, x, cues[x])
      BY <1>1, <2>2 DEF Located
    <3> QED
      BY <1>6, <2>1, <3>1, TellsSame
  <2>4. \A s : Same(job', cues, s)
    BY <1>6 DEF Same
  <2>5. Len(job'.results) = job'.at - 1
    BY <1>6, <2>2 DEF Located
  <2>6. CASE job'.pc = "position"
    <3>1. Forward(req, job', cues, pending)
      BY <1>5, <1>6, <2>4, <2>6 DEF Forward
    <3>2. Toggling(job') /\ job'.then = "toggle"
      BY <1>6, <2>6 DEF Toggling
    <3> QED
      BY <1>1, <1>6, <2>3, <2>5, <2>6, <3>1, <3>2 DEF Located
  <2>7. CASE job'.pc = "rename"
    <3>1. Naming(req, job', cues)
      BY <1>5, <1>6, <2>4, <2>7 DEF Naming
    <3>2. ~Toggling(job')
      BY <2>7 DEF Toggling
    <3> QED
      BY <1>1, <1>6, <2>3, <2>5, <2>7, <3>1, <3>2 DEF Located
  <2> QED
    BY <1>6, <2>6, <2>7
<1>8. job'.pc # "toggle"
  BY <1>6
<1> QED
  BY <1>1, <1>2, <1>7, <1>8, LocContinues

LEMMA LocGoBack ==
  ASSUME LocInv, CueInv', GoBack
  PROVE  LocInv'
<1>1. /\ inTick /\ req # None /\ job.pc = "item" /\ job.at > Len(req.items)
      /\ job' = Travel(job, job.from, "finish") /\ UNCHANGED <<cues, pending, req, replies>>
  BY DEF GoBack, At, song, env
<1>2. /\ job \in Jobs /\ job.from \in Times /\ job.at = Len(req.items) + 1
      /\ \A k : PendingOK(req, k, pending)
      /\ Clean(req, job) => Located(req, job, cues, pending)
  <2>1. job \in Jobs /\ Going(req, job) /\ Len(req.items) \in Nat
    BY <1>1, LocNow
  <2> QED
    BY <1>1, <2>1, LocNow DEF Going, Jobs
<1>3. /\ job'.pc = "position" /\ job'.then = "finish" /\ job'.at = job.at
      /\ job'.results = job.results /\ job'.touched = job.touched /\ job'.began = job.began
  BY <1>1, <1>2, TravelJob, TravelKeeps
<1>4. ASSUME Clean(req, job') PROVE Located(req, job', cues', pending')
  <2>1. Clean(req, job) /\ Others(job') = Others(job)
    BY <1>3, <1>4, CleanSame
  <2>2. Located(req, job, cues, pending) /\ ~Toggling(job) /\ ~Toggling(job')
    BY <1>1, <1>2, <1>3, <2>1 DEF Toggling
  <2>3. \A x \in Times \ Others(job') : Tells(req, job', x, cues[x])
    <3>1. \A x \in Times \ Others(job) : Tells(req, job, x, cues[x])
      BY <1>1, <2>2 DEF Located
    <3> QED
      BY <1>3, <2>1, <3>1, TellsSame
  <2>4. Len(job'.results) = job'.at - 1
    BY <1>3, <2>2 DEF Located
  <2> QED
    BY <1>1, <1>2, <1>3, <2>2, <2>3, <2>4 DEF Located
<1> QED
  BY <1>1, <1>2, <1>3, <1>4, LocContinues

LEMMA LocFinish ==
  ASSUME LocInv, CueInv', Finish
  PROVE  LocInv'
<1>1. /\ inTick /\ req # None /\ job.pc = "finish" /\ Reply(job, TRUE) /\ pending' = pending
  BY DEF Finish, At
<1>2. /\ req \in Inputs /\ job.results \in Seq(Outcomes) /\ Len(req.items) \in Nat
      /\ Clean(req, job) => Located(req, job, cues, pending)
  BY <1>1, LocNow
<1>3. ASSUME Clean(req, job)
      PROVE  /\ Len(job.results) = Len(req.items)
             /\ \A t \in Times \ Others(job) : Tells(req, job, t, cues[t])
  <2>1. Located(req, job, cues, pending) /\ ~Toggling(job)
    BY <1>1, <1>2, <1>3 DEF Toggling
  <2> QED
    BY <1>1, <1>2, <2>1 DEF Located
<1> QED
  BY <1>1, <1>2, <1>3, LocReplied

\* The wait for the toggles is over.
LEMMA GivenUpLate ==
  ASSUME pending \in Seq(Toggles)
  PROVE  AllLate(GivenUp) /\ \A r, j : PendingOK(r, j, GivenUp)
<1>1. GivenUp = [i \in 1..Len(pending) |-> [pending[i] EXCEPT !.late = TRUE]]
      /\ \A i \in 1..Len(pending) : pending[i] \in Toggles
  BY DEF GivenUp
<1>2. DOMAIN GivenUp = 1..Len(pending) /\ \A i \in 1..Len(pending) : GivenUp[i].late
  BY <1>1 DEF Toggles
<1> QED
  BY <1>2 DEF AllLate, PendingOK

\* An item ends with something that no reply promises anything about.
LEMMA LocFails ==
  ASSUME LocInv, CueInv', inTick, req # None,
         NEW outcome \in Outcomes, outcome \notin Done \cup {"snapped"},
         job' = ItemEnds(job, outcome), UNCHANGED <<req, replies>>,
         pending' = GivenUp \/ (pending' = pending /\ job.pc # "wait")
  PROVE  LocInv'
<1>1. job \in Jobs /\ pending \in Seq(Toggles)
  BY LocNow
<1>2. ~Clean(req, job') /\ job'.pc = "item"
  BY <1>1, EndedUnclean, EndedJob
<1>3. PendingOK(req, job', pending')
  BY <1>1, LocNow, GivenUpLate
<1> QED
  BY <1>2, <1>3, LocContinues

LEMMA LocRaises ==
  ASSUME LocInv, CueInv', LiveRaises
  PROVE  LocInv'
<1>1. /\ inTick /\ req # None
      /\ pending' = GivenUp \/ (pending' = pending /\ job.pc # "wait")
      /\ \/ /\ job.pc # "wait" /\ pending' = pending
            /\ Reply([job EXCEPT !.results = Append(@, "exception")], FALSE)
         \/ job' = Abort(job) /\ UNCHANGED <<req, replies>>
  BY DEF LiveRaises
<1>2. req \in Inputs /\ job \in Jobs /\ job.results \in Seq(Outcomes) /\ pending \in Seq(Toggles)
  BY <1>1, LocNow
<1>3. CASE /\ job.pc # "wait" /\ pending' = pending
           /\ Reply([job EXCEPT !.results = Append(@, "exception")], FALSE)
  <2> DEFINE j == [job EXCEPT !.results = Append(@, "exception")]
  <2>1. j.results = Append(job.results, "exception")
    BY <1>2 DEF Jobs
  <2>2. Append(job.results, "exception") \in Seq(Outcomes)
    BY <1>2 DEF Outcomes, Failed
  <2> HIDE DEF j
  <2>3. Reply(j, FALSE)
    BY <1>3 DEF j
  <2> QED
    BY <1>1, <1>2, <1>3, <2>1, <2>2, <2>3, LocReplied
<1>4. CASE job' = Abort(job) /\ UNCHANGED <<req, replies>>
  <2> DEFINE k == ItemEnds(job, "exception")
  <2>1. ~Clean(req, k) /\ k.pc = "item" /\ k \in Jobs
    BY <1>2, EndedUnclean, EndedJob DEF Outcomes, Failed, Done
  <2>2. job' = [k EXCEPT !.at = Len(req.items) + 1]
    BY <1>4 DEF Abort
  <2> HIDE DEF k
  <2>3. job'.results = k.results /\ job'.touched = k.touched /\ job'.pc = "item"
    BY <2>1, <2>2 DEF Jobs
  <2>4. ~Clean(req, job')
    BY <2>1, <2>3, CleanSame
  <2>5. PendingOK(req, job', pending')
    BY <1>1, <1>2, LocNow, GivenUpLate
  <2> QED
    BY <1>1, <1>4, <2>3, <2>4, <2>5, LocContinues
<1> QED
  BY <1>1, <1>3, <1>4

LEMMA LocJumpRaises ==
  ASSUME LocInv, CueInv', JumpRaises
  PROVE  LocInv'
<1>1. inTick /\ req # None /\ job.pc = "jump" /\ pending' = pending
  BY DEF JumpRaises, At
<1>2. PICK restored \in BOOLEAN : Reply([job EXCEPT !.results = <<"exception">>], restored)
  BY DEF JumpRaises
<1>3. req \in Inputs /\ req.kind = "jump" /\ job.at = 1 /\ job \in Jobs
  BY <1>1, LocNow DEF Going
<1>4. CASE restored = TRUE
  BY <1>1, <1>2, <1>3, <1>4, LocSingle DEF Outcomes, Failed, Done, Counted
<1>5. CASE restored = FALSE
  <2> DEFINE j == [job EXCEPT !.results = <<"exception">>]
  <2>1. j.results = <<"exception">>
    BY <1>3 DEF Jobs
  <2>2. <<"exception">> \in Seq(Outcomes)
    BY DEF Outcomes, Failed
  <2> HIDE DEF j
  <2>3. Reply(j, FALSE)
    BY <1>2, <1>5 DEF j
  <2> QED
    BY <1>1, <1>3, <2>1, <2>2, <2>3, LocReplied
<1> QED
  BY <1>4, <1>5

LEMMA LocPosition ==
  ASSUME LocInv, CueInv', Position
  PROVE  LocInv'
<1>1. /\ inTick /\ req # None /\ job.pc = "position" /\ UNCHANGED <<cues, pending>>
      /\ \/ /\ playhead = job.aim /\ job' = [job EXCEPT !.pc = job.then, !.attempt = 0]
            /\ UNCHANGED <<inTick, req, playhead, replies>>
         \/ NextTick(job) /\ UNCHANGED <<req, replies>>
         \/ Reply([job EXCEPT !.results = Append(@, "not_moved")], FALSE)
         \/ job' = ItemEnds(job, "not_moved") /\ UNCHANGED <<req, replies>>
  BY DEF Position, At
<1>2. /\ req \in Inputs /\ job \in Jobs /\ job.results \in Seq(Outcomes)
      /\ \A k : PendingOK(req, k, pending)
      /\ Clean(req, job) => Located(req, job, cues, pending)
  BY <1>1, LocNow
<1>3. CASE /\ playhead = job.aim /\ job' = [job EXCEPT !.pc = job.then, !.attempt = 0]
           /\ UNCHANGED <<inTick, req, playhead, replies>>
  <2>1. /\ job'.pc = job.then /\ job.then \in {"toggle", "finish"} /\ job'.at = job.at
        /\ job'.results = job.results /\ job'.then = job.then /\ job'.aim = job.aim
        /\ job'.before = job.before /\ job'.began = job.began /\ job'.undoes = job.undoes
        /\ job'.held = job.held /\ job'.name = job.name /\ job'.outcome = job.outcome
        /\ job'.touched = job.touched
    BY <1>2, <1>3 DEF Jobs
  <2>2. ASSUME Clean(req, job') PROVE Located(req, job', cues', pending')
    <3>1. Clean(req, job) /\ Others(job') = Others(job)
      BY <2>1, <2>2, CleanSame
    <3>2. Located(req, job, cues, pending) /\ (Toggling(job') <=> Toggling(job)) /\ job'.pc # "rename"
          /\ (Toggling(job) <=> job.then = "toggle")
      BY <1>1, <1>2, <2>1, <3>1 DEF Toggling
    <3>3. \A t, v : Tells(req, job', t, v) <=> Tells(req, job, t, v)
      BY <2>1, TellsSame
    <3>4. (\A s : Same(job', cues, s) <=> Same(job, cues, s))
          /\ (\A t : Turned(job', cues, t) <=> Turned(job, cues, t))
      BY <2>1, <3>1 DEF Same, Turned
    <3>5. Forward(req, job, cues, pending) => Forward(req, job', cues, pending)
      BY <1>1, <2>1, <3>1, <3>4 DEF Forward
    <3>6. Reverse(job, cues, pending) => Reverse(job', cues, pending)
      BY <1>1, <2>1, <3>1, <3>4 DEF Reverse
    <3>7. IF Toggling(job') \/ job'.pc = "rename"
          THEN \A t \in Times \ Others(job') : Tells(req, job', t, job'.before[t])
          ELSE \A t \in Times \ Others(job') : Tells(req, job', t, cues[t])
      BY <1>1, <2>1, <3>1, <3>2, <3>3 DEF Located
    <3>8. /\ Len(job'.results) = job'.at - 1
          /\ job'.pc = "finish" \/ (job'.pc = "position" /\ job'.then = "finish") =>
               job'.at = Len(req.items) + 1
      BY <1>1, <2>1, <3>2 DEF Located
    <3>9. /\ Toggling(job') /\ ~job'.undoes => Forward(req, job', cues, pending)
          /\ Toggling(job') /\ job'.undoes => Reverse(job', cues, pending)
      BY <2>1, <3>2, <3>5, <3>6 DEF Located
    <3> QED
      BY <1>1, <3>2, <3>7, <3>8, <3>9 DEF Located
  <2> QED
    BY <1>1, <1>2, <1>3, <2>1, <2>2, LocContinues
<1>4. CASE NextTick(job) /\ UNCHANGED <<req, replies>>
  <2>1. job'.pc = "position" /\ (Clean(req, job') <=> Clean(req, job))
        /\ (Located(req, job, cues, pending) => Located(req, job', cues, pending))
    BY <1>1, <1>2, <1>4, LocatedSame DEF NextTick, Jobs
  <2> QED
    BY <1>1, <1>2, <1>4, <2>1, LocContinues
<1>5. CASE Reply([job EXCEPT !.results = Append(@, "not_moved")], FALSE)
  <2> DEFINE j == [job EXCEPT !.results = Append(@, "not_moved")]
  <2>1. j.results = Append(job.results, "not_moved")
    BY <1>2 DEF Jobs
  <2>2. Append(job.results, "not_moved") \in Seq(Outcomes)
    BY <1>2 DEF Outcomes, Failed
  <2> HIDE DEF j
  <2>3. Reply(j, FALSE)
    BY <1>5 DEF j
  <2> QED
    BY <1>1, <1>2, <2>1, <2>2, <2>3, LocReplied
<1>6. CASE job' = ItemEnds(job, "not_moved") /\ UNCHANGED <<req, replies>>
  BY <1>1, <1>6, LocFails DEF Outcomes, Failed, Done
<1> QED
  BY <1>1, <1>3, <1>4, <1>5, <1>6

LEMMA LocToggle ==
  ASSUME LocInv, CueInv', Toggle
  PROVE  LocInv'
<1> DEFINE new == [at |-> playhead, late |-> FALSE]
<1>1. /\ inTick /\ req # None /\ job.pc = "toggle" /\ pending' = Append(pending, new)
      /\ job' = [job EXCEPT !.pc = "wait", !.attempt = 1] /\ UNCHANGED <<cues, req, replies>>
  BY DEF Toggle, At, env
<1>2. /\ req \in Inputs /\ job \in Jobs /\ pending \in Seq(Toggles) /\ AllLate(pending)
      /\ Clean(req, job) => Located(req, job, cues, pending)
  BY <1>1, LocNow
<1>3. playhead = job.aim
  BY <1>1 DEF LocInv
<1>4. /\ job'.pc = "wait" /\ job'.at = job.at
      /\ job'.results = job.results /\ job'.then = job.then /\ job'.aim = job.aim
      /\ job'.before = job.before /\ job'.began = job.began /\ job'.undoes = job.undoes
      /\ job'.held = job.held /\ job'.name = job.name /\ job'.outcome = job.outcome
      /\ job'.touched = job.touched
  BY <1>1, <1>2 DEF Jobs
<1>5. PendingOK(req, job', pending')
  <2>1. new.at = job'.aim
    BY <1>3, <1>4
  <2> HIDE DEF new
  <2>2. /\ DOMAIN pending' = 1..(Len(pending) + 1) /\ Len(pending') = Len(pending) + 1
        /\ pending'[Len(pending) + 1] = new
        /\ \A i \in 1..Len(pending) : pending'[i] = pending[i] /\ i \in DOMAIN pending
    BY <1>1, <1>2
  <2>3. Len(pending) \in Nat
    BY <1>2
  <2> QED
    BY <1>1, <1>2, <1>4, <2>1, <2>2, <2>3 DEF PendingOK, AllLate
<1>6. ASSUME Clean(req, job') PROVE Located(req, job', cues', pending')
  <2>1. Clean(req, job) /\ Others(job') = Others(job)
    BY <1>4, <1>6, CleanSame
  <2>2. Located(req, job, cues, pending) /\ Toggling(job') /\ Toggling(job)
    BY <1>1, <1>2, <1>4, <2>1 DEF Toggling
  <2>3. \A t, v : Tells(req, job', t, v) <=> Tells(req, job, t, v)
    BY <1>4, TellsSame
  <2>4. (\A s : Same(job', cues, s) <=> Same(job, cues, s))
        /\ (\A t : Turned(job', cues, t) <=> Turned(job, cues, t))
    BY <1>4, <2>1 DEF Same, Turned
  <2>5. Forward(req, job, cues, pending) => Forward(req, job', cues, pending')
    BY <1>1, <1>4, <2>1, <2>4 DEF Forward
  <2>6. Reverse(job, cues, pending) => Reverse(job', cues, pending')
    BY <1>1, <1>4, <2>1, <2>4 DEF Reverse
  <2>7. \A t \in Times \ Others(job') : Tells(req, job', t, job'.before[t])
    BY <1>4, <2>1, <2>2, <2>3 DEF Located
  <2> QED
    BY <1>1, <1>4, <2>2, <2>5, <2>6, <2>7 DEF Located
<1> QED
  BY <1>1, <1>4, <1>5, <1>6, LocContinues

\* The rest of the toggles: those that are not given up remain the last.
LEMMA TailPending ==
  ASSUME pending \in Seq(Toggles), pending # <<>>, NEW r, NEW j, NEW k, PendingOK(r, j, pending),
         k.pc = j.pc, k.aim = j.aim
  PROVE  /\ PendingOK(r, k, Tail(pending))
         /\ AllLate(pending) => AllLate(Tail(pending))
<1> DEFINE n == Len(pending)
           rest == Tail(pending)
<1>1. n \in Nat \ {0} /\ DOMAIN pending = 1..n /\ Len(rest) = n - 1 /\ DOMAIN rest = 1..(n - 1)
      /\ \A i \in 1..(n - 1) : rest[i] = pending[i + 1]
  OBVIOUS
<1>2. n = Len(pending)
  OBVIOUS
<1> HIDE DEF n, rest
<1>3. ASSUME NEW i \in 1..(n - 1)
      PROVE  i + 1 \in DOMAIN pending /\ (i + 1 = n => i = Len(rest)) /\ rest[i] = pending[i + 1]
  BY <1>1
<1>4. PendingOK(r, k, rest)
  BY <1>1, <1>2, <1>3 DEF PendingOK
<1>5. AllLate(pending) => AllLate(rest)
  BY <1>1, <1>3 DEF AllLate
<1> QED
  BY <1>4, <1>5 DEF rest

LEMMA LocatedLater ==
  ASSUME NEW r, NEW j, NEW c, NEW toggles, NEW rest, AllLate(toggles) => AllLate(rest),
         Located(r, j, c, toggles)
  PROVE  Located(r, j, c, rest)
<1>1. Forward(r, j, c, toggles) => Forward(r, j, c, rest)
  BY DEF Forward
<1>2. Reverse(j, c, toggles) => Reverse(j, c, rest)
  BY DEF Reverse
<1> QED
  BY <1>1, <1>2 DEF Located

\* The user, or a late toggle, has been at a place that is left out of the promise from
\* then on.
LEMMA TouchedLocated ==
  ASSUME req \in Inputs, job \in Jobs, cues \in Sets, NEW t \in Times, NEW name,
         Touch(t, name, FALSE), NEW rest, AllLate(pending) => AllLate(rest),
         Clean(req, job) => Located(req, job, cues, pending)
  PROVE  /\ job'.pc = job.pc /\ job'.aim = job.aim
         /\ Clean(req, job') => Located(req, job', cues', rest)
<1>0. req # None
  BY CueAssumption
<1>1. /\ cues' = [cues EXCEPT ![t] = name]
      /\ job' = [job EXCEPT !.touched = Append(@, t),
                            !.held = IF name = None /\ @ = t THEN None ELSE @]
  BY <1>0 DEF Touch
<1>2. /\ job'.pc = job.pc /\ job'.at = job.at
      /\ job'.results = job.results /\ job'.then = job.then /\ job'.aim = job.aim
      /\ job'.before = job.before /\ job'.began = job.began /\ job'.undoes = job.undoes
      /\ job'.name = job.name /\ job'.outcome = job.outcome
      /\ job'.touched = Append(job.touched, t) /\ job'.held \in {job.held, None}
  BY <1>1 DEF Jobs
<1>3. \A x \in Times : x # t => cues'[x] = cues[x]
  BY <1>1 DEF Sets
<1>4. ASSUME Clean(req, job') PROVE Located(req, job', cues', rest)
  <2>1. job.touched = <<>>
    <3>1. job.touched \in Seq(Times) /\ Len(Append(job.touched, t)) <= 1
      BY <1>2, <1>4 DEF Jobs, Clean
    <3> QED
      BY <3>1
  <2>2. Others(job) = {} /\ Others(job') = {t}
    BY <1>2, <2>1 DEF Others
  <2>3. Clean(req, job)
    <3>1. \A i \in DOMAIN job.results : job.results[i] \in Done \cup {"snapped"}
      BY <1>2, <1>4 DEF Clean
    <3> QED
      BY <2>1, <2>2, <3>1 DEF Clean
  <2>4. Located(req, job, cues, pending) /\ (Toggling(job') <=> Toggling(job))
    BY <1>2, <2>3 DEF Toggling
  <2>5. \A x, v : Tells(req, job', x, v) <=> Tells(req, job, x, v)
    BY <1>2, TellsSame
  <2>6. \A s : Same(job, cues, s) => Same(job', cues', s)
    BY <1>2, <1>3, <2>2 DEF Same
  <2>7. \A p \in Times : p # t => (Turned(job', cues', p) <=> Turned(job, cues, p))
    BY <1>2, <1>3 DEF Turned
  <2>8. Toggling(job) /\ Forward(req, job, cues, pending) => Forward(req, job', cues', rest)
    <3>1. job.aim \in Times /\ Grid[job.aim] \in Times
      BY CueAssumption DEF Jobs
    <3>2. \A p \in {job.aim, Grid[job.aim]} :
            p \in Others(job) \/ Turned(job, cues, p) => p \in Others(job') \/ Turned(job', cues', p)
      BY <2>2, <2>7, <3>1
    <3> QED
      BY <1>2, <2>6, <3>2 DEF Forward
  <2>9. Reverse(job, cues, pending) => Reverse(job', cues', rest)
    BY <1>2, <2>2, <2>6 DEF Reverse
  <2>10. Naming(req, job, cues) => Naming(req, job', cues')
    BY <1>2, <2>6 DEF Naming
  <2>11. IF Toggling(job') \/ job'.pc = "rename"
         THEN \A x \in Times \ Others(job') : Tells(req, job', x, job'.before[x])
         ELSE \A x \in Times \ Others(job') : Tells(req, job', x, cues'[x])
    BY <1>2, <1>3, <2>2, <2>4, <2>5 DEF Located
  <2>12. /\ Len(job'.results) = job'.at - 1
         /\ job'.pc = "finish" \/ (job'.pc = "position" /\ job'.then = "finish") =>
              job'.at = Len(req.items) + 1
    BY <1>2, <2>4 DEF Located
  <2> QED
    BY <1>2, <2>4, <2>8, <2>9, <2>10, <2>11, <2>12 DEF Located
<1> QED
  BY <1>2, <1>4

\* The toggle the request waits for is applied: at the place it was asked for, or at the grid.
LEMMA AppliedLocated ==
  ASSUME req \in Inputs, job \in Jobs, cues \in Sets, job.pc = "wait",
         NEW p \in {job.aim, Grid[job.aim]},
         Touch(p, IF cues[p] = None THEN AutoName ELSE None, TRUE),
         ~AllLate(pending), NEW rest, AllLate(rest),
         Clean(req, job) => Located(req, job, cues, pending)
  PROVE  /\ job'.pc = job.pc /\ job'.aim = job.aim
         /\ Clean(req, job') => Located(req, job', cues', rest)
<1>0. req # None /\ p \in Times /\ AutoName # None
  BY CueAssumption DEF Jobs
<1> DEFINE name == IF cues[p] = None THEN AutoName ELSE None
<1>1. /\ cues' = [cues EXCEPT ![p] = name]
      /\ job' = [job EXCEPT !.touched = @, !.held = IF name = None /\ @ = p THEN None ELSE @]
  BY <1>0 DEF Touch
<1>2. /\ job'.pc = job.pc /\ job'.at = job.at
      /\ job'.results = job.results /\ job'.then = job.then /\ job'.aim = job.aim
      /\ job'.before = job.before /\ job'.began = job.began /\ job'.undoes = job.undoes
      /\ job'.name = job.name /\ job'.outcome = job.outcome
      /\ job'.touched = job.touched
  BY <1>1 DEF Jobs
<1>3. (\A x \in Times : x # p => cues'[x] = cues[x]) /\ (cues'[p] # None <=> cues[p] = None)
  BY <1>0, <1>1 DEF Sets
<1> HIDE DEF name
<1>4. ASSUME Clean(req, job') PROVE Located(req, job', cues', rest)
  <2>1. Clean(req, job) /\ Others(job') = Others(job)
    BY <1>2, <1>4, CleanSame
  <2>2. Located(req, job, cues, pending) /\ Toggling(job) /\ Toggling(job')
    BY <1>2, <2>1 DEF Toggling
  <2>3. \A x, v : Tells(req, job', x, v) <=> Tells(req, job, x, v)
    BY <1>2, TellsSame
  <2>4. \A s : Same(job, cues, s) => Same(job', cues', s \cup {p})
    BY <1>2, <1>3, <2>1 DEF Same
  <2>5. Same(job, cues, {}) => p \in Others(job') \/ Turned(job', cues', p)
    BY <1>0, <1>2, <1>3, <2>1 DEF Same, Turned
  <2>6. Forward(req, job, cues, pending) => Forward(req, job', cues', rest)
    <3>1. Same(job, cues, {}) => Same(job', cues', {p})
      <4>1. {} \cup {p} = {p}
        OBVIOUS
      <4> QED
        BY <2>4, <4>1
    <3> QED
      BY <1>2, <2>5, <3>1 DEF Forward
  <2>7. Reverse(job, cues, pending) => Reverse(job', cues', rest)
    <3>1. CASE Same(job, cues, {job.aim}) /\ Grid[job.aim] = job.aim
      <4>1. p = job.aim /\ {job.aim} \cup {p} = {job'.aim}
        BY <1>2, <3>1
      <4>2. Same(job', cues', {job'.aim})
        BY <2>4, <3>1, <4>1
      <4> QED
        BY <1>2, <3>1, <4>2 DEF Reverse
    <3>2. CASE Others(job) = {job.aim} /\ Turned(job, cues, job.aim) /\ Same(job, cues, {})
      <4>1. CASE p = job.aim
        <5>1. {} \cup {p} = {job'.aim}
          BY <1>2, <4>1
        <5>2. Same(job', cues', {job'.aim})
          BY <2>4, <3>2, <5>1
        <5> QED
          BY <1>2, <5>2 DEF Reverse
      <4>2. CASE p # job.aim
        <5>1. Turned(job', cues', job'.aim)
          BY <1>2, <1>3, <3>2, <4>2 DEF Turned, Jobs
        <5> QED
          BY <1>2, <2>1, <3>2, <5>1 DEF Reverse
      <4> QED
        BY <4>1, <4>2
    <3> QED
      BY <3>1, <3>2 DEF Reverse
  <2>8. \A x \in Times \ Others(job') : Tells(req, job', x, job'.before[x])
    BY <1>2, <2>1, <2>2, <2>3 DEF Located
  <2> QED
    BY <1>2, <2>2, <2>6, <2>7, <2>8 DEF Located
<1> QED
  BY <1>2, <1>4

LEMMA LocLive ==
  ASSUME LocInv, CueInv', LiveToggles
  PROVE  LocInv'
<1> DEFINE head == Head(pending)
           flip(t) == IF cues[t] = None THEN AutoName ELSE None
<1>1. /\ ~inTick /\ pending # <<>> /\ pending' = Tail(pending) /\ UNCHANGED <<inTick, playhead, req, replies>>
      /\ pending \in Seq(Toggles) /\ cues \in Sets /\ req \in Inputs \cup {None}
      /\ PendingOK(req, job, pending)
  BY DEF LiveToggles, env, LocInv, CueInv, TypeInv
<1>2. head \in Toggles /\ head = pending[1] /\ 1 \in DOMAIN pending /\ Len(pending) \in Nat
  BY <1>1
<1>3. head.at \in Times /\ head.late \in BOOLEAN /\ Grid[head.at] \in Times
  BY <1>2, CueAssumption DEF Toggles
<1>4. \/ UNCHANGED <<cues, job>>
      \/ \E t \in {head.at, Grid[head.at]} : Touch(t, flip(t), ~head.late)
  BY DEF LiveToggles
<1> HIDE DEF head
<1>5. ASSUME job'.pc = job.pc, job'.aim = job.aim,
             req # None /\ Clean(req, job') => Located(req, job', cues', pending')
      PROVE  LocInv'
  <2>1. PendingOK(req, job', pending')
    BY <1>1, <1>5, TailPending
  <2>2. req # None => job'.pc # "toggle"
    BY <1>1, <1>5 DEF LocInv
  <2>3. RepliesTellTheLocators'
    BY <1>1, TruthfulAll, TruthfulAllNext DEF LocInv
  <2> QED
    BY <1>1, <1>5, <2>1, <2>2, <2>3 DEF LocInv
<1>6. CASE UNCHANGED <<cues, job>>
  <2>1. AllLate(pending) => AllLate(pending')
    BY <1>1, TailPending
  <2>2. req # None /\ Clean(req, job) => Located(req, job, cues, pending')
    BY <2>1, LocatedLater DEF LocInv
  <2> QED
    BY <1>5, <1>6, <2>2
<1>7. ASSUME NEW t \in {head.at, Grid[head.at]}, Touch(t, flip(t), ~head.late)
      PROVE  LocInv'
  <2>1. CASE req = None
    BY <1>5, <1>7, <2>1 DEF Touch
  <2>2. CASE req # None
    <3>1. req \in Inputs /\ job \in Jobs /\ (Clean(req, job) => Located(req, job, cues, pending))
      BY <1>1, <2>2 DEF LocInv, CueInv, TypeInv, Going
    <3>2. CASE head.late
      <4>1. Touch(t, flip(t), FALSE) /\ t \in Times
        BY <1>3, <1>7, <3>2
      <4>2. AllLate(pending) => AllLate(pending')
        BY <1>1, TailPending
      <4> HIDE DEF flip
      <4> QED
        BY <1>1, <1>5, <3>1, <4>1, <4>2, TouchedLocated
    <3>3. CASE ~head.late
      <4>1. Touch(t, flip(t), TRUE)
        BY <1>3, <1>7, <3>3
      <4>2. Len(pending) = 1 /\ job.pc = "wait" /\ t \in {job.aim, Grid[job.aim]}
        BY <1>1, <1>2, <1>7, <3>3 DEF PendingOK
      <4>3. pending' = <<>>
        BY <1>1, <4>2
      <4>4. AllLate(pending') /\ ~AllLate(pending)
        BY <1>2, <3>3, <4>3 DEF AllLate
      <4> QED
        BY <1>1, <1>5, <3>1, <4>1, <4>2, <4>4, AppliedLocated
    <3> QED
      BY <3>2, <3>3
  <2> QED
    BY <2>1, <2>2
<1> QED
  BY <1>4, <1>6, <1>7

LEMMA LocUser ==
  ASSUME LocInv, CueInv', UserEdit
  PROVE  LocInv'
<1>1. /\ ~inTick /\ req # None /\ UNCHANGED <<inTick, pending, req, replies>>
      /\ \/ \E t \in Times, name \in {None, Own} : Touch(t, name, FALSE)
         \/ UNCHANGED <<cues, job>>
  BY DEF UserEdit
<1>2. /\ req \in Inputs /\ job \in Jobs /\ cues \in Sets /\ PendingOK(req, job, pending)
      /\ job.pc # "toggle" /\ (Clean(req, job) => Located(req, job, cues, pending))
  BY <1>1 DEF LocInv, CueInv, TypeInv, Going
<1>3. ASSUME job'.pc = job.pc, job'.aim = job.aim,
             Clean(req, job') => Located(req, job', cues', pending)
      PROVE  LocInv'
  <2>1. PendingOK(req, job', pending)
    BY <1>2, <1>3 DEF PendingOK
  <2> QED
    BY <1>1, <1>2, <1>3, <2>1, LocContinues
<1>4. ASSUME NEW t \in Times, NEW name \in {None, Own}, Touch(t, name, FALSE)
      PROVE  LocInv'
  BY <1>2, <1>3, <1>4, TouchedLocated
<1> QED
  BY <1>1, <1>2, <1>3, <1>4

LEMMA LocRename ==
  ASSUME LocInv, CueInv', Rename
  PROVE  LocInv'
<1>1. /\ inTick /\ req # None /\ job.pc = "rename" /\ UNCHANGED <<pending, req, replies>>
      /\ cues' \in {cues, [cues EXCEPT ![job.held] = job.name]}
      /\ \/ /\ job' = Named(job) /\ job.held # None /\ cues'[job.held] = job.name
         \/ job' = Abort(job)
         \/ job' = ItemEnds(job, "unnamed")
         \/ NextTick(job) /\ job.held # None
  BY DEF Rename, At, env
<1>2. /\ req \in Inputs /\ job \in Jobs /\ cues \in Sets /\ AllLate(pending)
      /\ \A k : PendingOK(req, k, pending)
      /\ Clean(req, job) => Located(req, job, cues, pending)
  BY <1>1, LocNow
<1> DEFINE t == IF job.undoes THEN job.aim ELSE req.items[job.at].time
           name == IF job.undoes THEN job.before[t] ELSE req.items[job.at].name
<1>3. ASSUME Clean(req, job)
      PROVE  /\ Located(req, job, cues, pending) /\ job.held \in {t, None} /\ job.name = name
             /\ job.undoes \/ job.outcome \in {"created", "renamed"}
             /\ \A x \in Times \ (Others(job) \cup {t}) : cues[x] = job.before[x]
             /\ \A x \in Times \ Others(job) : Tells(req, job, x, job.before[x])
             /\ Len(job.results) = job.at - 1
  BY <1>1, <1>2, <1>3 DEF Located, Naming, Same
<1>4. ASSUME NEW x \in Times, x # job.held PROVE cues'[x] = cues[x]
  BY <1>1, <1>2, <1>4 DEF Sets
<1>5. CASE job' = Named(job) /\ job.held # None /\ cues'[job.held] = job.name
  <2> DEFINE outcome == IF job.undoes THEN "snapped" ELSE job.outcome
  <2>1. job' = ItemEnds(job, outcome) /\ outcome \in Outcomes
    BY <1>2, <1>5 DEF Named, Jobs, Outcomes, Done, Failed
  <2> HIDE DEF outcome
  <2>2. ASSUME Clean(req, job') PROVE Located(req, job', cues', pending')
    <3>1. Clean(req, job)
      BY <1>2, <2>1, <2>2, EndedClean
    <3>2. /\ job.held = t /\ cues'[t] = name
          /\ \A x \in Times \ Others(job) : x # t => cues'[x] = job.before[x]
      BY <1>3, <1>4, <1>5, <3>1
    <3>3. ASSUME NEW x \in Times \ Others(job)
          PROVE  IF outcome \in Counted /\ req.items[job.at].time = x
                 THEN cues'[x] = IF outcome = "deleted" THEN None ELSE req.items[job.at].name
                 ELSE Tells(req, job, x, cues'[x])
      <4>1. CASE job.undoes
        <5>1. outcome \notin Counted
          BY <4>1 DEF outcome, Counted
        <5>2. cues'[x] = job.before[x]
          BY <3>2, <3>3, <4>1
        <5> QED
          BY <1>3, <3>1, <3>3, <5>1, <5>2
      <4>2. CASE ~job.undoes
        <5>1. outcome \in Counted /\ outcome # "deleted"
          BY <1>3, <3>1, <4>2 DEF outcome, Counted
        <5>2. CASE req.items[job.at].time = x
          BY <3>2, <4>2, <5>1, <5>2
        <5>3. CASE req.items[job.at].time # x
          <6>1. cues'[x] = job.before[x]
            BY <3>2, <3>3, <4>2, <5>3
          <6> QED
            BY <1>3, <3>1, <3>3, <5>3, <6>1
        <5> QED
          BY <5>2, <5>3
      <4> QED
        BY <4>1, <4>2
    <3> HIDE DEF t, name
    <3> QED
      BY <1>2, <1>3, <2>1, <3>1, <3>3, EndedLocated
  <2>3. job'.pc = "item"
    BY <1>2, <2>1, EndedJob
  <2> QED
    BY <1>1, <1>2, <2>2, <2>3, LocContinues
<1>6. CASE job' = Abort(job)
  <2> DEFINE k == ItemEnds(job, "exception")
  <2>1. ~Clean(req, k) /\ k \in Jobs /\ k.pc = "item"
    BY <1>2, EndedUnclean, EndedJob DEF Outcomes, Failed, Done
  <2>2. job' = [k EXCEPT !.at = Len(req.items) + 1]
    BY <1>6 DEF Abort
  <2> HIDE DEF k
  <2>3. job'.results = k.results /\ job'.touched = k.touched /\ job'.pc = k.pc
    BY <2>1, <2>2 DEF Jobs
  <2>4. ~Clean(req, job')
    BY <2>1, <2>3, CleanSame
  <2> QED
    BY <1>1, <1>2, <2>1, <2>3, <2>4, LocContinues
<1>7. CASE job' = ItemEnds(job, "unnamed")
  BY <1>1, <1>7, LocFails DEF Outcomes, Failed, Done
<1>8. CASE NextTick(job) /\ job.held # None
  <2>1. /\ job'.pc = "rename" /\ (Clean(req, job') <=> Clean(req, job))
        /\ (Located(req, job, cues', pending) => Located(req, job', cues', pending))
    BY <1>1, <1>2, <1>8, LocatedSame DEF NextTick, Jobs
  <2>2. ASSUME Clean(req, job) PROVE Located(req, job, cues', pending)
    <3>1. job.held = t /\ Located(req, job, cues, pending)
      BY <1>3, <1>8, <2>2
    <3>2. Same(job, cues', {t})
      BY <1>3, <1>4, <2>2, <3>1 DEF Same
    <3>3. Naming(req, job, cues')
      BY <1>3, <2>2, <3>2 DEF Naming
    <3>4. ~Toggling(job)
      BY <1>1 DEF Toggling
    <3> QED
      BY <1>1, <3>1, <3>3, <3>4 DEF Located
  <2> QED
    BY <1>1, <1>2, <2>1, <2>2, LocContinues
<1> QED
  BY <1>1, <1>5, <1>6, <1>7, <1>8

\* Places that are fewer than two, because all lie among two and there is one.
LEMMA OneOfTwo ==
  ASSUME NEW S, NEW a, NEW b, S \subseteq {a, b}, Cardinality(S) = 1,
         NEW x \in S, NEW y \in S
  PROVE  x = y
<1>1. IsFiniteSet({a, b})
  <2>1. IsFiniteSet({a}) /\ {a, b} = {a} \cup {b}
    BY FS_Singleton
  <2> QED
    BY <2>1, FS_AddElement
<1>2. IsFiniteSet(S)
  BY <1>1, FS_Subset
<1>3. \E z : S = {z}
  BY <1>2, FS_Singleton
<1> QED
  BY <1>3

LEMMA OthersAreOne ==
  ASSUME NEW j \in Jobs, Len(j.touched) <= 1
  PROVE  \E o : Others(j) \subseteq {o}
<1>1. j.touched \in Seq(Times)
  BY DEF Jobs
<1>2. Others(j) \subseteq {j.touched[1]}
  BY <1>1 DEF Others
<1> QED
  BY <1>2

\* The toggle that is seen at the place it was meant for is the only change.
LEMMA MeantLocated ==
  ASSUME req \in Inputs, job \in Jobs, job.at \in DOMAIN req.items, Clean(req, job),
         Forward(req, job, cues, pending), Turned(job, cues, job.aim)
  PROVE  job.aim \notin Others(job) /\ Same(job, cues, {job.aim})
<1>1. job.aim \notin Others(job) /\ job.aim \in Times
  BY DEF Clean, Forward, Jobs
<1>2. ~Same(job, cues, {})
  BY <1>1 DEF Same, Turned
<1>3. PICK p \in {job.aim, Grid[job.aim]} : Same(job, cues, {p})
  BY <1>2 DEF Forward
<1>4. p = job.aim
  BY <1>1, <1>3 DEF Same, Turned
<1> QED
  BY <1>1, <1>3, <1>4

\* One change, and not where it was meant: a place on the grid, or the user's.
LEMMA StrayLocated ==
  ASSUME req \in Inputs, job \in Jobs, cues \in Sets, job.at \in DOMAIN req.items, Clean(req, job),
         Forward(req, job, cues, pending), ~Turned(job, cues, job.aim),
         NEW x \in Added \cup Removed, \A y \in Added \cup Removed : y = x
  PROVE  /\ x \in Times /\ Turned(job, cues, x)
         /\ \/ Same(job, cues, {x}) /\ Grid[x] = x
            \/ Others(job) = {x} /\ Same(job, cues, {})
<1>1. \A y \in Times : y \in Added \cup Removed <=> Turned(job, cues, y)
  BY DEF Added, Removed, Present, Turned
<1>2. x \in Times /\ Turned(job, cues, x)
  BY <1>1 DEF Added, Removed, Present
<1>3. CASE Same(job, cues, {})
  <2>1. x \in Others(job)
    BY <1>2, <1>3 DEF Same, Turned
  <2>2. \E o : Others(job) \subseteq {o}
    BY OthersAreOne DEF Clean
  <2>3. Others(job) = {x}
    BY <2>1, <2>2
  <2> QED
    BY <1>2, <1>3, <2>3
<1>4. ASSUME NEW p \in {job.aim, Grid[job.aim]}, Same(job, cues, {p}),
             p \in Others(job) \/ Turned(job, cues, p)
      PROVE  \/ Same(job, cues, {x}) /\ Grid[x] = x
             \/ Others(job) = {x} /\ Same(job, cues, {})
  <2>1. CASE p \in Others(job)
    <3>1. Others(job) \cup {p} = Others(job) \cup {}
      BY <2>1
    <3>2. Same(job, cues, {})
      BY <1>4, <3>1 DEF Same
    <3> QED
      BY <1>2, <1>3, <3>2
  <2>2. CASE Turned(job, cues, p)
    <3>1. p \in Times /\ job.aim \in Times /\ Grid[Grid[job.aim]] = Grid[job.aim]
      BY CueAssumption DEF Jobs
    <3>2. p = x /\ p # job.aim
      BY <1>1, <2>2, <3>1
    <3> QED
      BY <1>4, <3>1, <3>2
  <2> QED
    BY <1>4, <2>1, <2>2
<1> QED
  BY <1>2, <1>3, <1>4 DEF Forward

\* The request gives up the wait for its toggle, and goes on.
LEMMA LocGoesOn ==
  ASSUME LocInv, CueInv', inTick, req # None, UNCHANGED <<inTick, cues, playhead, req, replies>>,
         pending' = GivenUp, job'.pc # "toggle",
         Clean(req, job') => Located(req, job', cues, GivenUp)
  PROVE  LocInv'
BY LocNow, GivenUpLate, LocContinues

\* The toggle did what it was for.
LEMMA LocWished ==
  ASSUME LocInv, CueInv', At("wait"), Wished, job' = AsWished, pending' = GivenUp,
         UNCHANGED <<inTick, cues, playhead, req, replies>>
  PROVE  LocInv'
<1>1. /\ req \in Inputs /\ job \in Jobs /\ cues \in Sets /\ inTick /\ req # None
      /\ job.pc = "wait" /\ job.at \in DOMAIN req.items
      /\ Clean(req, job) => Located(req, job, cues, pending)
  <2>1. /\ req \in Inputs /\ job \in Jobs /\ cues \in Sets /\ inTick /\ req # None
        /\ job.pc = "wait" /\ Going(req, job) /\ DOMAIN req.items = 1..Len(req.items)
        /\ job.at \in Nat \ {0} /\ Len(req.items) \in Nat
        /\ Clean(req, job) => Located(req, job, cues, pending)
    BY LocNow DEF At
  <2> QED
    BY <2>1 DEF Going
<1>2. ASSUME Clean(req, job)
      PROVE  /\ Same(job, cues, {job.aim})
             /\ \A x \in Times \ Others(job) : Tells(req, job, x, job.before[x])
             /\ Len(job.results) = job.at - 1
             /\ job.undoes => ~Turned(job, cues, job.aim)
             /\ ~job.undoes => /\ Forward(req, job, cues, pending) /\ job.aim \notin Others(job)
                               /\ Turned(job, cues, job.aim)
  <2>1. Located(req, job, cues, pending) /\ Toggling(job)
    BY <1>1, <1>2 DEF Toggling
  <2>2. CASE job.undoes
    <3>1. ~Turned(job, cues, job.aim)
      BY <2>2 DEF Wished, Turned
    <3>2. Same(job, cues, {job.aim})
      BY <2>1, <2>2, <3>1 DEF Located, Reverse
    <3> QED
      BY <2>1, <2>2, <3>1, <3>2 DEF Located
  <2>3. CASE ~job.undoes
    <3>1. Forward(req, job, cues, pending)
      BY <2>1, <2>3 DEF Located
    <3>2. Turned(job, cues, job.aim)
      BY <2>3, <3>1 DEF Wished, Turned, Forward
    <3>3. job.aim \notin Others(job) /\ Same(job, cues, {job.aim})
      BY <1>1, <1>2, <3>1, <3>2, MeantLocated
    <3> QED
      BY <2>1, <2>3, <3>1, <3>2, <3>3 DEF Located
  <2> QED
    BY <2>2, <2>3
<1>3. ASSUME NEW outcome \in {"snapped", "deleted"}, job' = ItemEnds(job, outcome),
             outcome = "snapped" => job.undoes /\ job.before[job.aim] = None,
             outcome = "deleted" => ~job.undoes /\ req.kind = "delete"
      PROVE  LocInv'
  <2>1. outcome \in Outcomes
    BY DEF Outcomes, Done, Failed
  <2>2. ASSUME Clean(req, job') PROVE Located(req, job', cues, GivenUp)
    <3>1. Clean(req, job)
      BY <1>1, <1>3, <2>1, <2>2, EndedClean
    <3>2. ASSUME NEW x \in Times \ Others(job)
          PROVE  IF outcome \in Counted /\ req.items[job.at].time = x
                 THEN cues[x] = IF outcome = "deleted" THEN None ELSE req.items[job.at].name
                 ELSE Tells(req, job, x, cues[x])
      <4>1. CASE x = job.aim /\ outcome = "deleted"
        <5>1. cues[x] = None /\ req.items[job.at].time = x
          BY <1>2, <1>3, <3>1, <4>1 DEF Wished, Forward
        <5> QED
          BY <4>1, <5>1 DEF Counted
      <4>2. CASE x = job.aim /\ outcome = "snapped"
        <5>1. cues[x] = job.before[x]
          BY <1>3, <4>2 DEF Wished
        <5> QED
          BY <1>2, <3>1, <3>2, <4>2, <5>1 DEF Counted
      <4>3. CASE x # job.aim
        <5>1. cues[x] = job.before[x]
          BY <1>2, <3>1, <3>2, <4>3 DEF Same
        <5>2. outcome \in Counted => req.items[job.at].time # x
          BY <1>2, <1>3, <3>1, <4>3 DEF Forward, Counted
        <5> QED
          BY <1>2, <3>1, <3>2, <5>1, <5>2
      <4> QED
        BY <4>1, <4>2, <4>3
    <3> QED
      BY <1>1, <1>2, <1>3, <2>1, <3>1, <3>2, EndedLocated
  <2>3. job'.pc = "item"
    BY <1>1, <1>3, <2>1, EndedJob
  <2> QED
    BY <1>1, <2>2, <2>3, LocGoesOn
<1>4. ASSUME NEW name, job' = [job EXCEPT !.pc = "rename", !.held = job.aim, !.name = name, !.attempt = 0],
             name = IF job.undoes THEN job.before[job.aim] ELSE job.name,
             job.undoes \/ req.kind # "delete"
      PROVE  LocInv'
  <2>1. /\ job'.pc = "rename" /\ job'.at = job.at /\ job'.results = job.results
        /\ job'.aim = job.aim /\ job'.held = job.aim /\ job'.name = name
        /\ job'.before = job.before /\ job'.began = job.began /\ job'.undoes = job.undoes
        /\ job'.outcome = job.outcome /\ job'.touched = job.touched
    BY <1>1, <1>4 DEF Jobs
  <2>2. ASSUME Clean(req, job') PROVE Located(req, job', cues, GivenUp)
    <3>1. Clean(req, job) /\ Others(job') = Others(job)
      BY <2>1, <2>2, CleanSame
    <3>2. Same(job', cues, {job.aim})
      BY <1>2, <2>1, <3>1 DEF Same
    <3>3. Naming(req, job', cues)
      BY <1>2, <1>4, <2>1, <3>1, <3>2 DEF Naming, Forward
    <3>4. \A x \in Times \ Others(job') : Tells(req, job', x, job'.before[x])
      BY <1>2, <2>1, <3>1, TellsSame
    <3>5. Len(job'.results) = job'.at - 1 /\ ~Toggling(job')
      BY <1>2, <2>1, <3>1 DEF Toggling
    <3> QED
      BY <2>1, <3>3, <3>4, <3>5 DEF Located
  <2> QED
    BY <1>1, <2>1, <2>2, LocGoesOn
<1>5. CASE job.undoes /\ job.before[job.aim] = None
  BY <1>3, <1>5 DEF AsWished
<1>6. CASE job.undoes /\ job.before[job.aim] # None
  BY <1>4, <1>6 DEF AsWished
<1>7. CASE ~job.undoes /\ req.kind = "delete"
  BY <1>3, <1>7 DEF AsWished
<1>8. CASE ~job.undoes /\ req.kind # "delete"
  <2>1. job' = [job EXCEPT !.pc = "rename", !.held = job.aim, !.name = job.name, !.attempt = 0]
    BY <1>1, <1>8 DEF AsWished, Jobs
  <2> QED
    BY <1>4, <1>8, <2>1
<1> QED
  BY <1>5, <1>6, <1>7, <1>8

\* The toggle was snapped: what it has hit is to be toggled again.
LEMMA LocStray ==
  ASSUME LocInv, CueInv', At("wait"), ~Wished, ~job.undoes, OneAdded \/ OneRemoved,
         NEW x, x = CHOOSE t \in Added \cup Removed : TRUE,
         job' = Travel([job EXCEPT !.undoes = TRUE], x, "toggle"), pending' = GivenUp,
         UNCHANGED <<inTick, cues, playhead, req, replies>>
  PROVE  LocInv'
<1>1. /\ req \in Inputs /\ job \in Jobs /\ cues \in Sets /\ inTick /\ req # None
      /\ job.pc = "wait" /\ job.at \in DOMAIN req.items
      /\ Clean(req, job) => Located(req, job, cues, pending)
  <2>1. /\ req \in Inputs /\ job \in Jobs /\ cues \in Sets /\ inTick /\ req # None
        /\ job.pc = "wait" /\ Going(req, job) /\ DOMAIN req.items = 1..Len(req.items)
        /\ job.at \in Nat \ {0} /\ Len(req.items) \in Nat
        /\ Clean(req, job) => Located(req, job, cues, pending)
    BY LocNow DEF At
  <2> QED
    BY <2>1 DEF Going
<1>2. x \in Added \cup Removed /\ x \in Times
  <2>1. Added \cup Removed # {}
    BY FS_EmptySet DEF OneAdded, OneRemoved
  <2> QED
    BY <2>1 DEF Added, Removed, Present
<1> DEFINE j == [job EXCEPT !.undoes = TRUE]
<1>3. /\ j \in Jobs /\ j.at = job.at /\ j.results = job.results /\ j.before = job.before
      /\ j.began = job.began /\ j.touched = job.touched /\ j.undoes = TRUE
  BY <1>1 DEF Jobs
<1> HIDE DEF j
<1>4. /\ job'.pc = "position" /\ job'.then = "toggle" /\ job'.aim = x /\ job'.at = job.at
      /\ job'.results = job.results /\ job'.before = job.before /\ job'.began = job.began
      /\ job'.touched = job.touched /\ job'.undoes = TRUE
  <2>1. job' = Travel(j, x, "toggle")
    BY DEF j
  <2> QED
    BY <1>2, <1>3, <2>1, TravelJob, TravelKeeps
<1>5. ASSUME Clean(req, job') PROVE Located(req, job', cues, GivenUp)
  <2>1. Clean(req, job) /\ Others(job') = Others(job)
    BY <1>4, <1>5, CleanSame
  <2>2. Located(req, job, cues, pending) /\ Toggling(job) /\ Toggling(job')
    BY <1>1, <1>4, <2>1 DEF Toggling
  <2>3. Forward(req, job, cues, pending)
    BY <2>2 DEF Located
  <2>4. ~Turned(job, cues, job.aim)
    BY <2>3 DEF Wished, Turned, Forward
  <2>5. \A y \in Added \cup Removed : y = x
    <3>1. PICK o : Others(job) \subseteq {o}
      BY <1>1, <2>1, OthersAreOne DEF Clean
    <3>2. PICK p : Same(job, cues, {p})
      <4>1. Same(job, cues, {}) => Same(job, cues, {o})
        BY DEF Same
      <4> QED
        BY <2>3, <4>1 DEF Forward
    <3>3. Added \cup Removed \subseteq {o, p}
      BY <3>1, <3>2 DEF Same, Added, Removed, Present
    <3>4. Cardinality(Added \cup Removed) = 1
      <4>1. CASE OneAdded
        <5>1. Added \cup Removed = Added
          BY <4>1 DEF OneAdded
        <5> QED
          BY <4>1, <5>1 DEF OneAdded
      <4>2. CASE OneRemoved
        <5>1. Added \cup Removed = Removed
          BY <4>2 DEF OneRemoved
        <5> QED
          BY <4>2, <5>1 DEF OneRemoved
      <4> QED
        BY <4>1, <4>2
    <3> DEFINE S == Added \cup Removed
    <3>5. S \subseteq {o, p} /\ Cardinality(S) = 1 /\ x \in S
      BY <1>2, <3>3, <3>4
    <3> HIDE DEF S
    <3>6. \A y \in S : y = x
      BY <3>5, OneOfTwo, Zenon
    <3> QED
      BY <3>6 DEF S
  <2>6. /\ Turned(job, cues, x)
        /\ \/ Same(job, cues, {x}) /\ Grid[x] = x
           \/ Others(job) = {x} /\ Same(job, cues, {})
    BY <1>1, <1>2, <2>1, <2>3, <2>4, <2>5, StrayLocated
  <2>7. Turned(job', cues, x) /\ \A s : Same(job', cues, s) <=> Same(job, cues, s)
    <3>1. Turned(job', cues, x)
      BY <1>4, <2>6 DEF Turned
    <3>2. ASSUME NEW s PROVE Same(job', cues, s) <=> Same(job, cues, s)
      BY <1>4, <2>1 DEF Same
    <3> QED
      BY <3>1, <3>2
  <2>8. Reverse(job', cues, GivenUp)
    BY <1>4, <2>1, <2>6, <2>7 DEF Reverse
  <2>9. \A y \in Times \ Others(job') : Tells(req, job', y, job'.before[y])
    <3>1. \A y \in Times \ Others(job) : Tells(req, job, y, job.before[y])
      BY <2>2 DEF Located
    <3> QED
      BY <1>4, <2>1, <3>1, TellsSame
  <2>10. Len(job'.results) = job'.at - 1
    BY <1>4, <2>2 DEF Located
  <2> QED
    BY <1>4, <2>2, <2>8, <2>9, <2>10 DEF Located
<1> QED
  BY <1>1, <1>4, <1>5, LocGoesOn

LEMMA LocObserve ==
  ASSUME LocInv, CueInv', Observe
  PROVE  LocInv'
<1>1. At("wait") /\ inTick /\ req # None /\ job.pc = "wait" /\ UNCHANGED <<cues, playhead, req, replies>>
  BY DEF Observe, At, env
<1>2. ASSUME NEW outcome \in {"unexpected", "unavailable"}, job' = ItemEnds(job, outcome), pending' = GivenUp
      PROVE  LocInv'
  BY <1>1, <1>2, LocFails DEF Outcomes, Failed, Done
<1>3. CASE Wished
  <2>1. pending' = GivenUp /\ inTick' = inTick /\ job' \in {ItemEnds(job, "unexpected"), AsWished}
    BY <1>3 DEF Observe
  <2> QED
    BY <1>1, <1>2, <1>3, <2>1, LocWished
<1>4. CASE ~Wished /\ ~job.undoes /\ (Added # {} \/ Removed # {})
  <2> DEFINE x == CHOOSE t \in Added \cup Removed : TRUE
  <2>1. /\ pending' = GivenUp /\ inTick' = inTick
        /\ \/ job' = ItemEnds(job, "unexpected")
           \/ /\ OneAdded \/ OneRemoved
              /\ job' = Travel([job EXCEPT !.undoes = TRUE], x, "toggle")
    BY <1>4 DEF Observe
  <2>2. x = CHOOSE t \in Added \cup Removed : TRUE
    OBVIOUS
  <2> HIDE DEF x
  <2> QED
    BY <1>1, <1>2, <1>4, <2>1, <2>2, LocStray
<1>5. CASE ~Wished /\ ~(~job.undoes /\ (Added # {} \/ Removed # {})) /\ job.attempt < Ticks
  <2>1. NextTick(job) /\ UNCHANGED pending
    BY <1>5 DEF Observe
  <2>2. /\ job \in Jobs /\ PendingOK(req, job, pending)
        /\ Clean(req, job) => Located(req, job, cues, pending)
    BY <1>1, LocNow
  <2>3. /\ job'.pc = "wait" /\ job'.aim = job.aim /\ (Clean(req, job') <=> Clean(req, job))
        /\ (Located(req, job, cues, pending) => Located(req, job', cues, pending))
    BY <1>1, <2>1, <2>2, LocatedSame DEF NextTick, Jobs
  <2>4. PendingOK(req, job', pending)
    BY <1>1, <2>2, <2>3 DEF PendingOK
  <2> QED
    BY <1>1, <2>1, <2>2, <2>3, <2>4, LocContinues
<1>6. CASE ~Wished /\ ~(~job.undoes /\ (Added # {} \/ Removed # {})) /\ ~(job.attempt < Ticks)
  <2>1. job' = ItemEnds(job, "unavailable") /\ pending' = GivenUp
    BY <1>6 DEF Observe
  <2> QED
    BY <1>2, <2>1
<1> QED
  BY <1>3, <1>4, <1>5, <1>6

LEMMA LocInit == Init => LocInv
<1> SUFFICES ASSUME Init PROVE LocInv
  OBVIOUS
<1>1. CueInv
  BY CueInit
<1>2. req = None /\ pending = <<>> /\ replies = {}
  BY DEF Init
<1> QED
  BY <1>1, <1>2 DEF LocInv, PendingOK, RepliesTellTheLocators

LEMMA LocStep == LocInv /\ [Next]_vars => LocInv'
<1> SUFFICES ASSUME LocInv, [Next]_vars PROVE LocInv'
  OBVIOUS
<1>1. CueInv'
  BY CueStep DEF LocInv
<1>2. CASE UNCHANGED vars
  <2>1. UNCHANGED <<inTick, cues, playhead, pending, req, job, replies>>
    BY <1>2 DEF vars, song, env
  <2>2. RepliesTellTheLocators'
    BY <2>1, TruthfulAll, TruthfulAllNext DEF LocInv
  <2>3. /\ PendingOK(req', job', pending')
        /\ req' # None /\ job'.pc = "toggle" => inTick' /\ playhead' = job'.aim
        /\ req' # None /\ Clean(req', job') => Located(req', job', cues', pending')
    BY <2>1 DEF LocInv
  <2> QED
    BY <1>1, <2>2, <2>3 DEF LocInv
<1> QED
  BY <1>1, <1>2, LocTick, LocBegin, LocAbsent, LocStart, LocGoBack, LocPosition, LocToggle,
     LocObserve, LocRename, LocFinish, LocJump, LocRaises, LocJumpRaises, LocLive, LocUser
     DEF Next, Serve

\* However many items a request has, wherever Live's grid puts its toggles, and whichever
\* of them Live delays or drops: if the reply names nothing but successes and snapped
\* toggles, every locator is as it tells, and those hit by mistake are back under their
\* names.  One other place may be touched meanwhile. (cues.py, the reversal of snapped toggles)
THEOREM RepliesTellTheTruth == Spec => []RepliesTellTheLocators
<1>1. LocInv => RepliesTellTheLocators
  BY DEF LocInv
<1> QED
  BY <1>1, LocInit, LocStep, PTL DEF Spec
==============================================================================
