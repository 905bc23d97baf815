------------------------------- MODULE Reads -------------------------------
(***************************************************************************)
(* Two reads of the Remote Script that compute: the search in Live's       *)
(* browser (reads.py) and the notes of a clip that overlap                 *)
(* (composition.py).  Each is done in one tick.                            *)
(*                                                                         *)
(* An item of the browser has a uri, "" if Live gives none, and children;  *)
(* hit says that its name contains the query.  An item may be listed at    *)
(* several places: a plugin among the plugins and in the user's library.   *)
(***************************************************************************)
EXTENDS Integers, Sequences, FiniteSets, SequencesExt

CONSTANTS
  Items,       \* what Live's browser may list
  MaxFound,    \* the highest limit of a search (200)
  MaxDepth,    \* the depth of a search may be 1 to this (5)
  ChildLimit,  \* children of an item that are looked at (500)
  VisitLimit   \* items that are looked at (5000)

ASSUME ReadsAssumption ==
  /\ Items \subseteq [uri : STRING, hit : BOOLEAN, kids : Seq(Items)]
  /\ {MaxFound, MaxDepth, ChildLimit, VisitLimit} \subseteq Nat \ {0}

Item(uri, hit, kids) == [uri |-> uri, hit |-> hit, kids |-> kids]

\* An item at a place: its category, and the positions that lead there from its root.
Entry(item, cat, at) == [item |-> item, cat |-> cat, at |-> at]

\* Mutant: items without a uri are told apart by their positions only.
KeyOfPositions(e) == IF e.item.uri # "" THEN [uri |-> e.item.uri, cat |-> 0, at |-> <<>>]
                     ELSE [uri |-> "", cat |-> 0, at |-> e.at]

\* How a visited item is known: Live makes a new wrapper at each access.
Key(e) == IF e.item.uri # "" THEN [uri |-> e.item.uri, cat |-> 0, at |-> <<>>]
          ELSE [uri |-> "", cat |-> e.cat, at |-> e.at]

Children(e) == LET kids == e.item.kids IN
  [i \in 1..(IF Len(kids) < ChildLimit THEN Len(kids) ELSE ChildLimit) |->
     Entry(kids[i], e.cat, Append(e.at, i))]

\* The top of the stack is visited; a root is no match.
Visit(s, depth) ==
  LET e == Head(s.stack) IN
  IF Key(e) \in s.visited THEN [s EXCEPT !.stack = Tail(@)]
  ELSE [s EXCEPT
          !.stack   = (IF Len(e.at) < depth THEN Children(e) ELSE <<>>) \o Tail(@),
          !.visited = @ \cup {Key(e)},
          !.found   = IF e.at # <<>> /\ e.item.hit THEN Append(@, e) ELSE @]

\* The categories come one after the other; what was visited in one is not visited again.
NextCategory(s, browser) ==
  [s EXCEPT !.cat = @ + 1, !.stack = <<Entry(browser[s.cat + 1], s.cat + 1, <<>>)>>]

Stopped(s, limit) == Len(s.found) >= limit \/ Cardinality(s.visited) >= VisitLimit
Ended(s, browser, limit) == Stopped(s, limit) \/ (s.stack = <<>> /\ s.cat = Len(browser))

Turn(s, browser, limit, depth) ==
  IF Ended(s, browser, limit) THEN s
  ELSE IF s.stack = <<>> THEN NextCategory(s, browser) ELSE Visit(s, depth)

\* No more than VisitLimit items are new, and each of them puts no more than ChildLimit on
\* the stack: so many turns are enough.
Turns(browser) == 2 * Len(browser) + ChildLimit * VisitLimit

Search(browser, limit, depth) ==
  LET after[n \in Nat] ==
        IF n = 0 THEN [cat |-> 0, stack |-> <<>>, visited |-> {}, found |-> <<>>]
        ELSE Turn(after[n - 1], browser, limit, depth)
  IN after[Turns(browser)]

\* A limit out of range is brought into it, a depth out of range is refused; category 0
\* stands for all of them.
LimitOf(c)  == IF c.limit < 1 THEN 1 ELSE IF c.limit > MaxFound THEN MaxFound ELSE c.limit
DepthIsValid(c) == c.depth \in 1..MaxDepth
Selected(c) == IF c.category = 0 THEN c.browser ELSE <<c.browser[c.category]>>

------------------------------------------------------------------------------
Note(pitch, start, length) == [pitch |-> pitch, start |-> start, length |-> length]

\* Of each pitch, the notes are sorted by their starts, and the sort is stable.
Sooner(notes, i, j) ==
  /\ notes[i].pitch = notes[j].pitch
  /\ notes[i].start < notes[j].start \/ (notes[i].start = notes[j].start /\ i < j)
\* A note, and the next one of its pitch.
Neighbours(notes) ==
  {p \in (DOMAIN notes) \X (DOMAIN notes) :
     /\ Sooner(notes, p[1], p[2])
     /\ ~\E k \in DOMAIN notes : Sooner(notes, p[1], k) /\ Sooner(notes, k, p[2])}
OverlapsCount(notes) ==
  Cardinality({p \in Neighbours(notes) :
                 notes[p[2]].start < notes[p[1]].start + notes[p[1]].length})

------------------------------------------------------------------------------
\* All places within the depth, of the children that are looked at.
Places(browser, depth) ==
  LET level[n \in Nat] == IF n = 0 THEN {Entry(browser[cat], cat, <<>>) : cat \in DOMAIN browser}
                          ELSE UNION {ToSet(Children(e)) : e \in level[n - 1]}
  IN UNION {level[n] : n \in 0..depth}

\* A uri stands for one item, wherever that is listed.
UrisAreUnique(browser, depth) ==
  \A p, q \in Places(browser, depth) :
    p.item.uri = q.item.uri /\ p.item.uri # "" => p.item = q.item

\* The items on the way to a place, with it.
OnTheWay(e, places) == {p \in places : p.cat = e.cat /\ IsPrefix(p.at, e.at)}

\* A search lists no item twice and none that does not match; and if it was not stopped by
\* a limit it lists every match, where it is or, if something on the way is shared, where
\* that is first met, unless that is at another depth: the search may have been there
\* with its depth exhausted (reads.py:348-390).
SearchComplete(browser, limit, depth) ==
  LET s == Search(browser, limit, depth)
      places == Places(browser, depth)
      Again(p) == {q \in places \ {p} : q.item = p.item /\ p.item.uri # ""}
  IN /\ \A i, j \in DOMAIN s.found : i # j => Key(s.found[i]) # Key(s.found[j])
     /\ \A i \in DOMAIN s.found : s.found[i] \in places /\ s.found[i].item.hit
     /\ Len(s.found) <= limit
     /\ ~Stopped(s, limit) =>
          \A e \in {p \in places : p.at # <<>> /\ p.item.hit} :
            LET again == UNION {Again(p) : p \in OnTheWay(e, places)} IN
            \/ \E i \in DOMAIN s.found : s.found[i].item = e.item /\ (again = {} => s.found[i] = e)
            \/ \E p \in OnTheWay(e, places) : \E q \in Again(p) : Len(q.at) # Len(p.at)

\* A clip has overlapping notes, two of one pitch that sound at once, if and only if some
\* are counted, although only neighbours are compared (composition.py:101-107).
OverlapsSeen(notes) ==
  OverlapsCount(notes) > 0 <=>
    \E i, j \in DOMAIN notes : /\ i # j /\ notes[i].pitch = notes[j].pitch
                               /\ notes[i].start <= notes[j].start
                               /\ notes[j].start < notes[i].start + notes[i].length
=============================================================================
