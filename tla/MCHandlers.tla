----------------------------- MODULE MCHandlers -----------------------------
(***************************************************************************)
(* Three device chains: an instrument alone; two racks with a macro of the *)
(* same name; a rack with a device in its chain, which has the macro too.  *)
(***************************************************************************)
EXTENDS Handlers

Plugin == Device(<<"own", "volume">>, <<>>)
Rack(inner) == Device(<<"macro">>, <<Chain(inner)>>)
MCTrees == {<<Plugin>>, <<Rack(<<>>), Rack(<<<<"own">>>>)>>,
            <<Rack(<<<<"macro", "own", "macro">>>>), Plugin>>}
\* A ramp; points of one time in the middle and at the end; one step too many.
MCCurves == {<<0, 2>>, <<0, 1, 1, 3>>, <<0, 2, 2>>, <<0, 3, 5>>}

\* Up to two categories of up to two items with up to three below them; a shared item is
\* the same wherever it is.
Leaves == {Item("", TRUE, <<>>), Item("u", TRUE, <<>>), Item("v", FALSE, <<>>)}
Groups == {Item(uri, TRUE, kids) : uri \in {"", "g"},
             kids \in {<<k>> : k \in Leaves} \cup {<<k, Item("", TRUE, <<>>)>> : k \in Leaves}}
Many   == Item("", FALSE, <<Item("u", TRUE, <<>>), Item("v", FALSE, <<>>), Item("w", TRUE, <<>>)>>)
Deep(g) == Item("", FALSE, <<g>>)  \* brings a group under the depth of the search
Roots  == {<<a>> : a \in Leaves \cup Groups \cup {Many}} \cup {<<Deep(g), g>> : g \in Groups}
            \cup {<<a, b>> : a \in Leaves, b \in Leaves \cup Groups}
Everything(browser) == {p.item : p \in Places(browser, 3)}
MCBrowsers ==
  {b \in {<<Item("", FALSE, kids)>> : kids \in Roots}
           \cup {<<Item("", FALSE, kids), Item("", TRUE, more)>> : kids, more \in Roots} :
     \A x, y \in Everything(b) : x.uri = y.uri /\ x.uri # "" => x = y}

WithKids(items) == items \cup UNION {ToSet(i.kids) : i \in items}
MCItems == WithKids(WithKids(WithKids(UNION {ToSet(b) : b \in MCBrowsers})))

MCNotes == LET some == {Note(p, s, l) : p \in {60, 61}, s \in 0..2, l \in 1..3} IN
           {<<>>} \cup {<<a, b>> : a, b \in some} \cup {<<a, Note(60, 1, 1), b>> : a, b \in some}
MCPresets == <<"init", "pad", "pad">>
=============================================================================
