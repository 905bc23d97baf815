----------------------------- MODULE Parameters -----------------------------
(***************************************************************************)
(* Which parameter of a track an address means: devices.py resolves it for *)
(* set_parameter_value and get_parameter_value, automation.py for the      *)
(* three envelope commands.                                                *)
(*                                                                         *)
(* A device has parameters and, if it is a rack, chains; a chain has a     *)
(* mixer and devices of its own.  Names need not be unique: every rack has *)
(* a macro of the same name.  Places count from 1; None is an index that   *)
(* is not given.                                                           *)
(***************************************************************************)
EXTENDS Integers, Sequences, FiniteSets

None == 0

Chain(inner)           == [inner |-> inner]          \* names of each device in it
Device(params, chains) == [params |-> params, chains |-> chains]

\* Where a parameter is: device and chain are None for the track's own mixer, inner
\* for the mixer of a chain.  A mixer's parameters are at the place of their names.
Place(dev, chain, inner, pos) == [dev |-> dev, chain |-> chain, inner |-> inner, pos |-> pos]
Nowhere == Place(None, None, None, None)

Mixer == <<"volume", "panning">>

Positions(names, name) == {i \in DOMAIN names : names[i] = name}

\* The first parameter of the name.
Named(names, name, dev, chain, inner) ==
  LET found == Positions(names, name) IN
  IF found = {} THEN Nowhere
  ELSE Place(dev, chain, inner, CHOOSE i \in found : \A j \in found : i <= j)

\* A chain's mixer, or a device in the chain.
InChain(tree, a) ==
  IF a.chain \notin DOMAIN tree[a.dev].chains THEN Nowhere
  ELSE LET chain == tree[a.dev].chains[a.chain] IN
       IF a.inner = None THEN Named(Mixer, a.name, a.dev, a.chain, None)
       ELSE IF a.inner \notin DOMAIN chain.inner THEN Nowhere
       ELSE Named(chain.inner[a.inner], a.name, a.dev, a.chain, a.inner)

\* devices.py.  The device has to be given.
ForValue(tree, a) ==
  IF a.dev \notin DOMAIN tree THEN Nowhere
  ELSE IF a.chain = None THEN Named(tree[a.dev].params, a.name, a.dev, None, None)
  ELSE InChain(tree, a)

Candidates(tree, a) ==
  UNION {{Place(d, None, None, i) : i \in Positions(tree[d].params, a.name)} :
           d \in IF a.dev = None THEN DOMAIN tree ELSE DOMAIN tree \cap {a.dev}}

\* Mutant: the first device that has the name.
ForEnvelopeFirst(tree, a) ==
  IF Positions(Mixer, a.name) # {} THEN Named(Mixer, a.name, None, None, None)
  ELSE IF a.chain # None
         THEN IF a.dev \notin DOMAIN tree THEN Nowhere ELSE InChain(tree, a)
  ELSE IF Candidates(tree, a) # {}
         THEN CHOOSE p \in Candidates(tree, a) : \A q \in Candidates(tree, a) : p.dev <= q.dev
         ELSE Nowhere

\* automation.py.  A mixer's name is the track's mixer, whatever else the address says;
\* a name that several devices carry is refused.
ForEnvelope(tree, a) ==
  IF Positions(Mixer, a.name) # {} THEN Named(Mixer, a.name, None, None, None)
  ELSE IF a.chain # None
         THEN IF a.dev \notin DOMAIN tree THEN Nowhere ELSE InChain(tree, a)
  ELSE IF Cardinality(Candidates(tree, a)) = 1
         THEN CHOOSE p \in Candidates(tree, a) : TRUE
         ELSE Nowhere
=============================================================================
