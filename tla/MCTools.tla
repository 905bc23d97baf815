------------------------------- MODULE MCTools -------------------------------
\* The instance of ExtensionTools that TLC checks.
EXTENDS ExtensionTools

MCChains == {
  <<>>, <<"instrument">>, <<"midi_effect", "audio_effect">>,
  <<"midi_effect", "instrument", "audio_effect">>}
CONSTANTS c1, c2, c3
\* Two calls for the chain, or three for the project.
MCPlans == {(c1 :> "load") @@ (c2 :> "load") @@ (c3 :> "done"), [c \in Calls |-> "project"]}
MCSymmetry == Permutations({c1, c2})
===============================================================================
