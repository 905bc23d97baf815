------------------------------- MODULE MCGroove -------------------------------
\* The instance of GrooveGenerate that TLC checks.
EXTENDS GrooveGenerate

\* Two of the three files hold the same bytes at the start; contents 2 and 3 score alike.
MCBefore == <<1, 1, 3>>
MCDeclarations == {<<2, 1, 1>>, <<2, 0, 2>>}
MCScores == <<1, 2, 2>>
CONSTANTS c1, c2
MCMaxCalls == (c1 :> 2) @@ (c2 :> 1)
\* Builders have no order.
MCSymmetry == Permutations(Builders)
===============================================================================
