------------------------ MODULE MCInternalEndpoints ------------------------
\* Small instances of InternalEndpoints.
EXTENDS InternalEndpoints

CONSTANTS g1, g2, g3, i1, i2

\* Nothing depends on which port the switch chooses.
MCPortSymmetry == Permutations(Ports)

\* Three NF-FGs, two of them with both groups in different orders ...
MCThree == (g1 :> <<i1, i2>>) @@ (g2 :> <<i2, i1>>) @@ (g3 :> <<i1>>)

\* ... or one that has two endpoints in the same group.
MCTwice == (g1 :> <<i1, i1>>) @@ (g2 :> <<i1>>)
=============================================================================
