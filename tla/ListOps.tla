------------------------------- MODULE ListOps --------------------------------
(***************************************************************************)
(* What the models need of lists (std::list and std::vector) beyond the    *)
(* standard operators on sequences.                                        *)
(***************************************************************************)
EXTENDS Integers, Sequences, FiniteSetsExt, Functions, TLC

\* The list without its i-th element (erase).
RemoveAt(s, i) ==
    [j \in 1 .. Len(s) - 1 |-> IF j < i THEN s[j] ELSE s[j + 1]]

\* The orders in which the elements of a finite set can be visited.
SetToSeqs(S) ==
    {s \in [1 .. Cardinality(S) -> S] : IsInjective(s)}

\* One of them.
SetToSeq(S) ==
    CHOOSE s \in SetToSeqs(S) : TRUE

\* The lists of a list, one after the other.
FlattenSeq(ss) ==
    LET upTo[k \in 0 .. Len(ss)] == IF k = 0 THEN <<>> ELSE upTo[k - 1] \o ss[k]
    IN  upTo[Len(ss)]
=============================================================================
