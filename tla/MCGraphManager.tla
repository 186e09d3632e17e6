-------------------------- MODULE MCGraphManager ---------------------------
(***************************************************************************)
(* Small instances of GraphManager.                                        *)
(***************************************************************************)
EXTENDS GraphManager

CONSTANTS p1, p2, n1, n2, t1, t2, i1, a, b, l1, l2, l3, l4

MCLinkSymmetry == Permutations(VLinks)

\* The pairs of nodes between which rules are supported.
Supported ==
    {q \in (Nodes \X Nodes) \ (Gres \X Gres \cup PhyPorts \X Internals \cup Internals \X Below) :
        q[1] # q[2]}

\* A rule whose identifier says what it does.  Rules to a network function carry a tag.
RuleOf(q, cls) ==
    [id |-> <<q, cls>>, from |-> q[1], cls |-> cls, to |-> q[2], tag |-> q[2] \in NFs]

\* Graphs of at most n rules, of which no two compete for a packet.
GraphsOf(n, candidates) ==
    {SetToSeq(S) :
        S \in {T \in UNION {kSubset(k, candidates) : k \in 0..n} :
                 \A r, q \in T : r # q => r.id # q.id /\ <<r.from, r.cls>> # <<q.from, q.cls>>}}

\* Ports and network functions only.
MCAcross ==
    GraphsOf(3, {RuleOf(q, a) : q \in PhyPorts \X NFs \cup NFs \X PhyPorts \cup {<<n1, n2>>, <<p1, p2>>}})

\* All kinds of nodes.
MCThree == GraphsOf(3, {RuleOf(q, a) : q \in Supported})

\* Few graphs, for the runs in which calls fail.
MCFew ==
    GraphsOf(2, {RuleOf(q, a) : q \in {<<p1, n1>>, <<n1, p1>>, <<p1, t1>>, <<t1, n1>>}})

\* A rule that changes its action, or its port, and keeps its identifier.
MCSameID == {<<[RuleOf(q, a) EXCEPT !.id = 1]>> : q \in {<<p1, n1>>, <<p1, n2>>}}

MCSamePort == {<<[RuleOf(q, a) EXCEPT !.id = 1]>> : q \in {<<p1, n1>>, <<p2, n1>>}}

\* Rules between two tunnels.
MCTunnels == GraphsOf(2, {RuleOf(q, a) : q \in {<<t1, n1>>, <<t1, t2>>, <<p1, t1>>}})

\* A rule from a tunnel to a port with a tag.
MCTagged == {<<>>, <<[RuleOf(<<t1, p1>>, a) EXCEPT !.tag = TRUE]>>}
=============================================================================
