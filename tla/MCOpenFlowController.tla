------------------------ MODULE MCOpenFlowController ------------------------
\* Small instances of the OpenFlow controller.
EXTENDS OpenFlowController
CONSTANTS g1, g2, m1, m2, p1, p2, none, vlan

Flow(m, p, x) == [match |-> m, out |-> p, extra |-> x]

\* One action per match.
MCFlows == {Flow(m1, p1, none), Flow(m2, p2, none)}

\* Two actions compete for the match m1: they differ in the port ...
PortFlows == {Flow(m1, p1, none), Flow(m1, p2, none)}

\* ... or only in the generic actions.
VlanFlows == {Flow(m1, p1, none), Flow(m1, p1, vlan)}

\* One NF-FG, on its tenant LSI.
TenantFlowsOf == [g \in {g1} |-> Flows]

\* Two NF-FGs on LSI-0 that use different traffic ...
OwnFlowsOf == [g \in {g1, g2} |-> {f \in Flows : f.match = (IF g = g1 THEN m1 ELSE m2)}]

\* ... or that may both connect the same two physical ports.
SharedFlowsOf == [g \in {g1, g2} |-> Flows]
=============================================================================
