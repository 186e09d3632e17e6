SPECIFICATION Spec
CONSTANTS
    g1 = g1
    g2 = g2
    m1 = m1
    m2 = m2
    p1 = p1
    p2 = p2
    none = none
    vlan = vlan
    Graphs = {g1, g2}
    RuleNums = {1, 2}
    Flows <- PortFlows
    FlowsOf <- SharedFlowsOf
    MaxBatch = 2
    MaxRules = 3
INVARIANTS NoStaleFlow FlowsJustified
\* A thread that dereferences a NULL dpt ends the process.
CHECK_DEADLOCK FALSE
