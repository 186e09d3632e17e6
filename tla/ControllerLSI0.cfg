SPECIFICATION Spec
CONSTANTS
    g1 = g1
    g2 = g2
    m1 = m1
    m2 = m2
    p1 = p1
    p2 = p2
    none = none
    vlan = vlan
    Graphs = {g1, g2}
    RuleNums = {1, 2}
    Flows <- MCFlows
    FlowsOf <- OwnFlowsOf
    MaxBatch = 2
    MaxRules = 4
INVARIANTS TypeOK TableInSync RemovalFindsRule OthersKept
\* A thread that dereferences a NULL dpt ends the process.
CHECK_DEADLOCK FALSE
