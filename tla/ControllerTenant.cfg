SPECIFICATION FairTenantSpec
CONSTANTS
    g1 = g1
    g2 = g2
    m1 = m1
    m2 = m2
    p1 = p1
    p2 = p2
    none = none
    vlan = vlan
    Graphs = {g1}
    RuleNums = {1, 2, 3}
    Flows <- MCFlows
    FlowsOf <- TenantFlowsOf
    MaxBatch = 2
    MaxRules = 3
PROPERTIES EventuallyInstalled ImplementsTable
\* A thread that dereferences a NULL dpt ends the process.
CHECK_DEADLOCK FALSE
