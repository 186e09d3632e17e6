SPECIFICATION Spec
CONSTANTS
    p1 = p1
    p2 = p2
    n1 = n1
    n2 = n2
    t1 = t1
    t2 = t2
    i1 = i1
    a = a
    b = b
    l1 = l1
    l2 = l2
    l3 = l3
    l4 = l4
    NoPort = NoPort
    AnyClass = AnyClass
    Classes = {a, b}
    PhyPorts = {p1}
    NFs = {n1}
    Gres = {t1}
    Internals = {i1}
    Requests <- MCThree
    VLinks = {l1, l2, l3, l4}
    Failures = {}
SYMMETRY MCLinkSymmetry
INVARIANTS UpdateDone KeptTraffic AssertsHold

