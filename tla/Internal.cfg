SPECIFICATION Spec
CONSTANTS
    g1 = g1
    g2 = g2
    g3 = g3
    i1 = i1
    i2 = i2
    Graphs = {g1, g2, g3}
    Groups = {i1, i2}
    EndpointsOf <- MCThree
    p1 = p1
    p2 = p2
    p3 = p3
    p4 = p4
    p5 = p5
    NoPort = NoPort
    Ports = {p1, p2, p3, p4, p5}
    Failures = {"createLsi", "destroyLsi", "addVirtualLink", "destroyVirtualLink", "lowerGraph"}
    MaxLinks = 2
SYMMETRY MCPortSymmetry
INVARIANTS StillConnected AssertsHold CountsGraphs

\* A failed assert ends the process, and the bound on ports may be reached.
CHECK_DEADLOCK FALSE
