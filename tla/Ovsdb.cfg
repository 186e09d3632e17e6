SPECIFICATION Spec
CONSTANTS
    PhyPorts = {1}
    NFs = {{1, 2}}
    Veth = {2}
    Endpoints = {1}
    Faults = {"connect", "send", "refuse", "lose"}
    MaxFaults = 1
    MaxLSIs = 3
    MaxPorts = 6
    MaxLinks = 2
INVARIANTS NumbersUnique SwitchAsTold PhysicalKept
PROPERTY OthersLinked

\* The process may end, and the bound on ports may be reached.
CHECK_DEADLOCK FALSE
