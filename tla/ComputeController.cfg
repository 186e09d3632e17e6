SPECIFICATION Spec
CONSTANTS
    NFs <- MCNFs
    Offers <- MCOffers
    Need <- MCNeed
    NCores = 3
INVARIANTS Implemented MaskComplete CoresApart NoOrphan
PROPERTIES OthersRun RequestsEnd

\* A failed assert or undefined behaviour ends the process.
CHECK_DEADLOCK FALSE
