SPECIFICATION FairSpec
CONSTANTS
    Callers = {main, rest, other}
    MaxRegs = 3
INVARIANTS StoredSent SentOnce
PROPERTIES ListFixed Delivered

\* The process ends: terminate, or a failed assert.
CHECK_DEADLOCK FALSE
