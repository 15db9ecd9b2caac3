CONSTANTS
    Tenants = {t1, t2}
    Callbacks = {c1, c2, c3}
    Null = Null
    MaxMonth = 2

SPECIFICATION FairSpec

INVARIANT NeverOvercounts
INVARIANT ExactWhenSerial
PROPERTY EventuallyMetered

\* Every callback is scheduled once: in the end nothing is left to do.
CHECK_DEADLOCK FALSE
