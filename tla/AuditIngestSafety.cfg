CONSTANTS
    Uncategorized = Uncategorized
    DemoTenant = DemoTenant
    Acme = Acme
    NoHeader = NoHeader
    BadHeader = BadHeader
    Null = Null
    Tenants <- MCTenants
    Lines <- MCLines
    MaxLines = 3
    MaxCrashes = 1
    MaxTailFaults = 2
    MaxDbFaults = 1

SPECIFICATION Spec

INVARIANT TypeOK
INVARIANT OneFollower
INVARIANT StoredOnce
INVARIANT TrackedIsStored
PROPERTY ImplementsStore

\* The lines and the faults are bounded: in the end nothing is left to do.
CHECK_DEADLOCK FALSE
