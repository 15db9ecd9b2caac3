CONSTANTS
    Uncategorized = Uncategorized
    DemoTenant = DemoTenant
    Acme = Acme
    NoHeader = NoHeader
    BadHeader = BadHeader
    Null = Null
    Tenants <- MCTenants
    Lines <- MCLines
    MaxLines = 2
    MaxCrashes = 1
    MaxTailFaults = 1
    MaxDbFaults = 1
    MaxMonth = 1

SPECIFICATION MeteredFairSpec

INVARIANT NeverAheadOfDocs
PROPERTY StoredIsMetered
PROPERTY EventuallyFollows
PROPERTY EventuallySettled
PROPERTY EventuallyDelivered

\* The lines and the faults are bounded: in the end nothing is left to do.
CHECK_DEADLOCK FALSE
