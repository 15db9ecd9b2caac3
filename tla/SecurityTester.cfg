CONSTANTS
    Calls = {c1, c2}
    Seeds = {s1, s2}
    Tenants = {acme}
    Null = Null
    Statuses <- MCStatuses
    Payloads = 1
    SeedSize = 2
    MaxTests = 5
    MaxBegun = 2
    MaxFaults = 1

SPECIFICATION FairSpec

INVARIANT ResultIsLogged
INVARIANT OnlyTheRaceMisjudges
INVARIANT SeedsEmptyOnly
PROPERTY EventuallyAnswered

\* Every call is made once: in the end nothing is left to do.
CHECK_DEADLOCK FALSE
