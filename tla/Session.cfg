CONSTANTS
    t1 = t1
    t2 = t2
    u1 = u1
    u2 = u2
    a1 = a1
    a2 = a2
    Tabs <- MCTabs
    Users <- MCUsers
    Admins <- MCAdmins
    None = None
    MaxActions = 5
    MaxExpiries = 1
    MaxFaults = 1

SPECIFICATION FairSpec

INVARIANT SessionsAreWhole
INVARIANT AloneAsksAsShown
PROPERTY AloneKeepsToken
PROPERTY EventuallyVerified

\* People may stop.
CHECK_DEADLOCK FALSE
