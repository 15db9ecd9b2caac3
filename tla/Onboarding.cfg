CONSTANTS
    kimA = kimA  kimB = kimB
    mailA = mailA  mailB = mailB
    kims = kims  demo = demo
    s1 = s1  s2 = s2  s3 = s3
    Profiles <- MCProfiles
    EmailOf <- MCEmailOf
    NameOf <- MCNameOf
    Emails = {mailA, mailB}
    Names = {kims, demo}
    Slugs = {s1, s2, s3}
    NoEmail = NoEmail
    Null = Null
    Registered <- MCRegistered
    Requests = {r1, r2, r3}
    MaxFaults = 1

SPECIFICATION FairSpec

INVARIANT TypeOK
INVARIANT PrivateTenants
INVARIANT RacesLeaveNoOrphan
PROPERTY BarredForGood
PROPERTY EventuallyEnds

\* Every request is made once: in the end nothing is left to do.
CHECK_DEADLOCK FALSE
