CONSTANTS
    o1 = o1
    o2 = o2
    o3 = o3
    t1 = t1
    t2 = t2
    Ops <- MCOps
    Ids <- MCIds
    Tenants <- MCTenants
    Charges <- MCCharges
    Counts <- MCCounts
    PerLog = 2
    PerRequest = 1
    None = None
    MaxFailures = 1

SPECIFICATION Spec
SYMMETRY MCSymmetry

INVARIANT LedgerCoversTotals
INVARIANT LedgerExplainsAccount
PROPERTY ImplementsBook

\* The operations of an instance end.
CHECK_DEADLOCK FALSE
