CONSTANTS
    Tenants = {t1}
    Callbacks = {c1, c2, c3}
    Null = Null
    MaxMonth = 0

SPECIFICATION Spec
SYMMETRY Symmetry

INVARIANT EveryRequestCounted

CHECK_DEADLOCK FALSE
