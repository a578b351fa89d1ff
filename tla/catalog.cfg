SPECIFICATION Spec
CONSTANTS
    Source = {s1, s2}
    Data = {d1, d2}
    Check = {c1}
    Sync = {t1}
    Migrated = {d2}
    Handler = {h1, h2}
    MaxRequests = 3
    MaxFaults = 1
SYMMETRY Symmetry
INVARIANTS ReferencesResolve CatalogInv
CHECK_DEADLOCK FALSE
