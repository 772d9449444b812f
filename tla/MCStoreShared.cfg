CONSTANTS
    Sandboxes = {s1, s2}
    Domains = {d1, d2}
    Edits = {e1, e2}
    MaxFaults = 0
SPECIFICATION StoreSpec
INVARIANT AlwaysPersists
CHECK_DEADLOCK FALSE
