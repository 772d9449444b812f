CONSTANTS
    Sandboxes = {s1}
    Domains = {d1}
    Edits = {e1, e2}
    Requests = {r1, r2, r3}
    Tabs = {t1}
    None = None
    MaxFaults = 1
SPECIFICATION Spec
SYMMETRY BrokerSymmetry
INVARIANTS BrokerTypeOK RegistryConsistent SameVerdict
CHECK_DEADLOCK FALSE
