CONSTANTS
    Sandboxes = {s1}
    Domains = {d1}
    Edits = {e1}
    Requests = {r1, r2}
    Tabs = {t1}
    None = None
    MaxFaults = 0
SPECIFICATION Spec
INVARIANT OnePopupPerDomain
CHECK_DEADLOCK FALSE
