CONSTANTS
    Sandboxes = {s1, s2}
    Domains = {d1}
    Edits = {e1}
    Requests = {r1, r2}
    Tabs = {t1}
    None = None
    MaxFaults = 1
SPECIFICATION FairSpec
INVARIANTS AlwaysApplies PopupsHaveRows
PROPERTIES ImplementsGate EveryRequestAnswered EveryClickAnswered
CHECK_DEADLOCK FALSE
