CONSTANTS
    Sandboxes = {s1, s2}
    Tabs = {t1}
    Limit = 2
    MaxRows = 5
SPECIFICATION Spec
INVARIANT NothingSkipped
CHECK_DEADLOCK FALSE
