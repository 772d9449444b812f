CONSTANTS
    Sandboxes = {s1, s2}
    Tabs = {t1}
    Limit = 2
    MaxRows = 5
    MaxSockets = 3
    MaxResizes = 2
    Typists = {t1, t2}
    MaxMessages = 2
SPECIFICATION MCSpec
INVARIANTS
    OrderedOnce
    ListedWhileLive TabsShowWindow
    InputArrives FewConnections
PROPERTY LaterRowsShown
CHECK_DEADLOCK FALSE
