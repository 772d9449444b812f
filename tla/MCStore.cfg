CONSTANTS
    Sandboxes = {s1}
    Domains = {d1, d2}
    Edits = {e1, e2, e3}
    MaxFaults = 2
    Services = {"ssh_agent", "onepassword", "browser"}
    SshAgents = {"ssh_agent", "onepassword"}
    OnByDefault = {"browser"}
    Flagged = {"browser"}
    Panes = {t1, t2}
    Mounted = {"ssh_agent", "onepassword"}
    MaxRequests = 4
    NoService = "none"
SPECIFICATION MCSpec
SYMMETRY StoreSymmetry
INVARIANTS
    UpMeansLoaded DecisionsSpoken AlwaysPersists
    PaneShowsFile
PROPERTIES
    StartsAsShown
CHECK_DEADLOCK FALSE
