CONSTANTS
    c1 = c1
    c2 = c2
    f1 = f1
    None = None
    Claims = {c1}
    Foreign = {}
    Clustered = {}
    Graces = {FALSE}
    IPs = {1}
    Specs = {{1}}
    Timeouts = TRUE
    MaxChanges = 1
SPECIFICATION Spec
PROPERTY PausedClaimsWait
CHECK_DEADLOCK FALSE
