CONSTANTS
    c1 = c1
    c2 = c2
    f1 = f1
    None = None
    Claims = {f1}
    Foreign = {f1}
    Clustered = {f1}
    Graces = {FALSE}
    IPs = {1}
    Specs = {{1}}
    Timeouts = TRUE
    MaxChanges = 1
SPECIFICATION Spec
INVARIANT ForeignClaimsIgnored
CHECK_DEADLOCK FALSE
