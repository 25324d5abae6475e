CONSTANTS
    c1 = c1
    c2 = c2
    f1 = f1
    None = None
    Claims = {c1}
    Foreign = {}
    Clustered = {}
    Graces = {TRUE}
    IPs = {1}
    Specs = {{1}}
    Timeouts = FALSE
    MaxChanges = 2
SPECIFICATION Spec
PROPERTY TeardownNotHeld
CHECK_DEADLOCK FALSE
