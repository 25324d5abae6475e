CONSTANTS
    c1 = c1
    c2 = c2
    f1 = f1
    None = None
    Claims = {c1}
    Foreign = {}
    Clustered = {c1}
    Graces = {TRUE}
    IPs = {1}
    Specs = {{}, {1}}
    Timeouts = TRUE
    MaxChanges = 3
SPECIFICATION FairSpec
INVARIANTS TypeOK NeverForgotten PromptOnceFree
PROPERTIES ServedByEvents ServedAtLast
CHECK_DEADLOCK FALSE
