\* One claim of an IP pool that is moved while the claim is served.
CONSTANTS
    Claims = {a}
    None = None
    Kind = "ip"
    IPs <- MCIPs
    Specs <- MCSpecs
    Timeouts = FALSE
    MaxLag = 1
    MaxChanges = 2
SPECIFICATION Spec
INVARIANT FreeIsUnallocated
CHECK_DEADLOCK FALSE
