\* Two claims of a prefix pool; its range is moved, it is deleted and created again.
CONSTANTS
    Claims = {a, b}
    None = None
    Kind = "prefix"
    IPs <- MCIPs
    Specs <- MCSpecs
    Timeouts = TRUE
    MaxLag = 2
    MaxChanges = 3
SPECIFICATION FairSpec
INVARIANTS TypeOK ProtectedUnlessCrossed InRangeUnlessCrossed QuietIsCounted FreeUnlessBlind
PROPERTIES StatusConverges DeletedPoolGoes 
CHECK_DEADLOCK FALSE
