CONSTANTS
    Width = 3
    MaxInt = 4
    Malformed = Malformed
    None = None
    V1Specs <- MCV1Specs
    V2Specs <- MCV2Specs
    Gateways = {1, 5}
    Counts = {0, 3}
SPECIFICATION Spec
INVARIANTS ReadsBack FreshUnlessGlobal
