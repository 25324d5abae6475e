CONSTANTS
    Managers = {m, n}
    Claims = {a, b, c}
    IPs = {1, 2}
    None = None
    MaxLag = 3
SPECIFICATION Spec
INVARIANTS TypeOK UniqueUnlessStrayed
SYMMETRY MCSymmetry
