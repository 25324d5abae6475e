\* Two claims of one pool, created, deleted and created again.
CONSTANTS
    Claims = {a, b}
    Adopted = {}
    None = None
    PoolOf <- MCPoolOf
    PoolSpecs <- MCPoolSpecs
    IPs <- MCIPs
    MaxLag = 2
    MaxBlind = 0
    MaxUID = 2
SPECIFICATION Spec
INVARIANTS TypeOK UniqueWhileSighted ReleasedBeforeClaim BoundClaimHasAddress UniqueInv
PROPERTIES AddressKept KeepsPromise
SYMMETRY MCSymmetry
