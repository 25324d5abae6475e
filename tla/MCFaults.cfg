\* Lost answers and a wait that times out; one claim takes over an unmanaged
\* address.
CONSTANTS
    Claims = {a, b}
    Adopted = {a}
    None = None
    PoolOf <- MCPoolOf
    PoolSpecs <- MCPoolSpecs
    IPs <- MCIPs
    MaxLag = 2
    MaxBlind = 1
    MaxUID = 1
SPECIFICATION Spec
INVARIANTS UniqueWhileSighted BoundClaimHasAddress ReleasedOrMarked
PROPERTY AddressKept
