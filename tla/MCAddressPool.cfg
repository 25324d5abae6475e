CONSTANTS
    Width = 3
    MaxInt = 4
    Specs <- MCSpecs
SPECIFICATION Spec
INVARIANTS FirstFit HeldAllocatable CountsAgree
