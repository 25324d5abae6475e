CONSTANTS
    Width = 3
    MaxInt = 5
    DefaultLength = 2
    Specs <- MCSpecs
SPECIFICATION Spec
INVARIANTS FirstFit Disjoint CountsAgree HeldAllocatable FreeIsUntouched
