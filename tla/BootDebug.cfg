CONSTANTS
    Debug = TRUE
    MaxKeys = 1
SPECIFICATION Spec
INVARIANT
    NeverSpins
