CONSTANTS
    Debug = FALSE
    MaxKeys = 1
SPECIFICATION Spec
INVARIANT
    MaskedStaysQuiet
