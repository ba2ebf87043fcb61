CONSTANTS
    Debug = FALSE
    MaxKeys = 3
SPECIFICATION Spec
INVARIANTS
    TypeOK
    NeverSpins
    NeverResets
PROPERTIES
    EndsItsOwn
    InitGetsTheCpu
    KeysAreRead
