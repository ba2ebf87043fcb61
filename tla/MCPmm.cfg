CONSTANTS
    MemMaps <- MCMemMaps
    PtrsPerPage = 2
    Alias = {90}
SPECIFICATION Spec
INVARIANTS
    TypeOK
    StackFits
    ArrayReserved
    NoDoubleUse
    Conserved
PROPERTY
    IsAllocator
