SPECIFICATION Spec
CONSTANTS
    Node = {n0, n1, n2, n3}
    Root = n0
    NULL = NULL
    Name = {"a", "b"}
    U32 = 5
    Archives <- MCArchives
    Fd = {f1}
    Uids = {0, 1}
    Perms <- MCPerms
    Offsets = {1, 3}
    Sizes = {2}
    MaxOps = 4
    LONG_MAX = 4095
    Bodies <- MCBodies
INVARIANTS TypeOK TreeSound ArchiveMounted NothingDropped ReadsStayInside WildOnlyByMisuse StrtolExact
PROPERTY IsFileTree
SYMMETRY Symmetry
