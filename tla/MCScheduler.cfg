CONSTANTS
    MAX_PROCESSES = 3
    Procs = 4
    MaxAt = 2
    NULL = NULL
    Boot = Boot
SPECIFICATION Spec
INVARIANTS
    TypeOK
    TableSound
    NeverDropped
    OwnContextUntilExit
    ResumesWhereStopped
PROPERTIES
    BootNeverResumes
    DeadStaysDead
    Served
