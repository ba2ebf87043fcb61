CONSTANTS
    MAX_PROCESSES = 3
    Procs = 2
    MaxAt = 1
    NULL = NULL
    Boot = Boot
SPECIFICATION Spec
INVARIANT
    OwnContext
