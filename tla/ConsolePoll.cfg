CONSTANTS
    Inits = {init}
    Others = {other}
    MaxBytes = 1
SPECIFICATION Spec
INVARIANT
    PollTellsTheTruth
