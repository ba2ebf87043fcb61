CONSTANTS
    Inits = {init}
    Others = {other}
    MaxBytes = 3
SPECIFICATION Spec
INVARIANTS
    TypeOK
    EachKeyOnce
    ShownWereTyped
PROPERTY
    KeyIsTaken
