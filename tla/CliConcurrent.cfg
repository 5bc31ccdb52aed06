SPECIFICATION Spec
CONSTANTS
    Clients = {c1, c2, c3}
    Commands <- AllCommands
    Word = 8
    MaxCommands = 4
INVARIANTS
    TypeOK
    CountAccounted
PROPERTIES
    OnlyOwnComponent
    CountsExactly
\* Users stop at the bound on commands, and then nothing runs.
CHECK_DEADLOCK FALSE
