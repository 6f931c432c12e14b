SPECIFICATION Spec
CONSTANTS
    Kid = {k1, k2}
    Process = {a, b}
    Commands <- AllCommands
    None = None
SYMMETRY Symmetry
INVARIANTS
    TypeOK
    NoOrphan
    ServerCanAnswer
    BackupComplete
