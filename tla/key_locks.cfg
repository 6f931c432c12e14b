SPECIFICATION FairSpec
CONSTANTS
    Kid = {k1, k2}
    Process = {a, b, c}
    Commands <- LockingCommands
    None = None
PROPERTIES
    CommandsEnd
