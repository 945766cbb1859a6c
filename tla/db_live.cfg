\* The load's calls may fail, and the process; both threads go on.
SPECIFICATION FairSpec
CONSTANTS
    Hashes = {h1, h2}
    Blobs = {good}
    Decodable = {good}
    Empty = Empty
    NoRow = NoRow
    None = None
    Faults = {"open", "create", "select", "rollback"}
    MaxEarly = 2
    MaxCrashes = 1
INVARIANTS LoadMissesNothing
PROPERTIES LoadTerminates ImplementsResumeMap
CHECK_DEADLOCK FALSE
