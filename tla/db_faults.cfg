\* Every call may fail and the process may die once.
SPECIFICATION Spec
CONSTANTS
    Hashes = {h1, h2}
    Blobs = {good, bad}
    Decodable = {good}
    Empty = Empty
    NoRow = NoRow
    None = None
    Faults = {"open", "create", "select", "fetch", "post", "begin", "statement", "rollback", "commit"}
    MaxEarly = 2
    MaxCrashes = 1
SYMMETRY Symmetry
INVARIANTS TypeOK MutexAccounting
PROPERTIES ImplementsResumeMap EarlyReturnEndsTheLoad LegacyTableOnlyShrinks
CHECK_DEADLOCK FALSE
