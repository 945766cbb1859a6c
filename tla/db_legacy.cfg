\* The table of an older version.
SPECIFICATION Spec
CONSTANTS
    Hashes = {h1, h2}
    Blobs = {good}
    Decodable = {good}
    Empty = Empty
    NoRow = NoRow
    None = None
    Faults = {}
    MaxEarly = 0
    MaxCrashes = 0
INVARIANTS TableMigrated
CHECK_DEADLOCK FALSE
