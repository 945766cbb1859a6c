\* One statement fails.
SPECIFICATION Spec
CONSTANTS
    Hashes = {h1, h2}
    Blobs = {good}
    Decodable = {good}
    Empty = Empty
    NoRow = NoRow
    None = None
    Faults = {"statement"}
    MaxEarly = 1
    MaxCrashes = 0
INVARIANTS MutexReleased
CHECK_DEADLOCK FALSE
