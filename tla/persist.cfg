\* Two torrents, two alerts waiting; what the properties exclude does not fail.
SPECIFICATION PSpec
CONSTANTS
    Hashes = {h1, h2}
    Blobs = {good, bad}
    Decodable = {good}
    Empty = Empty
    NoRow = NoRow
    None = None
    Faults = {"open", "begin", "statement", "rollback"}
    MaxEarly = 2
    MaxCrashes = 1
    MaxAlerts = 2
SYMMETRY Symmetry
INVARIANTS PTypeOK RemovedStaysRemoved RowsHaveTorrents AckedDurable SavedComesBack
PROPERTIES ImplementsCollection
CHECK_DEADLOCK FALSE
