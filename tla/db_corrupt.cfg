\* A row that does not decode among the rows to load.
SPECIFICATION FairSpec
CONSTANTS
    Hashes = {h1, h2}
    Blobs = {good, bad}
    Decodable = {good}
    Empty = Empty
    NoRow = NoRow
    None = None
    Faults = {}
    MaxEarly = 0
    MaxCrashes = 0
PROPERTIES AllLoaded
CHECK_DEADLOCK FALSE
