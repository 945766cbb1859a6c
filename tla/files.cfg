\* Two torrents, four calls, and the files of torrents at any time between.
SPECIFICATION FSpec
SYMMETRY Symmetry
INVARIANTS FTypeOK FilesAreOfShown
CONSTANTS
    Hashes = {h1, h2}
    Invalid = Invalid
    Blank = Blank
    Garbage = Garbage
    Nothing = Nothing
    MaxCalls = 4
CHECK_DEADLOCK FALSE
