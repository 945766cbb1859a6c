\* Two torrents, four calls: adds, failed and repeated ones, and commands.
SPECIFICATION FairSpec
INVARIANTS TypeOK ListTracksSession NoDuplicateHandles ShownIsList NoTorrentUnseen
PROPERTIES CommandsHitWhatIsShown DartSeesAdd
CONSTANTS
    Hashes = {h1, h2}
    Invalid = Invalid
    Blank = Blank
    Garbage = Garbage
    MaxCalls = 4
CHECK_DEADLOCK FALSE
