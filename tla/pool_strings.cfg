\* Both threads: strings that hash alike, and one larger than the block.
SPECIFICATION Spec
CONSTANTS
    a = a
    b = b
    c = c
    Strings = {a, b, c}
    Key = Key
    Payload = Payload
    Junk = Junk
    Bytes <- MCBytes
    HashOf <- Colliding
    Size = 14
    MaxCap = 2
    MaxCalls = 2
PROPERTIES ImplementsArena
INVARIANTS AnswersRightUntilAnew
CHECK_DEADLOCK FALSE
