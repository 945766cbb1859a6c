\* Both threads: a save whose pieces lie on both sides of a new beginning.
SPECIFICATION Spec
CONSTANTS
    a = a
    b = b
    c = c
    Strings = {a, b}
    Key = Key
    Payload = Payload
    Junk = Junk
    Bytes <- MCBytes
    HashOf <- Distinct
    Size = 14
    MaxCap = 2
    MaxCalls = 3
PROPERTIES ImplementsArena
INVARIANTS TypeOK InBlock StaticArgumentsStay
CHECK_DEADLOCK FALSE
