\* Both threads at once, in a block that is large enough for all of it.
SPECIFICATION Spec
CONSTANTS
    a = a
    b = b
    c = c
    Strings = {a}
    Key = Key
    Payload = Payload
    Junk = Junk
    Bytes <- MCBytes
    HashOf <- Distinct
    Size = 20
    MaxCap = 1
    MaxCalls = 2
INVARIANTS BoundArgumentsValid
CHECK_DEADLOCK FALSE
