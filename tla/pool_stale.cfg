\* A string that was cached before the block began anew.
SPECIFICATION Spec
CONSTANTS
    a = a
    b = b
    c = c
    Strings = {a, b, c}
    Key = Key
    Payload = Payload
    Junk = Junk
    Bytes <- Thirds
    HashOf <- Distinct
    Size = 9
    MaxCap = 1
    MaxCalls = 2
INVARIANTS AnswersAreRight
CHECK_DEADLOCK FALSE
