SPECIFICATION Spec
CONSTANTS
    Writers = {w1, w2}
    Memories = {1, 2}
    Lanes = {"core", "tool"}
    Sends = {"refused", "timeout"}
    Losable = TRUE
    WriteWindow = 6
    ReadWindow = 6
    MaxWrites = 2
    MaxChain = 6
INVARIANTS
    TypeOK
    Recoverable
    ValidatedIsWhole
    Chained
CHECK_DEADLOCK FALSE
