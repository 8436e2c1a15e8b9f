SPECIFICATION Spec
CONSTANTS
    Writers = {w1}
    Memories = {1, 2}
    Lanes = {"core", "tool"}
    Sends = {}
    Losable = FALSE
    WriteWindow = 8
    ReadWindow = 8
    MaxWrites = 2
    MaxChain = 8
INVARIANTS
    ReadbackOwn
CHECK_DEADLOCK FALSE
