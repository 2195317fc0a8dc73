CONSTANTS
    Node = {n0, n1, n2, n3}
    Faulty = {}
    Elected = n1
    Slow = {n3}
    Unhurried = {}
    SlowSpb = {n2}
    HeldRounds = {}
    Zero = n0
    NONE = NONE
    NoHash = NoHash
    MaxEpoch = 0
    MaxRound = 1
    Coins <- ElectedNext
    Missing <- SlowPayloads
SPECIFICATION FairPromptSpec
CHECK_DEADLOCK FALSE
PROPERTY EveryEpochCommitted
