CONSTANTS
    Node = {n0, n1, n2, n3}
    Faulty = {}
    Elected = n1
    Slow = {n3}
    Unhurried <- LateLeader
    SlowSpb = {n1}
    HeldRounds = {}
    Zero = n0
    NONE = NONE
    NoHash = NoHash
    MaxEpoch = 0
    MaxRound = 0
    Coins <- SlowLeader
    Missing <- SlowPayloads
SPECIFICATION PromptSpec
ACTION_CONSTRAINT LocksFirst
CHECK_DEADLOCK FALSE
INVARIANT Agreement
