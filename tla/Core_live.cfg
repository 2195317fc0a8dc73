CONSTANTS
    Node = {n0, n1, n2, n3}
    Faulty = {n0}
    Elected = n1
    Slow = {n3}
    Unhurried = {}
    SlowSpb = {}
    HeldRounds = {}
    Zero = n0
    NONE = NONE
    NoHash = NoHash
    MaxEpoch = 0
    MaxRound = 1
    Coins <- LastCoins
    Missing <- SlowPayloads
SPECIFICATION FairSpec
ACTION_CONSTRAINT PromptCalls
CHECK_DEADLOCK FALSE
PROPERTY EveryEpochCommitted
