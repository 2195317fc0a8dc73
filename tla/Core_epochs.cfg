CONSTANTS
    Node = {n0, n1, n2, n3}
    Faulty = {}
    Elected = n1
    Slow = {n3}
    Unhurried <- LateNews
    SlowSpb = {}
    HeldRounds = {}
    Zero = n0
    NONE = NONE
    NoHash = NoHash
    MaxEpoch = 1
    MaxRound = 0
    Coins <- LastCoins
    Missing <- SlowPayloads
SPECIFICATION PromptSpec
CHECK_DEADLOCK FALSE
INVARIANTS Agreement CommittedInOrder
