CONSTANTS
    Node = {n0, n1, n2, n3}
    Faulty = {n0}
    Elected = n1
    Slow = {}
    Unhurried = {}
    SlowSpb = {}
    HeldRounds = {}
    Zero = n0
    NONE = NONE
    NoHash = NoHash
    MaxEpoch = 0
    MaxRound = 1
    Coins <- AllCoins
    Missing <- NoneMissing
SPECIFICATION Spec
ACTION_CONSTRAINT PromptSelf
SYMMETRY Perms
CHECK_DEADLOCK FALSE
INVARIANTS TypeOK Agreement CommitSupported CoinNeedsFinishQuorum HaltSupported
           NoStepMissed
