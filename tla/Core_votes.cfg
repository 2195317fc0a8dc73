CONSTANTS
    Node = {n0, n1, n2, n3}
    Faulty = {}
    Elected = n2
    Slow = {n2, n3}
    Unhurried <- FreeVotes
    SlowSpb = {n1}
    HeldRounds = {1}
    Zero = n0
    NONE = NONE
    NoHash = NoHash
    MaxEpoch = 0
    MaxRound = 1
    Coins <- ElectedNext
    Missing <- NoneMissing
SPECIFICATION PromptSpec
ACTION_CONSTRAINT LockBeforeLeader
CHECK_DEADLOCK FALSE
INVARIANTS FinVoteConsistent CommitExcludesNo HaltsAgree
