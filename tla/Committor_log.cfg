CONSTANTS
    Proposer = {n1, n2}
    MaxEpoch = 3
    NoBlock = NoBlock
    CallBackCap = 2
SPECIFICATION CommitFairSpec
INVARIANT HandedOverInStep
PROPERTIES ImplementsLog EveryReadyCommitted
