CONSTANTS
    n0 = n0
    n1 = n1
    n2 = n2
    Node <- MCNode
    Block <- TwoBlocks
    Batches <- MCBatches
    MaxQueenSize = 2
    MaxPayloadSize = 2
    Verifier = {n0}
    InterCap = 1
    Breakable <- MCBreakable
    MaxFaults = 1
SPECIFICATION FairSpec
INVARIANTS TypeOK WaitWatched DoneIsComplete ProposedOnce
PROPERTIES ImplementsFetch WaitLoopedBack
ACTION_CONSTRAINT QueueFirst
CHECK_DEADLOCK FALSE
