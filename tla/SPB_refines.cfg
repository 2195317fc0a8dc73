CONSTANTS
    Node = {n1, n2, n3, n4}
    Faulty = {}
    Proposer = n1
    Retry = {}
SPECIFICATION FairSpec
CHECK_DEADLOCK FALSE
PROPERTIES ImplementsPB FinishesUnlessLost
