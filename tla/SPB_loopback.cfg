CONSTANTS
    Node = {n1, n2, n3, n4}
    Faulty = {}
    Proposer = n1
    Retry = {n2}
SPECIFICATION Spec
SYMMETRY Replicas
CHECK_DEADLOCK FALSE
INVARIANTS VotesCountedOnce LockImpliesHash FinishImpliesLockQuorum
