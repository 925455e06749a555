CONSTANTS
    t1 = t1
    t2 = t2
    t3 = t3
    NoThread = NoThread
    OwnerDied = OwnerDied
    Threads <- MCThreads
    Mortal <- MCMortal
    TryLockers <- MCTryLockers
    Rounds <- MCRounds

SPECIFICATION Spec

INVARIANT OwnershipKnown
