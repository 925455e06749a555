CONSTANTS
    r1 = r1
    r2 = r2
    w1 = w1
    w2 = w2
    NoThread = NoThread
    Readers <- MCReaders
    Writers <- MCWriters
    Rounds = 2
SPECIFICATION Spec
INVARIANTS TypeOK NoTornRead NoLostUpdate
PROPERTY Termination
