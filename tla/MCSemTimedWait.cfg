CONSTANTS
    w1 = w1
    w2 = w2
    p1 = p1
    Waiters <- MCWaiters
    Posters <- MCPosters
    PostsEach <- MCPostsEach
    InitCount <- MCInitCount
    MsSet <- MCMsSet
    SubMsNsec <- MCSubMsNsec
    Instants <- MCInstants
    CallInstants <- MCCallInstants
    MaxClockSets = 1

SPECIFICATION Spec

INVARIANT TypeOK
PROPERTY TimedWaitReturns
