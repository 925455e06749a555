CONSTANTS
    t1 = t1
    t2 = t2
    Threads <- MCThreads
    ArgLens <- MCArgLens
    MaxCalls = 3
    MaxRows = 1
SPECIFICATION Spec
INVARIANT QuerySentIsFormatted
