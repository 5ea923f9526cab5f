CONSTANTS
    c1 = c1
    c2 = c2
    c3 = c3
    Client = {c1, c2, c3}
    HasInfile = {c1, c2}
    Word <- MCWord
    File <- MCFile
    Out <- MCOut
    Endpoint <- MCEndpoint
    NULL = NULL
    BUFSIZ = 2
    Window = 2
    CanOpen = {1}
    DiskFull = TRUE
    ReadError = TRUE
    MaxFaults = 1

SPECIFICATION FairSpec

PROPERTY EveryClientEnds
PROPERTY SomeFileArrives

\* Clients and server may all have ended.
CHECK_DEADLOCK FALSE
