CONSTANTS
    c1 = c1
    c2 = c2
    c3 = c3
    Client = {c1, c2, c3}
    HasInfile = {c1, c2, c3}
    Word <- MCWord
    File <- MCFile
    Out <- SameOut
    Endpoint <- MCEndpoint
    NULL = NULL
    BUFSIZ = 2
    Window = 3
    CanOpen = {1, 2}
    DiskFull = FALSE
    ReadError = FALSE
    MaxFaults = 2

SPECIFICATION Spec

INVARIANT TypeOK
INVARIANT NothingLost
INVARIANT EofMeansStored
PROPERTY Transfer

\* Clients and server may all have ended.
CHECK_DEADLOCK FALSE
