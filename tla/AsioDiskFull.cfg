CONSTANTS
    c1 = c1
    c2 = c2
    c3 = c3
    Client = {c1, c2}
    HasInfile = {c1, c2}
    Word <- MCWord
    File <- MCFile
    Out <- MCOut
    Endpoint <- MCEndpoint
    NULL = NULL
    BUFSIZ = 2
    Window = 3
    CanOpen = {1, 2}
    DiskFull = TRUE
    ReadError = FALSE
    MaxFaults = 1

SPECIFICATION Spec

INVARIANT EofMeansStored

\* Clients and server may all have ended.
CHECK_DEADLOCK FALSE
