CONSTANTS
    c1 = c1
    c2 = c2
    c3 = c3
    Client = {c1, c2, c3}
    HasInfile = {c1, c2, c3}
    Word <- MCWord
    File <- OrderlyFile
    Out <- OrderlyOut
    Md5 <- MCMd5
    NULL = NULL
    BUFSIZ = 4
    SplitHeader = FALSE
    OneAtATime = TRUE
    DiskFull = TRUE
    MaxFaults = 2
    Residue <- NoResidue

SPECIFICATION Spec

INVARIANT TypeOK
INVARIANT FinMeansStored
INVARIANT FrameIsCurrent
INVARIANT NoRequestStranded
PROPERTY Transfer

\* Clients and server may all have ended.
CHECK_DEADLOCK FALSE
