CONSTANTS
    c1 = c1
    c2 = c2
    c3 = c3
    Client = {c1, c2}
    HasInfile = {c1, c2}
    Word <- MCWord
    File <- PairFile
    Out <- PairOut
    Md5 <- MCMd5
    NULL = NULL
    BUFSIZ = 4
    SplitHeader = TRUE
    OneAtATime = TRUE
    DiskFull = FALSE
    MaxFaults = 0
    Residue <- NoResidue

SPECIFICATION Spec

INVARIANT FinMeansStored

\* Clients and server may all have ended.
CHECK_DEADLOCK FALSE
