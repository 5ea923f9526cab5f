CONSTANTS
    c1 = c1
    c2 = c2
    c3 = c3
    Client = {c1, c2}
    HasInfile = {c1, c2}
    Word <- MCWord
    File <- PairFile
    Out <- PairOut
    Md5 <- MCMd5
    NULL = NULL
    BUFSIZ = 4
    SplitHeader = FALSE
    OneAtATime = TRUE
    DiskFull = FALSE
    MaxFaults = 0
    Residue <- MCResidue

SPECIFICATION FairSpec

PROPERTY Finishes

\* Clients and server may all have ended.
CHECK_DEADLOCK FALSE
