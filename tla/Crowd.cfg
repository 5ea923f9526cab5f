CONSTANTS
    c1 = c1
    c2 = c2
    c3 = c3
    Client = {c1, c2}
    HasInfile = {c1, c2}
    Word <- MCWord
    File <- CrowdFile
    Out <- CrowdOut
    Md5 <- MCMd5
    NULL = NULL
    BUFSIZ = 4
    SplitHeader = TRUE
    OneAtATime = FALSE
    DiskFull = TRUE
    MaxFaults = 1
    Residue <- MCResidue

SPECIFICATION Spec

INVARIANT HeadComesFirst
INVARIANT SentInOrder
INVARIANT StoredFromOneStream

\* Clients and server may all have ended.
CHECK_DEADLOCK FALSE
