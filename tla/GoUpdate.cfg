CONSTANTS
    c1 = c1
    c2 = c2
    c3 = c3
    Client = {c1, c2, c3}
    Name = {1, 2}
    Word = {0, 1, 2}
    File <- MCFile
    Want <- MCWant
    Dest <- MCDest
    Direct = {c1}
    BUFIO = 2
    MaxFaults = 1
    NULL = NULL

SPECIFICATION Spec

INVARIANT TypeOK
INVARIANT ServedFilesKeepWords
INVARIANT NothingLost
INVARIANT OnlyTheTailIsLost
PROPERTY EveryClientEnds

\* Clients may all have ended.
CHECK_DEADLOCK FALSE
