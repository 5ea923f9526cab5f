CONSTANTS
    c1 = c1
    c2 = c2
    c3 = c3
    Client = {c1, c2, c3}
    Name = {1, 2}
    Word <- MCWord
    File <- MCFile
    Out <- MCOut
    HeadLen <- MCHeadLen
    ENCODE_SIZE = 2
    VARSIZE = 1
    BUFIO = 1
    MaxFaults = 1
    NULL = NULL

SPECIFICATION Spec

INVARIANT TypeOK
INVARIANT DataInPlace
INVARIANT WordsOfNamesakes
PROPERTY Transfer
PROPERTY Delivered

\* Clients may all have ended, and goroutines that spin change nothing.
CHECK_DEADLOCK FALSE
