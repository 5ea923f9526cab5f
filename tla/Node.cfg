CONSTANTS
    c1 = c1
    c2 = c2
    c3 = c3
    Client = {c1, c2, c3}
    Size <- MCSize
    MaxFaults = 2
    NULL = NULL

SPECIFICATION Spec

INVARIANT TypeOK
INVARIANT EachWordOnce
INVARIANT InOrderUnlessRaced
INVARIANT ThrownForBadClients
INVARIANT ExitMeansComplete
PROPERTY ClientsEnd

\* Clients may all have ended, or wait for ever for a file without content.
CHECK_DEADLOCK FALSE
