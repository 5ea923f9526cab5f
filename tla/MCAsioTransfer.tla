---------------------------- MODULE MCAsioTransfer ----------------------------
(***************************************************************************)
(* Values for the constants of AsioTransfer.  Words 1 and 2 are names, the *)
(* others content.                                                         *)
(***************************************************************************)
EXTENDS AsioTransfer

CONSTANTS c1, c2, c3

MCWord == 0..7

Three(v1, v2, v3) == [c \in Client |-> IF c = c1 THEN v1 ELSE IF c = c2 THEN v2 ELSE v3]

\* A file that fills two blocks, one that ends inside a block, one without bytes.
MCFile == Three(<<7, 6, 7, 6>>, <<4, 5, 6>>, <<>>)

\* Three names, and two clients that send the same one.
MCOut   == Three(1, 2, 3)
SameOut == Three(1, 2, 1)

\* The server listens on the second of c1's two addresses, as on IPv4 beside IPv6.
MCEndpoint == Three(<<FALSE, TRUE>>, <<TRUE>>, <<TRUE>>)

===============================================================================
