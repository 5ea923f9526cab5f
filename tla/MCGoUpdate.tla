------------------------------ MODULE MCGoUpdate ------------------------------
(***************************************************************************)
(* Values for the constants of GoUpdate.                                   *)
(***************************************************************************)
EXTENDS GoUpdate

CONSTANTS c1, c2, c3

PerClient(v1, v2, v3) ==
    [c \in Client |-> CASE c = c1 -> v1 [] c = c2 -> v2 [] c = c3 -> v3]

\* File 1 is the server's, file 2 was left by an earlier run of c3.  Either may be missing.
MCFile == [n \in Name |-> IF n = 1 THEN <<1, 2>> ELSE <<2>>]

\* All ask for one file.  c1 and c2 run in the server's directory, c3 elsewhere.
MCWant == PerClient(1, 1, 1)
MCDest == PerClient(1, 1, 2)

===============================================================================
