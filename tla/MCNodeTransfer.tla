---------------------------- MODULE MCNodeTransfer ----------------------------
(***************************************************************************)
(* Values for the constants of NodeTransfer.                               *)
(***************************************************************************)
EXTENDS NodeTransfer

CONSTANTS c1, c2, c3

\* A file that comes in several chunks, and one without content; c3's does not exist.
MCSize == [c \in Client |-> CASE c = c1 -> 3 [] c = c2 -> 0 [] c = c3 -> NULL]

===============================================================================
