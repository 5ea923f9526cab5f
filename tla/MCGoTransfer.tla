----------------------------- MODULE MCGoTransfer -----------------------------
(***************************************************************************)
(* Values for the constants of GoTransfer.                                 *)
(***************************************************************************)
EXTENDS GoTransfer

CONSTANTS c1, c2, c3

MCWord == 0..3

PerClient(v1, v2, v3) ==
    [c \in Client |-> CASE c = c1 -> v1 [] c = c2 -> v2 [] c = c3 -> v3]

\* c1 and c2 send one name; c3's file ends in what an unwritten slice holds.
MCFile == PerClient(<<1, 2>>, <<3>>, <<2, 0>>)
MCOut  == PerClient(1, 1, 2)

\* c3's header has more than one word, so that it may arrive in parts.
MCHeadLen == PerClient(1, 1, 2)

===============================================================================
