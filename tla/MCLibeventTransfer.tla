-------------------------- MODULE MCLibeventTransfer --------------------------
(***************************************************************************)
(* Values for the constants of LibeventTransfer.  Words 1 and 2 are file   *)
(* names, 8 and 9 digests; file contents mostly use words of their own.    *)
(***************************************************************************)
EXTENDS LibeventTransfer

CONSTANTS c1, c2, c3

MCWord == 0..9

\* c1 and c3 send files of one name, c2 another.
OrderlyFile == c1 :> <<4, 5>> @@ c2 :> <<6, 7>> @@ c3 :> <<5, 6, 7>>
OrderlyOut  == c1 :> 1 @@ c2 :> 2 @@ c3 :> 1

PairFile == c1 :> <<4, 5>> @@ c2 :> <<6, 7, 6, 7>>
PairOut  == c1 :> 1 @@ c2 :> 2

\* c2's file starts with what decodes to the header of a one-word file.
CrowdFile == c1 :> <<4, 5>> @@ c2 :> <<3, 1, 7, 6>>
CrowdOut  == c1 :> 1 @@ c2 :> 2

\* c2's file has no bytes.
EmptyFile == c1 :> <<4, 5>> @@ c2 :> <<>>

LongFile == c1 :> <<4, 5, 4>> @@ c2 :> <<6, 7, 6, 7>> @@ c3 :> <<5, 6>>

\* A digest that tells the files sent from each other and from everything else.
MCMd5(s) ==
    IF s = File[c1] THEN 8 ELSE IF \E c \in Client : s = File[c] THEN 9 ELSE 0

NoResidue == {}

\* What another call leaves where finfo is: a short header, and an empty name.
MCResidue ==
    {[name |-> 3, size |-> 1, info |-> 0], [name |-> 0, size |-> 4, info |-> 0]}

===============================================================================
