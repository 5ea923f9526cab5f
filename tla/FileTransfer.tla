----------------------------- MODULE FileTransfer -----------------------------
(***************************************************************************)
(* What a file transfer promises, whatever program carries it out: a file  *)
(* is stored under the name its sender asked for, and the sender is told   *)
(* so only after that.  The README's four steps (ask for the file's        *)
(* information, ask for its content, check and write it, send the flag     *)
(* that ends the transfer) say no more than this about the result.         *)
(***************************************************************************)
EXTENDS Naturals, Sequences, Gaps

CONSTANTS
    Client,   \* the transfers, one per run of a sending program
    Name,     \* the names a file can be stored under
    File,     \* File[c]: the content that c sends
    Out,      \* Out[c]: the name under which c wants it stored
    NULL,     \* "no such file"
    Lossy     \* can the medium lose words, and the end of a file it has taken?

VARIABLES
    begun,    \* the transfers that have started
    written,  \* the transfers whose file has been stored
    told,     \* the transfers whose sender knows that it has
    store     \* store[n]: the content of the file named n, NULL if there is none

ftVars == <<begun, written, told, store>>

Init ==
    /\ begun = {}
    /\ written = {}
    /\ told = {}
    /\ store = [n \in Name |-> NULL]

Begin(c) ==
    /\ c \notin begun
    /\ begun' = begun \union {c}
    /\ UNCHANGED <<written, told, store>>

\* The whole file is stored.  A medium that loses the end of a file tells nobody.
Write(c) ==
    /\ c \in begun \ written
    /\ \E n \in 0..Len(File[c]) :
           /\ Lossy \/ n = Len(File[c])
           /\ store' = [store EXCEPT ![Out[c]] = SubSeq(File[c], 1, n)]
    /\ written' = written \union {c}
    /\ UNCHANGED <<begun, told>>

\* What can be there of a file whose writing failed: its beginning or, on a medium that
\* loses words, any of them.
Remains(c) ==
    IF Lossy THEN Gapped(File[c])
             ELSE {SubSeq(File[c], 1, n) : n \in 0..Len(File[c])}

\* The write fails and leaves what had been written: nobody is told.
Spoil(c) ==
    /\ c \in begun \ written
    /\ \E part \in Remains(c) : store' = [store EXCEPT ![Out[c]] = part]
    /\ UNCHANGED <<begun, written, told>>

Tell(c) ==
    /\ c \in written \ told
    /\ told' = told \union {c}
    /\ UNCHANGED <<begun, written, store>>

Next == \E c \in Client : Begin(c) \/ Write(c) \/ Spoil(c) \/ Tell(c)

Spec == Init /\ [][Next]_ftVars

===============================================================================
