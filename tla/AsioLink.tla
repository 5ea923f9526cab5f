------------------------------- MODULE AsioLink -------------------------------
(***************************************************************************)
(* What cpp/server.cc and cpp/client.cc share: the header of               *)
(* cpp/fileinfo.cc, and one TCP connection per client that carries words   *)
(* from the client to the server.  The server never writes.                *)
(*                                                                         *)
(* A word is one block of a file, or a part of the header.                 *)
(***************************************************************************)
EXTENDS Naturals, Sequences, FiniteSets

CONSTANTS
    Client,     \* the runs of the client program
    Word,       \* the values of a word
    File,       \* File[c]: the content of the file c sends
    Out,        \* Out[c]: the last component of that file's path
    NULL,       \* a file that does not exist, or no client
    BUFSIZ,     \* words in the buffers of both programs
    Window,     \* words the kernels hold for a connection before a writer waits
    MaxFaults   \* bound: kills, broken connections, failed calls in a behaviour

\* The header is an array of fixed length: the name in front, and a tail that
\* encode_fileinfo leaves as it was.
HeadLen == 2

encode_fileinfo(name) == <<name, 0>>

decode_fileinfo(info) == info[1]

\* What c's connection should carry.
Stream(c) == encode_fileinfo(Out[c]) \o File[c]

ASSUME LinkAssumption ==
    /\ 0 \in Word
    /\ File \in [Client -> Seq(Word)]
    /\ Out \in [Client -> Word]
    /\ NULL \notin Seq(Word)
    /\ NULL \notin Client
    /\ BUFSIZ \in Nat \ {0}
    /\ Window \in Nat \ {0}
    /\ MaxFaults \in Nat

VARIABLES
    listening,  \* does a server process hold the port?
    conn,       \* conn[c]: c's connection as the kernels have it
    shut,       \* the clients that write no more: shut down, or their process gone
    up,         \* up[c]: words on their way to the server
    faults      \* faults that have happened (counted for MaxFaults)

linkVars == <<listening, conn, shut, up, faults>>

ConnState == {"none", "backlog", "open", "gone"}

LinkTypeOK ==
    /\ listening \in BOOLEAN
    /\ conn \in [Client -> ConnState]
    /\ shut \in SUBSET Client
    /\ up \in [Client -> Seq(Word)]
    /\ \A c \in Client : Len(up[c]) <= Window
    /\ faults \in 0..MaxFaults

LinkInit ==
    /\ listening = TRUE
    /\ conn = [c \in Client |-> "none"]
    /\ shut = {}
    /\ up = [c \in Client |-> <<>>]
    /\ faults = 0

Fault ==
    /\ faults < MaxFaults
    /\ faults' = faults + 1

\* The kernels take words from c's process; what is written to a connection that
\* the server has closed is lost.
Accepted(c, words) ==
    \/ /\ conn[c] \in {"backlog", "open"}
       /\ Len(up[c]) + Len(words) <= Window
       /\ up' = [up EXCEPT ![c] = @ \o words]
    \/ /\ conn[c] = "gone"
       /\ UNCHANGED up

\* The server's side of c's connection is closed, with what was not read.
Closed(c) ==
    /\ conn' = [conn EXCEPT ![c] = "gone"]
    /\ up' = [up EXCEPT ![c] = <<>>]

\* The server's process ends: it closes the port and every connection, those that
\* were never accepted too.
ProcessEnds ==
    /\ listening' = FALSE
    /\ conn' = [c \in Client |-> IF conn[c] = "none" THEN "none" ELSE "gone"]
    /\ up' = [c \in Client |-> <<>>]

===============================================================================
