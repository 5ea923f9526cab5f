------------------------------ MODULE AsioClient ------------------------------
(***************************************************************************)
(* The sending client, cpp/client.cc: resolve, connect, write the header,  *)
(* then read a block and write it, in turns, until the file ends.  Nothing *)
(* is read from the server.                                                *)
(*                                                                         *)
(* async_write hands its buffer to the kernel as fast as the kernel takes  *)
(* it: write_some is the library's part of it, and the handler is called   *)
(* when the buffer is empty or the connection is found closed.             *)
(***************************************************************************)
EXTENDS AsioLink

CONSTANTS
    HasInfile,  \* the clients whose file can be opened
    Endpoint,   \* Endpoint[c]: of each address c resolves, is the server there?
    ReadError   \* can a read of the client's disk fail?

ASSUME ClientAssumption ==
    /\ HasInfile \subseteq Client
    /\ Endpoint \in [Client -> Seq(BOOLEAN)]
    /\ \A c \in Client : Endpoint[c] # <<>>
    /\ ReadError \in BOOLEAN

VARIABLES
    cli,    \* cli[c]: which handler c's io_service waits for, or how c ended
    ep,     \* ep[c]: the endpoint that c is connecting to
    pend,   \* pend[c]: what an async_write has not yet handed to the kernel
    rest    \* rest[c]: what has not been read of the file

cliVars == <<cli, ep, pend, rest>>

Running == {"resolve", "connect", "write"}

\* sent: the file was read to its end and the connection shut down.
Ended == {"sent", "failed", "killed"}

CliTypeOK ==
    /\ cli \in [Client -> {"idle"} \union Running \union Ended]
    /\ ep \in [Client -> Nat]
    /\ \A c \in Client : cli[c] = "connect" => ep[c] \in 1..Len(Endpoint[c])
    /\ pend \in [Client -> Seq(Word)]
    /\ \A c \in Client : Len(pend[c]) <= HeadLen \/ Len(pend[c]) <= BUFSIZ
    /\ rest \in [Client -> Seq(Word)]

CliInit ==
    /\ cli = [c \in Client |-> "idle"]
    /\ ep = [c \in Client |-> 0]
    /\ pend = [c \in Client |-> <<>>]
    /\ rest = [c \in Client |-> <<>>]

Ends(c, how) ==
    /\ cli' = [cli EXCEPT ![c] = how]
    /\ shut' = shut \union {c}

\* main: the constructor opens the file and starts to resolve the host, or returns
\* with nothing to run.
AsyncTcpClient(c) ==
    /\ cli[c] = "idle"
    /\ \/ /\ c \in HasInfile
          /\ cli' = [cli EXCEPT ![c] = "resolve"]
          /\ rest' = [rest EXCEPT ![c] = File[c]]
          /\ UNCHANGED shut
       \/ /\ c \notin HasInfile
          /\ Ends(c, "failed")
          /\ UNCHANGED rest
    /\ UNCHANGED <<listening, conn, up, faults>>
    /\ UNCHANGED <<ep, pend>>

\* The first endpoint is tried, unless the name cannot be resolved.
handle_resolve(c) ==
    /\ cli[c] = "resolve"
    /\ \/ /\ cli' = [cli EXCEPT ![c] = "connect"]
          /\ ep' = [ep EXCEPT ![c] = 1]
          /\ UNCHANGED <<shut, faults>>
       \/ /\ Fault
          /\ Ends(c, "failed")
          /\ UNCHANGED ep
    /\ UNCHANGED <<listening, conn, up>>
    /\ UNCHANGED <<pend, rest>>

Reachable(c) == listening /\ Endpoint[c][ep[c]]

\* Connected, if only to the backlog: the header is written.
handle_connect(c) ==
    /\ cli[c] = "connect"
    /\ Reachable(c)
    /\ cli' = [cli EXCEPT ![c] = "write"]
    /\ conn' = [conn EXCEPT ![c] = "backlog"]
    /\ pend' = [pend EXCEPT ![c] = encode_fileinfo(Out[c])]
    /\ UNCHANGED <<listening, shut, up, faults>>
    /\ UNCHANGED <<ep, rest>>

\* Mutant of handle_connect_err: the iterator that is passed on is never advanced
\* past the first endpoint.
handle_connect_err_first(c) ==
    /\ cli[c] = "connect"
    /\ ~Reachable(c)
    /\ Ends(c, "failed")
    /\ UNCHANGED <<listening, conn, up, faults>>
    /\ UNCHANGED <<ep, pend, rest>>

\* Not connected: the next endpoint is tried, if there is one.
handle_connect_err(c) ==
    /\ cli[c] = "connect"
    /\ ~Reachable(c)
    /\ \/ /\ ep[c] < Len(Endpoint[c])
          /\ ep' = [ep EXCEPT ![c] = @ + 1]
          /\ UNCHANGED <<cli, shut>>
       \/ /\ ep[c] = Len(Endpoint[c])
          /\ Ends(c, "failed")
          /\ UNCHANGED ep
    /\ UNCHANGED <<listening, conn, up, faults>>
    /\ UNCHANGED <<pend, rest>>

\* async_write's own work: the kernel takes k words.
write_some(c, k) ==
    /\ cli[c] = "write"
    /\ k \in 1..Len(pend[c])
    /\ Accepted(c, SubSeq(pend[c], 1, k))
    /\ pend' = [pend EXCEPT ![c] = SubSeq(@, k + 1, Len(@))]
    /\ UNCHANGED <<listening, conn, shut, faults>>
    /\ UNCHANGED <<cli, ep, rest>>

Written(c) == cli[c] = "write" /\ pend[c] = <<>>

\* Mutant of handle_read_file: all of the file in one block.
handle_read_file_whole(c) ==
    /\ Written(c)
    /\ rest[c] # <<>>
    /\ pend' = [pend EXCEPT ![c] = rest[c]]
    /\ rest' = [rest EXCEPT ![c] = <<>>]
    /\ UNCHANGED linkVars
    /\ UNCHANGED <<cli, ep>>

\* The write is done, and there is more of the file: the next block is written.
handle_read_file(c) ==
    LET n == IF Len(rest[c]) < BUFSIZ THEN Len(rest[c]) ELSE BUFSIZ
    IN  /\ Written(c)
        /\ rest[c] # <<>>
        /\ pend' = [pend EXCEPT ![c] = SubSeq(rest[c], 1, n)]
        /\ rest' = [rest EXCEPT ![c] = SubSeq(@, n + 1, Len(@))]
        /\ UNCHANGED linkVars
        /\ UNCHANGED <<cli, ep>>

\* fread returns 0, at the end of the file or at an error of the disk: the write
\* end is shut down, and nothing is left to run.
handle_read_file_end(c) ==
    /\ Written(c)
    /\ \/ rest[c] = <<>> /\ UNCHANGED faults
       \/ rest[c] # <<>> /\ ReadError /\ Fault
    /\ Ends(c, "sent")
    /\ UNCHANGED <<listening, conn, up>>
    /\ UNCHANGED <<ep, pend, rest>>

\* The connection is found closed: nothing more is written.  (When that is found by
\* shutdown its exception ends main the same way.)
handle_read_file_err(c) ==
    /\ cli[c] = "write"
    /\ conn[c] = "gone"
    /\ Ends(c, "failed")
    /\ UNCHANGED <<listening, conn, up, faults>>
    /\ UNCHANGED <<ep, pend, rest>>

\* The client's process is killed: the kernel sends what it has, then eof.
ClientKilled(c) ==
    /\ cli[c] \in Running
    /\ Fault
    /\ Ends(c, "killed")
    /\ UNCHANGED <<listening, conn, up>>
    /\ UNCHANGED <<ep, pend, rest>>

===============================================================================
