----------------------------- MODULE AsioTransfer -----------------------------
(***************************************************************************)
(* The Boost.Asio programs of cpp/ together: one server, which serves one  *)
(* connection per process, and one client program per member of Client.    *)
(***************************************************************************)
EXTENDS AsioServer, AsioClient

vars == <<linkVars, servVars, cliVars>>

Init == LinkInit /\ ServInit /\ CliInit

\* What the server's io_service runs.
ServAccept(c) == handle_accept(c) /\ UNCHANGED cliVars
ServReads     == (\E k \in 1..HeadLen + BUFSIZ : read_some(k)) /\ UNCHANGED cliVars
ServRequest   == handle_read_request /\ UNCHANGED cliVars
ServUnopened  == handle_read_request_unopened /\ UNCHANGED cliVars
ServNoHeader  == handle_read_request_eof /\ UNCHANGED cliVars
ServBlock     == handle_write_file /\ UNCHANGED cliVars
ServEof       == handle_write_file_eof /\ UNCHANGED cliVars
ServReturns   == run_returns /\ UNCHANGED cliVars

ServRuns ==
    \/ \E c \in Client : ServAccept(c)
    \/ ServReads \/ ServRequest \/ ServUnopened \/ ServNoHeader
    \/ ServBlock \/ ServEof \/ ServReturns

\* What may happen to it.
ServAcceptErr == handle_accept_err /\ UNCHANGED cliVars
ServError     == handle_error /\ UNCHANGED cliVars
ServKilled    == ServerKilled /\ UNCHANGED cliVars
ServMain      == main /\ UNCHANGED cliVars

\* What a client's io_service runs, once it is started.
CliResolve(c)    == handle_resolve(c) /\ UNCHANGED servVars
CliConnect(c)    == handle_connect(c) /\ UNCHANGED servVars
CliConnectErr(c) == handle_connect_err(c) /\ UNCHANGED servVars
CliWrites(c)     == (\E k \in 1..Len(pend[c]) : write_some(c, k)) /\ UNCHANGED servVars
CliBlock(c)      == handle_read_file(c) /\ UNCHANGED servVars
CliEnd(c)        == handle_read_file_end(c) /\ UNCHANGED servVars
CliErr(c)        == handle_read_file_err(c) /\ UNCHANGED servVars

CliRuns(c) ==
    \/ CliResolve(c) \/ CliConnect(c) \/ CliConnectErr(c)
    \/ CliWrites(c) \/ CliBlock(c) \/ CliEnd(c) \/ CliErr(c)

CliStart(c)  == AsyncTcpClient(c) /\ UNCHANGED servVars
CliKilled(c) == ClientKilled(c) /\ UNCHANGED servVars

Next ==
    \/ ServRuns
    \/ ServAcceptErr \/ ServError \/ ServKilled \/ ServMain
    \/ \E c \in Client : CliRuns(c) \/ CliStart(c) \/ CliKilled(c)

Spec == Init /\ [][Next]_vars

\* io_service::run calls every handler whose operation has completed, in each
\* process.  Nobody promises that a client or a server is started.
Fairness == WF_vars(ServRuns) /\ \A c \in Client : WF_vars(CliRuns(c))

FairSpec == Spec /\ Fairness

TypeOK == LinkTypeOK /\ ServTypeOK /\ CliTypeOK

-------------------------------------------------------------------------------
(* When both disks work. *)

DisksWork == ~DiskFull /\ ~ReadError

\* What the server has taken from c's connection and still knows.
Received(c) ==
    IF conn[c] = "backlog" THEN <<>>
    ELSE IF stage = "head" THEN rbuf
    ELSE encode_fileinfo(filename) \o disk[filename] \o rbuf

\* As long as a connection stands, nothing of the header and the file is lost,
\* doubled or out of order between the client's disk and the server's: neither in
\* the two buffers, which are used again for every block, nor between the library's
\* partial reads and writes; and it lands under the client's name.
NothingLost ==
    \A c \in Client :
        conn[c] \in {"backlog", "open"}
            => Received(c) \o up[c] \o pend[c] \o rest[c] = Stream(c)

\* The programs have no acknowledgement, size or digest: what the server may take
\* for a whole file is one whose client shut its connection down, and then it is
\* one, and stays.
EofMeansStored ==
    \A c \in closed :
        (cli[c] = "sent" /\ \A d \in Client \ {c} : Out[d] # Out[c])
            => disk[Out[c]] = File[c]

\* The two programs implement the transfer a user is promised, but for its last
\* step: no client is ever told.  A client that is killed, a broken connection and
\* a killed server each leave a part of the file, from its beginning.
FT == INSTANCE FileTransfer WITH
          Name    <- Word,
          begun   <- {c \in Client : cli[c] # "idle"},
          written <- {c \in closed : cli[c] = "sent"},
          told    <- {},
          store   <- disk,
          Lossy   <- FALSE

Transfer == FT!Spec

\* No client waits for ever: not for a server that accepts nobody else and whose
\* backlog takes only so much of a file, nor for one that has been killed.
EveryClientEnds ==
    \A c \in Client : cli[c] \in Running ~> cli[c] \in Ended

\* With the server behind some address of every client, one client's file arrives
\* once any client gets as far as to connect, unless something fails or is killed, or
\* the client served first asks for a name that cannot be opened.
SomeFileArrives ==
    (\E c \in Client : cli[c] = "connect")
        ~> \/ \E c \in closed : cli[c] = "sent" /\ disk[Out[c]] = File[c]
           \/ \E c \in Client : conn[c] = "gone" /\ Out[c] \notin CanOpen
           \/ faults > 0

===============================================================================
