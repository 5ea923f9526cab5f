------------------------------ MODULE FileClient ------------------------------
(***************************************************************************)
(* The sending client, c/file_client.c, with readfile of c/interface.c.    *)
(* One thread runs libevent's loop; the thread that reads the file is      *)
(* joined inside the callback.  A client serves the requests it reads, one *)
(* per callback: libevent calls read_cb when more of them arrive, never    *)
(* for one that a callback left in the buffer.                             *)
(***************************************************************************)
EXTENDS TransferLink

CONSTANT HasInfile  \* the clients whose input file can be opened

ASSUME HasInfileAssumption == HasInfile \subseteq Client

VARIABLES
    cli,      \* cli[c]: where c's process is, see CliState
    request,  \* request[c]: the file-scope Status of file_client.c
    buf,      \* buf[c]: the file-scope evbuffer, NULL while there is none
    cin       \* cin[c]: the input evbuffer of c's bufferevent

cliVars == <<cli, request, buf, cin>>

\* "done": ended after FIN; "gone": ended in any other way.
CliState == {"idle", "run", "done", "gone"}

CliTypeOK ==
    /\ cli \in [Client -> CliState]
    /\ request \in [Client -> RequestType]
    /\ buf \in [Client -> Seq(Word) \union {NULL}]
    /\ cin \in [Client -> Seq(RequestType)]

CliInit ==
    /\ cli = [c \in Client |-> "idle"]
    /\ request = [c \in Client |-> "INIT"]
    /\ buf = [c \in Client |-> NULL]
    /\ cin = [c \in Client |-> <<>>]

Connected == {c \in Client : conn[c] \in {"backlog", "open"}}

\* c's process starts and connects; the kernel queues the connection.
Launch(c) ==
    /\ cli[c] = "idle"
    /\ OneAtATime => Connected = {}
    /\ cli' = [cli EXCEPT ![c] = "run"]
    /\ conn' = [conn EXCEPT ![c] = "backlog"]
    /\ UNCHANGED <<hup, up, down, sent, asked, faults>>
    /\ UNCHANGED <<request, buf, cin>>

\* Nothing listens: the connect fails and the loop has nothing to wait for.
Refused(c) ==
    /\ cli[c] = "idle"
    /\ cli' = [cli EXCEPT ![c] = "gone"]
    /\ UNCHANGED linkVars
    /\ UNCHANGED <<request, buf, cin>>

-------------------------------------------------------------------------------
\* read_cb: k requests arrive, and the first unread one, r, is taken.
Receives(c, k, r) ==
    /\ cli[c] = "run"
    /\ k \in 1..Len(down[c])
    /\ r = Head(cin[c] \o SubSeq(down[c], 1, k))
    /\ cin' = [cin EXCEPT ![c] = Tail(@ \o SubSeq(down[c], 1, k))]
    /\ down' = [down EXCEPT ![c] = SubSeq(@, k + 1, Len(@))]

\* HEAD: readfile fills a new evbuffer, and the header is sent.
ReadHeadRequest(c, k) ==
    /\ Receives(c, k, "HEAD")
    /\ c \in HasInfile
    /\ request' = [request EXCEPT ![c] = "HEAD"]
    /\ buf' = [buf EXCEPT ![c] = File[c]]
    /\ Send(c, encode(InfoOf(c)))
    /\ UNCHANGED <<conn, hup, asked, faults>>
    /\ UNCHANGED cli

\* HEAD, but the file cannot be opened: the assert in readfile ends the process.
AbortNoInfile(c, k) ==
    /\ Receives(c, k, "HEAD")
    /\ c \notin HasInfile
    /\ cli' = [cli EXCEPT ![c] = "gone"]
    /\ request' = [request EXCEPT ![c] = "HEAD"]
    /\ HangUp(c)
    /\ UNCHANGED <<conn, asked, faults>>
    /\ UNCHANGED buf

\* Neither DATA nor FIN looks whether there is an evbuffer: see HeadComesFirst in
\* LibeventTransfer.

\* Mutant of ReadDataRequest: the content is copied and kept for a resend.
ReadDataRequest_copies(c, k) ==
    /\ Receives(c, k, "DATA")
    /\ request' = [request EXCEPT ![c] = "DATA"]
    /\ Send(c, buf[c])
    /\ UNCHANGED <<conn, hup, asked, faults>>
    /\ UNCHANGED <<cli, buf>>

\* Mutant of ReadDataRequest: the client ends once it has sent its file.
ReadDataRequest_exits(c, k) ==
    /\ Receives(c, k, "DATA")
    /\ request' = [request EXCEPT ![c] = "DATA"]
    /\ Send(c, buf[c])
    /\ buf' = [buf EXCEPT ![c] = <<>>]
    /\ cli' = [cli EXCEPT ![c] = "done"]
    /\ hup' = hup \union {c}
    /\ UNCHANGED <<conn, asked, faults>>

\* DATA: bufferevent_write_buffer moves the evbuffer's content to the connection.
ReadDataRequest(c, k) ==
    /\ Receives(c, k, "DATA")
    /\ request' = [request EXCEPT ![c] = "DATA"]
    /\ Send(c, buf[c])
    /\ buf' = [buf EXCEPT ![c] = <<>>]
    /\ UNCHANGED <<conn, hup, asked, faults>>
    /\ UNCHANGED cli

\* Mutant of ReadFin: the events stay enabled, so the loop goes on.
ReadFin_stays(c, k) ==
    /\ Receives(c, k, "FIN")
    /\ request' = [request EXCEPT ![c] = "INIT"]
    /\ buf' = [buf EXCEPT ![c] = NULL]
    /\ UNCHANGED <<conn, hup, up, sent, asked, faults>>
    /\ UNCHANGED cli

\* FIN: the evbuffer is freed and every event disabled, so the loop ends.
ReadFin(c, k) ==
    /\ Receives(c, k, "FIN")
    /\ cli' = [cli EXCEPT ![c] = "done"]
    /\ request' = [request EXCEPT ![c] = "INIT"]
    /\ buf' = [buf EXCEPT ![c] = NULL]
    /\ HangUp(c)
    /\ UNCHANGED <<conn, asked, faults>>

read_cb_cli(c) ==
    \E k \in 1..Len(down[c]) :
        \/ ReadHeadRequest(c, k)
        \/ AbortNoInfile(c, k)
        \/ ReadDataRequest(c, k)
        \/ ReadFin(c, k)

-------------------------------------------------------------------------------
\* EOF or an error on the connection: either way nothing is left to wait for.
event_cb_cli(c) ==
    /\ cli[c] = "run"
    /\ conn[c] = "reset"
    /\ cli' = [cli EXCEPT ![c] = "gone"]
    /\ HangUp(c)
    /\ UNCHANGED <<conn, down, asked, faults>>
    /\ UNCHANGED <<request, buf, cin>>

\* The client's process is killed.
ClientKilled(c) ==
    /\ cli[c] = "run"
    /\ Fault
    /\ cli' = [cli EXCEPT ![c] = "gone"]
    /\ HangUp(c)
    /\ UNCHANGED <<conn, down, asked>>
    /\ UNCHANGED <<request, buf, cin>>

===============================================================================
