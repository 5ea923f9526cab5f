----------------------------- MODULE NodeTransfer -----------------------------
(***************************************************************************)
(* The Node programs, cpp/serv.js and cpp/cli.js: the client writes a name *)
(* on its connection, the server answers with that file.  Each program has *)
(* one event loop; files are read and appended by a pool of threads, whose *)
(* results come back as callbacks, in any order.  An error that nobody     *)
(* handles, on a connection too, is thrown and ends the process.           *)
(*                                                                         *)
(* A word of a file is its position in it, so that a file is known by its  *)
(* length.                                                                 *)
(***************************************************************************)
EXTENDS Integers, Sequences, FiniteSets

CONSTANTS
    Client,    \* the runs of cli.js
    Size,      \* Size[c]: the length of the file that c asks for, or NULL
    MaxFaults, \* bounds kills and failed calls
    NULL       \* "no such file"

ASSUME NodeAssumption ==
    /\ Size \in [Client -> Nat \union {NULL}]
    /\ NULL \notin Nat
    /\ MaxFaults \in Nat

VARIABLES
    serv,    \* the server's process: "up", or how it ended
    cli,     \* the client's connection, and how its process ended
    ended,   \* the clients that have called client.end()
    conn,    \* the server's side of a connection
    down,    \* how many words are on their way to the client
    size,    \* the words that data events have brought
    pending, \* the calls of appendFile under way
    out,     \* the words in the client's file, from where it began
    raced,   \* the clients that called appendFile while another call was under way
    faults   \* the faults that have happened

fileVars == <<size, pending, out, raced>>
vars == <<serv, cli, ended, conn, down, fileVars, faults>>

CliStage  == {"idle", "connect", "open", "closed", "exit", "dead"}
ConnStage == {"none", "open", "read", "readfin", "wrote", "closed", "gone"}

\* The words of a call of appendFile: those from a up to b.
Chunk == [a : Nat \ {0}, b : Nat]

TypeOK ==
    /\ serv \in {"up", "killed", "thrown"}
    /\ cli \in [Client -> CliStage]
    /\ ended \in SUBSET Client
    /\ conn \in [Client -> ConnStage]
    /\ down \in [Client -> Nat]
    /\ size \in [Client -> Nat]
    /\ pending \in [Client -> SUBSET Chunk]
    /\ out \in [Client -> Seq(Nat)]
    /\ raced \in SUBSET Client
    /\ faults \in 0..MaxFaults
    /\ \A c \in Client : conn[c] \in {"wrote", "closed"} /\ Size[c] \in Nat =>
           size[c] + down[c] <= Size[c]

Init ==
    /\ serv = "up"
    /\ cli = [c \in Client |-> "idle"]
    /\ ended = {}
    /\ conn = [c \in Client |-> "none"]
    /\ down = [c \in Client |-> 0]
    /\ size = [c \in Client |-> 0]
    /\ pending = [c \in Client |-> {}]
    /\ out = [c \in Client |-> <<>>]
    /\ raced = {}
    /\ faults = 0

Fault ==
    /\ faults < MaxFaults
    /\ faults' = faults + 1

-------------------------------------------------------------------------------
\* cli.js

Connect(c) ==
    /\ cli[c] = "idle"
    /\ serv = "up"
    /\ cli' = [cli EXCEPT ![c] = "connect"]
    /\ conn' = [conn EXCEPT ![c] = "open"]
    /\ UNCHANGED <<serv, ended, down, fileVars, faults>>

\* Nobody listens, and nobody handles the error.
Refused(c) ==
    /\ cli[c] = "idle"
    /\ serv # "up"
    /\ cli' = [cli EXCEPT ![c] = "dead"]
    /\ UNCHANGED <<serv, ended, conn, down, fileVars, faults>>

\* Mutant of on_connect: the client ends its side as soon as it has asked.
on_connect_ends(c) ==
    /\ cli[c] = "connect"
    /\ cli' = [cli EXCEPT ![c] = "open"]
    /\ ended' = ended \union {c}
    /\ UNCHANGED <<serv, conn, down, fileVars, faults>>

\* The callback of net.connect writes the name.
on_connect(c) ==
    /\ cli[c] = "connect"
    /\ cli' = [cli EXCEPT ![c] = "open"]
    /\ UNCHANGED <<serv, ended, conn, down, fileVars, faults>>

\* Mutant of on_data_cli: client.end() is left to the server.
on_data_cli_stays(c) ==
    /\ cli[c] = "open"
    /\ \E n \in 1..down[c] :
        /\ down' = [down EXCEPT ![c] = @ - n]
        /\ size' = [size EXCEPT ![c] = @ + n]
        /\ pending' = [pending EXCEPT ![c] = @ \union {[a |-> size[c] + 1, b |-> size[c] + n]}]
    /\ raced' = IF pending[c] = {} THEN raced ELSE raced \union {c}
    /\ UNCHANGED <<serv, cli, ended, conn, out, faults>>

\* A chunk arrives: appendFile is started, and the client's side ended.  The rest of
\* the file still comes, with more calls of this handler.
on_data_cli(c) ==
    /\ cli[c] = "open"
    /\ \E n \in 1..down[c] :
        /\ down' = [down EXCEPT ![c] = @ - n]
        /\ size' = [size EXCEPT ![c] = @ + n]
        /\ pending' = [pending EXCEPT ![c] = @ \union {[a |-> size[c] + 1, b |-> size[c] + n]}]
    /\ raced' = IF pending[c] = {} THEN raced ELSE raced \union {c}
    /\ ended' = ended \union {c}
    /\ UNCHANGED <<serv, cli, conn, out, faults>>

Words(ch) == [i \in 1..(ch.b - ch.a + 1) |-> ch.a + i - 1]

\* Mutant of AppendTo: fs.writeFile, which truncates.
AppendTo_write(old, ch) == Words(ch)

\* Mutant of AppendTo: a write at the beginning of the file.
AppendTo_start(old, ch) == Words(ch) \o old

AppendTo(old, ch) == old \o Words(ch)

\* A thread of the pool has opened the file to append, written and closed it.
appendFile(c) ==
    /\ cli[c] \in {"open", "closed"}
    /\ \E ch \in pending[c] :
        /\ out' = [out EXCEPT ![c] = AppendTo(@, ch)]
        /\ pending' = [pending EXCEPT ![c] = @ \ {ch}]
    /\ UNCHANGED <<serv, cli, ended, conn, down, size, raced, faults>>

\* The server's side is at its end.
on_end(c) ==
    /\ cli[c] \in {"connect", "open"}
    /\ (conn[c] = "closed" /\ down[c] = 0) \/ conn[c] = "gone"
    /\ cli' = [cli EXCEPT ![c] = "closed"]
    /\ UNCHANGED <<serv, ended, conn, down, fileVars, faults>>

\* Mutant of Exit: the process ends with its connection, whatever the pool is doing.
Exit_early(c) ==
    /\ cli[c] = "closed"
    /\ cli' = [cli EXCEPT ![c] = "exit"]
    /\ UNCHANGED <<serv, ended, conn, down, fileVars, faults>>

\* Nothing is left to run.
Exit(c) ==
    /\ cli[c] = "closed"
    /\ pending[c] = {}
    /\ cli' = [cli EXCEPT ![c] = "exit"]
    /\ UNCHANGED <<serv, ended, conn, down, fileVars, faults>>

\* The connection is reset because the server's process has ended: the error is thrown.
Reset(c) ==
    /\ cli[c] \in {"connect", "open"}
    /\ conn[c] = "gone"
    /\ cli' = [cli EXCEPT ![c] = "dead"]
    /\ UNCHANGED <<serv, ended, conn, down, fileVars, faults>>

\* A kill, or an error of appendFile, which is thrown.
CliKilled(c) ==
    /\ cli[c] \in {"connect", "open", "closed"}
    /\ Fault
    /\ cli' = [cli EXCEPT ![c] = "dead"]
    /\ UNCHANGED <<serv, ended, conn, down, fileVars>>

-------------------------------------------------------------------------------
\* serv.js

\* The process ends with every connection.  Of what was on its way any end may not have
\* been handed to the kernel yet: see on_end.
ProcessEnds(how) ==
    /\ serv' = how
    /\ conn' = [c \in Client |->
                   IF conn[c] = "none" \/ (conn[c] = "closed" /\ down[c] = 0)
                   THEN conn[c] ELSE "gone"]

\* conn.on('data'): readFile is started.
on_data(c) ==
    /\ conn[c] = "open"
    /\ cli[c] = "open"
    /\ conn' = [conn EXCEPT ![c] = "read"]
    /\ UNCHANGED <<serv, cli, ended, down, fileVars, faults>>

\* Mutant of on_file: the file is written again if more data comes.
on_file_again(c) ==
    /\ conn[c] \in {"read", "wrote"}
    /\ Size[c] # NULL
    /\ conn' = [conn EXCEPT ![c] = "wrote"]
    /\ down' = [down EXCEPT ![c] = Size[c]]
    /\ UNCHANGED <<serv, cli, ended, fileVars, faults>>

\* readFile's callback writes the whole file to the connection.
on_file(c) ==
    /\ conn[c] = "read"
    /\ Size[c] # NULL
    /\ conn' = [conn EXCEPT ![c] = "wrote"]
    /\ down' = [down EXCEPT ![c] = Size[c]]
    /\ UNCHANGED <<serv, cli, ended, fileVars, faults>>

\* It throws: there is no such file, or the client has ended its side meanwhile and the
\* write is an error.
on_file_throws(c) ==
    /\ \/ conn[c] = "read" /\ Size[c] = NULL
       \/ conn[c] = "readfin"
    /\ ProcessEnds("thrown")
    /\ UNCHANGED <<cli, ended, down, fileVars, faults>>

\* The client has ended its side, or its process.  allowHalfOpen is false, so that the
\* server's side ends as well, after what has been written.
on_end_serv(c) ==
    /\ c \in ended \/ cli[c] = "dead"
    /\ \/ /\ conn[c] = "read"
          /\ conn' = [conn EXCEPT ![c] = "readfin"]
       \/ /\ conn[c] = "wrote" \/ (conn[c] = "open" /\ cli[c] = "dead")
          /\ conn' = [conn EXCEPT ![c] = "closed"]
    /\ UNCHANGED <<serv, cli, ended, down, fileVars, faults>>

\* The client's process is gone before it has read everything, and its kernel answers
\* with a reset: the connection's error has no handler.
on_error(c) ==
    /\ conn[c] = "wrote"
    /\ cli[c] = "dead"
    /\ down[c] > 0
    /\ ProcessEnds("thrown")
    /\ UNCHANGED <<cli, ended, down, fileVars, faults>>

ServKilled ==
    /\ serv = "up"
    /\ Fault
    /\ ProcessEnds("killed")
    /\ UNCHANGED <<cli, ended, down, fileVars>>

\* Somebody starts the server again.
main ==
    /\ serv # "up"
    /\ serv' = "up"
    /\ UNCHANGED <<cli, ended, conn, down, fileVars, faults>>

-------------------------------------------------------------------------------
CliStep(c) == on_connect(c) \/ on_data_cli(c) \/ on_end(c) \/ Exit(c) \/ Reset(c)

ServStep(c) == on_data(c) \/ on_file(c) \/ on_file_throws(c) \/ on_end_serv(c)

Next ==
    \/ \E c \in Client :
        \/ Connect(c) \/ Refused(c) \/ CliStep(c) \/ appendFile(c) \/ CliKilled(c)
        \/ ServStep(c) \/ on_error(c)
    \/ ServKilled
    \/ main

Fairness ==
    \A c \in Client : WF_vars(CliStep(c)) /\ WF_vars(appendFile(c)) /\ WF_vars(ServStep(c))

Spec == Init /\ [][Next]_vars /\ Fairness

-------------------------------------------------------------------------------
(***************************************************************************)
(* Properties                                                              *)
(***************************************************************************)

InFile(c) == {out[c][i] : i \in 1..Len(out[c])}

OnTheWay(c) == UNION {ch.a..ch.b : ch \in pending[c]}

\* Each word that a data event has brought is in the file once or in one call of
\* appendFile, in whatever order the pool carries the calls out: cli.js, line 53.
EachWordOnce ==
    \A c \in Client :
        /\ Len(out[c]) = Cardinality(InFile(c))
        /\ InFile(c) \intersect OnTheWay(c) = {}
        /\ InFile(c) \union OnTheWay(c) = 1..size[c]

\* Only calls of appendFile that were under way at the same time can change the order:
\* a client that never had two has the beginning of the file.
InOrderUnlessRaced ==
    \A c \in Client \ raced : \A i \in 1..Len(out[c]) : out[c][i] = i

\* The server ends by an error only if a client asks for a file that is not there, or
\* dies: client.end() after the first chunk is never too early, although the server's
\* side ends with it.
ThrownForBadClients ==
    serv = "thrown" => \E c \in Client :
        conn[c] # "none" /\ (Size[c] = NULL \/ cli[c] = "dead")

\* A client that ends well when the server's process did not end has the whole file,
\* although it ended its side at the first chunk.
ExitMeansComplete ==
    \A c \in Client : cli[c] = "exit" /\ conn[c] = "closed" => Len(out[c]) = Size[c]

\* A client that has asked for a file with content ends.  With a file without content
\* it waits for ever: there is no data event, and so no client.end().
ClientsEnd ==
    \A c \in Client : Size[c] # 0 => (cli[c] = "open" ~> cli[c] \in {"exit", "dead"})

===============================================================================
