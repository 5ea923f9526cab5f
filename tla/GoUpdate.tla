------------------------------- MODULE GoUpdate -------------------------------
(***************************************************************************)
(* The programs of go-update, where the client asks for a file by name and *)
(* the server sends it: serv.go, a goroutine per connection, and cli.go.   *)
(*                                                                         *)
(* cli.go creates its file under the path it is given and asks for the     *)
(* base name of that path.  So when both programs run in one directory the *)
(* two are the same file, and it may be that of several clients.  dir      *)
(* holds the files of all of them.                                         *)
(***************************************************************************)
EXTENDS Naturals, Sequences

CONSTANTS
    Client,    \* the runs of cli
    Name,      \* the names of files, on the server's side and the clients'
    Word,      \* the blocks that files consist of; 0 is the block of zeros
    File,      \* File[n]: the content of the file named n, if it is there at the start
    Want,      \* Want[c]: the file that c asks for
    Dest,      \* Dest[c]: the file that c creates
    Direct,    \* the clients built with a Go whose os.File has ReadFrom (1.15 and later)
    BUFIO,     \* the words that a bufio.Writer holds
    MaxFaults, \* bounds kills and failed calls
    NULL       \* "no file"

\* A path determines its base name, and a client whose path is that of a file of the
\* server asks for this very file.
ASSUME GoUpdateAssumption ==
    /\ 0 \in Word
    /\ File \in [Name -> Seq(Word)]
    /\ NULL \notin Seq(Word) /\ NULL \notin Name
    /\ Want \in [Client -> Name]
    /\ Dest \in [Client -> Name]
    /\ \A c, d \in Client : Dest[c] = Dest[d] => Want[c] = Want[d]
    /\ \A c, d \in Client : Dest[c] = Want[d] => Want[c] = Dest[c]
    /\ Direct \subseteq Client
    /\ BUFIO \in Nat \ {0}
    /\ MaxFaults \in Nat

VARIABLES
    listening, \* does the server's process run?
    cli,       \* what the client does next, or how it ended
    buf,       \* what the client's bufio.Writer holds
    off,       \* the words it has written: the offset in its file
    go,        \* what the goroutine of c's connection does next
    fp,        \* the file it has open, or NULL
    pos,       \* how many words of it have been sent
    down,      \* the words on their way to the client
    dir,       \* the files
    faults     \* the faults that have happened

servVars == <<go, fp, pos>>
fileVars == <<off, dir>>
vars == <<listening, cli, buf, servVars, down, fileVars, faults>>

CliStage == {"idle", "ask", "create", "copy", "done", "dead"}
GoStage  == {"none", "backlog", "name", "copy", "closed", "gone"}

TypeOK ==
    /\ listening \in BOOLEAN
    /\ cli \in [Client -> CliStage]
    /\ go \in [Client -> GoStage]
    /\ fp \in [Client -> Name \union {NULL}]
    /\ pos \in [Client -> Nat]
    /\ off \in [Client -> Nat]
    /\ down \in [Client -> Seq(Word)]
    /\ buf \in [Client -> Seq(Word)]
    /\ \A c \in Client :
        /\ Len(buf[c]) <= (IF c \in Direct THEN 0 ELSE BUFIO)
        /\ cli[c] \in {"copy", "done"} => dir[Dest[c]] # NULL
        /\ go[c] = "copy" => fp[c] # NULL /\ dir[fp[c]] # NULL
    /\ dir \in [Name -> Seq(Word) \union {NULL}]
    /\ faults \in 0..MaxFaults

Init ==
    /\ listening = TRUE
    /\ cli = [c \in Client |-> "idle"]
    /\ buf = [c \in Client |-> <<>>]
    /\ off = [c \in Client |-> 0]
    /\ go = [c \in Client |-> "none"]
    /\ fp = [c \in Client |-> NULL]
    /\ pos = [c \in Client |-> 0]
    /\ down = [c \in Client |-> <<>>]
    /\ \E there \in SUBSET Name :
           dir = [n \in Name |-> IF n \in there THEN File[n] ELSE NULL]
    /\ faults = 0

Fault ==
    /\ faults < MaxFaults
    /\ faults' = faults + 1

-------------------------------------------------------------------------------
\* cli.go

Dial(c) ==
    /\ cli[c] = "idle"
    /\ listening
    /\ cli' = [cli EXCEPT ![c] = "ask"]
    /\ go' = [go EXCEPT ![c] = "backlog"]
    /\ UNCHANGED <<listening, buf, fp, pos, down, fileVars, faults>>

Refused(c) ==
    /\ cli[c] = "idle"
    /\ ~listening
    /\ cli' = [cli EXCEPT ![c] = "dead"]
    /\ UNCHANGED <<listening, buf, servVars, down, fileVars, faults>>

\* RequestFile: the name is written; whether that succeeds is not looked at.
Ask(c) ==
    /\ cli[c] = "ask"
    /\ cli' = [cli EXCEPT ![c] = "create"]
    /\ UNCHANGED <<listening, buf, servVars, down, fileVars, faults>>

\* os.Create, while the server may already be reading.
Create(c) ==
    /\ cli[c] = "create"
    /\ cli' = [cli EXCEPT ![c] = "copy"]
    /\ dir' = [dir EXCEPT ![Dest[c]] = <<>>]
    /\ UNCHANGED <<listening, buf, off, servVars, down, faults>>

\* os.Create fails: log.Fatal.
CreateErr(c) ==
    /\ cli[c] = "create"
    /\ Fault
    /\ cli' = [cli EXCEPT ![c] = "dead"]
    /\ UNCHANGED <<listening, buf, servVars, down, fileVars>>

\* Mutant of WriteAt: the file is opened to append.
WriteAt_append(f, k, words) == f \o words

\* What a write of words at offset k makes of a file.  Where another client has cut the
\* file short meanwhile, it leaves zeros.
WriteAt(f, k, words) ==
    LET end == k + Len(words)
    IN  [i \in 1..(IF end < Len(f) THEN Len(f) ELSE end) |->
            IF i \in k + 1..end THEN words[i - k] ELSE IF i <= Len(f) THEN f[i] ELSE 0]

Write(c, words) ==
    /\ dir' = [dir EXCEPT ![Dest[c]] = WriteAt(@, off[c], words)]
    /\ off' = [off EXCEPT ![c] = @ + Len(words)]

Full(c) == Len(buf[c]) = BUFIO

\* What the buffer still takes.
Room(c) == BUFIO - Len(buf[c])

\* io.Copy: one read, into the file or, before Go 1.15, into what room the buffer has.
Copy(c) ==
    /\ cli[c] = "copy"
    /\ ~Full(c)
    /\ \E n \in 1..Len(down[c]) :
        /\ down' = [down EXCEPT ![c] = SubSeq(@, n + 1, Len(@))]
        /\ \/ /\ c \in Direct
              /\ Write(c, SubSeq(down[c], 1, n))
              /\ UNCHANGED buf
           \/ /\ c \notin Direct
              /\ n <= Room(c)
              /\ buf' = [buf EXCEPT ![c] = @ \o SubSeq(down[c], 1, n)]
              /\ UNCHANGED fileVars
    /\ UNCHANGED <<listening, cli, servVars, faults>>

\* Mutant of Flush: the buffer is not emptied.
Flush_keeps(c) ==
    /\ cli[c] = "copy"
    /\ Full(c)
    /\ Write(c, buf[c])
    /\ UNCHANGED <<listening, cli, buf, servVars, down, faults>>

\* A full buffer is flushed before the next read.
Flush(c) ==
    /\ cli[c] = "copy"
    /\ Full(c)
    /\ Write(c, buf[c])
    /\ buf' = [buf EXCEPT ![c] = <<>>]
    /\ UNCHANGED <<listening, cli, servVars, down, faults>>

\* Mutant of CopyEof: eof is taken from the server's side while words are on their way.
CopyEof_early(c) ==
    /\ cli[c] = "copy"
    /\ ~Full(c)
    /\ go[c] \in {"closed", "gone"}
    /\ cli' = [cli EXCEPT ![c] = "done"]
    /\ UNCHANGED <<listening, buf, servVars, down, fileVars, faults>>

\* eof: main closes the connection and returns; nobody flushes the buffer.
CopyEof(c) ==
    /\ cli[c] = "copy"
    /\ ~Full(c)
    /\ go[c] \in {"closed", "gone"}
    /\ down[c] = <<>>
    /\ cli' = [cli EXCEPT ![c] = "done"]
    /\ UNCHANGED <<listening, buf, servVars, down, fileVars, faults>>

\* The connection is reset because the server's process has ended, with or without what
\* was on its way: log.Fatal.
Reset(c) ==
    /\ cli[c] = "copy"
    /\ go[c] = "gone"
    /\ cli' = [cli EXCEPT ![c] = "dead"]
    /\ UNCHANGED <<listening, buf, servVars, down, fileVars, faults>>

\* A write to the file fails after some of its words: log.Fatal.
WriteErr(c) ==
    /\ cli[c] = "copy"
    /\ Full(c)
    /\ Fault
    /\ \E n \in 1..BUFIO - 1 : Write(c, SubSeq(buf[c], 1, n))
    /\ cli' = [cli EXCEPT ![c] = "dead"]
    /\ UNCHANGED <<listening, buf, servVars, down>>

\* A kill, or a write that fails before its first word.
CliKilled(c) ==
    /\ cli[c] \in {"ask", "create", "copy"}
    /\ Fault
    /\ cli' = [cli EXCEPT ![c] = "dead"]
    /\ UNCHANGED <<listening, buf, servVars, down, fileVars>>

-------------------------------------------------------------------------------
\* serv.go

Accept(c) ==
    /\ go[c] = "backlog"
    /\ go' = [go EXCEPT ![c] = "name"]
    /\ UNCHANGED <<listening, cli, buf, fp, pos, down, fileVars, faults>>

Asked(c) == cli[c] \in {"create", "copy", "done"}

\* Mutant of Open: the error of os.Open is not looked at.
Open_unchecked(c) ==
    /\ go[c] = "name"
    /\ Asked(c)
    /\ go' = [go EXCEPT ![c] = "copy"]
    /\ fp' = [fp EXCEPT ![c] = Want[c]]
    /\ UNCHANGED <<listening, cli, buf, pos, down, fileVars, faults>>

\* One read for the name, and the file is there.
Open(c) ==
    /\ go[c] = "name"
    /\ Asked(c)
    /\ dir[Want[c]] # NULL
    /\ go' = [go EXCEPT ![c] = "copy"]
    /\ fp' = [fp EXCEPT ![c] = Want[c]]
    /\ UNCHANGED <<listening, cli, buf, pos, down, fileVars, faults>>

\* Mutant of OpenErr: EndConn leaves the connection open.
OpenErr_open(c) ==
    /\ go[c] = "name"
    /\ cli[c] = "dead"
    /\ go' = [go EXCEPT ![c] = "closed"]
    /\ UNCHANGED <<listening, cli, buf, fp, pos, down, fileVars, faults>>

\* The file is not there, or the client has gone without asking.  EndConn closes the
\* connection and does not return, and what follows fails on a nil file.
OpenErr(c) ==
    /\ go[c] = "name"
    /\ (Asked(c) /\ dir[Want[c]] = NULL) \/ cli[c] = "dead"
    /\ go' = [go EXCEPT ![c] = "closed"]
    /\ UNCHANGED <<listening, cli, buf, fp, pos, down, fileVars, faults>>

\* The same with a file that is there: the read returned part of the name, or the open
\* failed.
OpenFault(c) ==
    /\ go[c] = "name"
    /\ Asked(c)
    /\ Fault
    /\ go' = [go EXCEPT ![c] = "closed"]
    /\ UNCHANGED <<listening, cli, buf, fp, pos, down, fileVars>>

\* io.Copy: a block of the file as it is now goes to the connection.
Send(c) ==
    /\ go[c] = "copy"
    /\ \E n \in 1..BUFIO :
        /\ pos[c] + n <= Len(dir[fp[c]])
        /\ down' = [down EXCEPT ![c] = @ \o SubSeq(dir[fp[c]], pos[c] + 1, pos[c] + n)]
        /\ pos' = [pos EXCEPT ![c] = @ + n]
    /\ UNCHANGED <<listening, cli, buf, go, fp, fileVars, faults>>

\* The end of the file, as it is now.
SendEnd(c) ==
    /\ go[c] = "copy"
    /\ pos[c] >= Len(dir[fp[c]])
    /\ go' = [go EXCEPT ![c] = "closed"]
    /\ UNCHANGED <<listening, cli, buf, fp, pos, down, fileVars, faults>>

\* The client has gone, so that a write fails.
SendErr(c) ==
    /\ go[c] = "copy"
    /\ cli[c] = "dead"
    /\ go' = [go EXCEPT ![c] = "closed"]
    /\ UNCHANGED <<listening, cli, buf, fp, pos, down, fileVars, faults>>

\* A read of the file or a write to the connection fails.
SendFault(c) ==
    /\ go[c] = "copy"
    /\ Fault
    /\ go' = [go EXCEPT ![c] = "closed"]
    /\ UNCHANGED <<listening, cli, buf, fp, pos, down, fileVars>>

ServKilled ==
    /\ listening
    /\ Fault
    /\ listening' = FALSE
    /\ go' = [c \in Client |-> IF go[c] \in {"none", "closed"} THEN go[c] ELSE "gone"]
    /\ UNCHANGED <<cli, buf, fp, pos, down, fileVars>>

\* Somebody starts the server again.
main ==
    /\ ~listening
    /\ listening' = TRUE
    /\ UNCHANGED <<cli, buf, servVars, down, fileVars, faults>>

-------------------------------------------------------------------------------
\* A run of cli, and a goroutine of serv, but for faults.
RequestFile(c) == Ask(c) \/ Create(c) \/ Copy(c) \/ Flush(c) \/ CopyEof(c) \/ Reset(c)

HandleClient(c) == Open(c) \/ OpenErr(c) \/ Send(c) \/ SendEnd(c) \/ SendErr(c)

Next ==
    \/ \E c \in Client :
        \/ Dial(c) \/ Refused(c) \/ RequestFile(c) \/ CreateErr(c) \/ WriteErr(c)
        \/ CliKilled(c) \/ Accept(c) \/ HandleClient(c) \/ OpenFault(c) \/ SendFault(c)
    \/ ServKilled
    \/ main

Fairness ==
    \A c \in Client : WF_vars(RequestFile(c)) /\ WF_vars(Accept(c)) /\ WF_vars(HandleClient(c))

Spec == Init /\ [][Next]_vars /\ Fairness

-------------------------------------------------------------------------------
(***************************************************************************)
(* Properties                                                              *)
(***************************************************************************)

\* The names under which more than one client creates its file.
Shared(n) == \E c, d \in Client : c # d /\ Dest[c] = n /\ Dest[d] = n

\* The word w, at place i of the file n or of a copy of it, is n's word, or a zero that
\* two clients have left there.
Kept(n, i, w) ==
    /\ i <= Len(File[n])
    /\ w = File[n][i] \/ (w = 0 /\ Shared(n))

\* The clients that run in the server's directory truncate the very file that is being
\* sent to them and to others, and write it again, each at its own offset: it never has
\* more words than it had, each word is in its place, and only where several write it
\* there can be zeros between them.  cli.go, lines 40 to 47.
ServedFilesKeepWords ==
    \A c \in Client : LET n == Want[c] IN
        dir[n] # NULL => \A i \in 1..Len(dir[n]) : Kept(n, i, dir[n][i])

\* While a client lives, what it has written, what its buffer holds and what is on its
\* way are all that was sent to it, in the order of the server's file: nothing is lost,
\* doubled or moved by the two copies, whichever buffer they use and whatever is done to
\* that file meanwhile.  Its own file is this, if no other client has the same.
NothingLost ==
    \A c \in Client : fp[c] # NULL /\ cli[c] # "dead" =>
        LET coming == buf[c] \o down[c]
        IN  /\ off[c] + Len(coming) = pos[c]
            /\ \A i \in 1..Len(coming) : Kept(fp[c], off[c] + i, coming[i])
            /\ cli[c] \in {"copy", "done"} /\ ~Shared(Dest[c]) =>
                   /\ Len(dir[Dest[c]]) = off[c]
                   /\ \A i \in 1..off[c] : Kept(fp[c], i, dir[Dest[c]][i])

\* A client that has ended well has written all that was sent, or all but the last
\* incomplete buffer: cli.go never flushes its bufio.Writer.  This is its file, if no
\* other client has the same.
OnlyTheTailIsLost ==
    \A c \in Client : cli[c] = "done" =>
        /\ down[c] = <<>>
        /\ off[c] = IF c \in Direct THEN pos[c] ELSE pos[c] - (pos[c] % BUFIO)
        /\ ~Shared(Dest[c]) => Len(dir[Dest[c]]) = off[c]

\* Every client that connects ends, whether or not its file exists, whatever ends or
\* fails on the server's side, and whoever cuts short the file that is sent to it.
EveryClientEnds ==
    <>[](\A c \in Client : cli[c] \in {"idle", "done", "dead"})

===============================================================================
