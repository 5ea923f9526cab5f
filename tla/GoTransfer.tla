------------------------------ MODULE GoTransfer ------------------------------
(***************************************************************************)
(* The Go programs, go/serv.go and go/cli.go with go/filedata and go/util: *)
(* a goroutine per connection reads a header, then data until eof, compares *)
(* the digest and writes the file.  log.Fatal, in any goroutine, ends the  *)
(* whole process.                                                          *)
(*                                                                         *)
(* A connection's stream is HeadLen[c] words of header and then the file.  *)
(* It is known from its sender, so sent[c] and got[c] count how much of it *)
(* has been written and read; what the server makes of it is in data[c].   *)
(***************************************************************************)
EXTENDS Naturals, Sequences

CONSTANTS
    Client,      \* the runs of cli
    Name,        \* the names a file can be stored under
    Word,        \* the blocks that files consist of; 0 is the block of zeros
    File,        \* File[c]: the content of c's file
    Out,         \* Out[c]: the base name of c's file
    HeadLen,     \* HeadLen[c]: the words of c's header as msgpack encodes it
    ENCODE_SIZE, \* the words that the one read of a header may take
    VARSIZE,     \* the words of a chunk
    BUFIO,       \* the words that a bufio.Writer holds back
    MaxFaults,   \* bounds kills, broken connections and failed calls
    NULL         \* "no such file"

ASSUME GoAssumption ==
    /\ 0 \in Word
    /\ File \in [Client -> Seq(Word)]
    /\ Out \in [Client -> Name]
    /\ HeadLen \in [Client -> Nat \ {0}]
    /\ ENCODE_SIZE \in Nat \ {0}
    /\ VARSIZE \in Nat \ {0}
    /\ BUFIO \in Nat
    /\ MaxFaults \in Nat
    /\ NULL \notin Seq(Word)

VARIABLES
    listening, \* does the server's process run?
    cli,       \* what the client does next, or how it ended
    sent,      \* the words that c has written to its connection
    go,        \* what the goroutine of c's connection does next
    got,       \* the words that the goroutine has read
    data,      \* RecvData's slice
    cnt,       \* RecvData's count
    disk,      \* the files in the server's directory
    stored,    \* the clients whose file was written whole (history)
    faults     \* the faults that have happened

cliVars  == <<cli, sent>>
recvVars == <<got, data, cnt>>
fileVars == <<disk, stored>>
vars == <<listening, cliVars, go, recvVars, fileVars, faults>>

CliStage == {"idle", "file", "data", "done", "dead"}
GoStage  == {"none", "backlog", "head", "recv", "create", "write", "spin", "gone"}

Total(c) == HeadLen[c] + Len(File[c])

TypeOK ==
    /\ listening \in BOOLEAN
    /\ cli \in [Client -> CliStage]
    /\ go \in [Client -> GoStage]
    /\ sent \in [Client -> Nat]
    /\ got \in [Client -> Nat]
    /\ cnt \in [Client -> Nat]
    /\ data \in [Client -> Seq(Word)]
    /\ \A c \in Client :
        /\ sent[c] <= Total(c)
        /\ got[c] <= sent[c]
        /\ go[c] \in {"recv", "create", "write"} =>
               /\ got[c] >= HeadLen[c] + cnt[c]
               /\ Len(data[c]) = Len(File[c])
    /\ disk \in [Name -> Seq(Word) \union {NULL}]
    /\ stored \in SUBSET Client
    /\ faults \in 0..MaxFaults

Init ==
    /\ listening = TRUE
    /\ cli = [c \in Client |-> "idle"]
    /\ sent = [c \in Client |-> 0]
    /\ go = [c \in Client |-> "none"]
    /\ got = [c \in Client |-> 0]
    /\ data = [c \in Client |-> <<>>]
    /\ cnt = [c \in Client |-> 0]
    /\ disk = [n \in Name |-> NULL]
    /\ stored = {}
    /\ faults = 0

Fault ==
    /\ faults < MaxFaults
    /\ faults' = faults + 1

-------------------------------------------------------------------------------
\* cli.go

\* Dial: the kernel takes the connection, whether or not Accept has been called.
Dial(c) ==
    /\ cli[c] = "idle"
    /\ listening
    /\ cli' = [cli EXCEPT ![c] = "file"]
    /\ go' = [go EXCEPT ![c] = "backlog"]
    /\ UNCHANGED <<listening, sent, recvVars, fileVars, faults>>

Refused(c) ==
    /\ cli[c] = "idle"
    /\ ~listening
    /\ cli' = [cli EXCEPT ![c] = "dead"]
    /\ UNCHANGED <<listening, sent, go, recvVars, fileVars, faults>>

\* SendFile: the file is read, its digest taken, and the header written.
SendHeader(c) ==
    /\ cli[c] = "file"
    /\ cli' = [cli EXCEPT ![c] = "data"]
    /\ sent' = [sent EXCEPT ![c] = HeadLen[c]]
    /\ UNCHANGED <<listening, go, recvVars, fileVars, faults>>

\* ReadFile cannot open or read the file: log.Fatal, with the connection open.
NoFile(c) ==
    /\ cli[c] = "file"
    /\ Fault
    /\ cli' = [cli EXCEPT ![c] = "dead"]
    /\ UNCHANGED <<listening, sent, go, recvVars, fileVars>>

\* SendData: one element of the list of chunks.
SendChunk(c) ==
    /\ cli[c] = "data"
    /\ \E n \in 1..VARSIZE :
        /\ n = VARSIZE \/ sent[c] + n = Total(c)
        /\ sent[c] + n <= Total(c)
        /\ sent' = [sent EXCEPT ![c] = @ + n]
    /\ UNCHANGED <<listening, cli, go, recvVars, fileVars, faults>>

\* Mutant of Close: the client waits until the server is done with its file.
Close_waits(c) ==
    /\ cli[c] = "data"
    /\ sent[c] = Total(c)
    /\ go[c] = "spin"
    /\ cli' = [cli EXCEPT ![c] = "done"]
    /\ UNCHANGED <<listening, sent, go, recvVars, fileVars, faults>>

\* The list is at its end: main returns and closes the connection.
Close(c) ==
    /\ cli[c] = "data"
    /\ sent[c] = Total(c)
    /\ cli' = [cli EXCEPT ![c] = "done"]
    /\ UNCHANGED <<listening, sent, go, recvVars, fileVars, faults>>

\* A write fails because the server's process has ended.
SendErr(c) ==
    /\ cli[c] \in {"file", "data"}
    /\ go[c] = "gone"
    /\ cli' = [cli EXCEPT ![c] = "dead"]
    /\ UNCHANGED <<listening, sent, go, recvVars, fileVars, faults>>

CliKilled(c) ==
    /\ cli[c] \in {"file", "data"}
    /\ Fault
    /\ cli' = [cli EXCEPT ![c] = "dead"]
    /\ UNCHANGED <<listening, sent, go, recvVars, fileVars>>

\* What the server's reads return next is eof.
Eof(c) ==
    /\ cli[c] \in {"done", "dead"}
    /\ got[c] = sent[c]

-------------------------------------------------------------------------------
\* serv.go

\* log.Fatal, or a kill: every connection is reset, every goroutine gone.
ProcessEnds ==
    /\ listening' = FALSE
    /\ go' = [c \in Client |-> IF go[c] = "none" THEN "none" ELSE "gone"]

Accept(c) ==
    /\ go[c] = "backlog"
    /\ go' = [go EXCEPT ![c] = "head"]
    /\ UNCHANGED <<listening, cliVars, recvVars, fileVars, faults>>

\* HandleClient's read, and what it makes of n words: the whole header, and whatever
\* of the file came with it, which nobody looks at.
ReadHead(c) ==
    /\ go[c] = "head"
    /\ \E n \in HeadLen[c]..ENCODE_SIZE :
        /\ n <= sent[c]
        /\ got' = [got EXCEPT ![c] = n]
    /\ data' = [data EXCEPT ![c] = [i \in 1..Len(File[c]) |-> 0]]
    /\ go' = [go EXCEPT ![c] = "recv"]
    /\ UNCHANGED <<listening, cliVars, cnt, fileVars, faults>>

\* A part of the header, and msgpack returns an error: log.Fatal.
ReadHeadFatal(c) ==
    /\ go[c] = "head"
    /\ \E n \in 1..ENCODE_SIZE :
        /\ n < HeadLen[c] /\ n <= sent[c]
        /\ got' = [got EXCEPT ![c] = n]
    /\ ProcessEnds
    /\ UNCHANGED <<cliVars, data, cnt, fileVars, faults>>

\* eof before any header: the loop goes on, and its next read returns eof again.
HeadEof(c) ==
    /\ go[c] = "head"
    /\ Eof(c)
    /\ go' = [go EXCEPT ![c] = "spin"]
    /\ UNCHANGED <<listening, cliVars, recvVars, fileVars, faults>>

\* The first n words that have not been read.
Unread(c, n) == SubSeq(File[c], got[c] - HeadLen[c] + 1, got[c] - HeadLen[c] + n)

\* Mutant of CopyAt: every read is copied to the beginning of the slice.
CopyAt_start(s, k, words) == words \o SubSeq(s, Len(words) + 1, Len(s))

\* Mutant of CopyAt: append instead of copy, so that the slice grows.
CopyAt_grows(s, k, words) == SubSeq(s, 1, k) \o words \o SubSeq(s, k + 1, Len(s))

\* copy(data[cnt:], buf[:n])
CopyAt(s, k, words) ==
    SubSeq(s, 1, k) \o words \o SubSeq(s, k + Len(words) + 1, Len(s))

\* RecvData: a read of at most two chunks.
RecvData(c) ==
    /\ go[c] = "recv"
    /\ \E n \in 1..2 * VARSIZE :
        /\ got[c] + n <= sent[c]
        /\ data' = [data EXCEPT ![c] = CopyAt(@, cnt[c], Unread(c, n))]
        /\ cnt' = [cnt EXCEPT ![c] = @ + n]
        /\ got' = [got EXCEPT ![c] = @ + n]
    /\ UNCHANGED <<listening, cliVars, go, fileVars, faults>>

\* Mutant of IsDataError: digests are not compared.
IsDataError_never(c) == FALSE

\* Digests are taken to be equal only for equal content.
IsDataError(c) == data[c] # File[c]

\* RecvData returns at eof: the file is written only if the digest is the header's.
RecvEof(c) ==
    /\ go[c] = "recv"
    /\ Eof(c)
    /\ go' = [go EXCEPT ![c] = IF IsDataError(c) THEN "spin" ELSE "create"]
    /\ UNCHANGED <<listening, cliVars, recvVars, fileVars, faults>>

\* A read fails otherwise: log.Fatal.
ReadErr(c) ==
    /\ go[c] \in {"head", "recv", "spin"}
    /\ Fault
    /\ ProcessEnds
    /\ UNCHANGED <<cliVars, recvVars, fileVars>>

\* WriteFile: os.Create.
Create(c) ==
    /\ go[c] = "create"
    /\ disk' = [disk EXCEPT ![Out[c]] = <<>>]
    /\ go' = [go EXCEPT ![c] = "write"]
    /\ UNCHANGED <<listening, cliVars, recvVars, stored, faults>>

CreateErr(c) ==
    /\ go[c] = "create"
    /\ Fault
    /\ ProcessEnds
    /\ UNCHANGED <<cliVars, recvVars, fileVars>>

\* Mutant of Overwrite: the file is opened to append.
Overwrite_append(c, n) == disk' = [disk EXCEPT ![Out[c]] = @ \o SubSeq(data[c], 1, n)]

\* n words go to the beginning of the file; what another goroutine has written to the
\* same file behind them stays.
Overwrite(c, n) ==
    disk' = [disk EXCEPT ![Out[c]] = SubSeq(data[c], 1, n) \o SubSeq(@, n + 1, Len(@))]

\* WriteFile: Write and Flush.
Write(c) ==
    /\ go[c] = "write"
    /\ Overwrite(c, Len(data[c]))
    /\ stored' = stored \union {c}
    /\ go' = [go EXCEPT ![c] = "spin"]
    /\ UNCHANGED <<listening, cliVars, recvVars, faults>>

\* The disk is full.  The error of Flush is ignored; that of Write, which bypasses the
\* buffer when there is more than it holds, is fatal.
ShortWrite(c) ==
    /\ go[c] = "write"
    /\ Fault
    /\ \E n \in 0..Len(data[c]) - 1 : Overwrite(c, n)
    /\ \/ /\ Len(data[c]) > BUFIO
          /\ ProcessEnds
       \/ /\ Len(data[c]) <= BUFIO
          /\ go' = [go EXCEPT ![c] = "spin"]
          /\ UNCHANGED listening
    /\ UNCHANGED <<cliVars, recvVars, stored>>

ServKilled ==
    /\ listening
    /\ Fault
    /\ ProcessEnds
    /\ UNCHANGED <<cliVars, recvVars, fileVars>>

\* Somebody starts the server again.
main ==
    /\ ~listening
    /\ listening' = TRUE
    /\ UNCHANGED <<cliVars, go, recvVars, fileVars, faults>>

-------------------------------------------------------------------------------
\* A run of cli, and a goroutine of serv, but for faults.
CliStep(c) == SendHeader(c) \/ SendChunk(c) \/ Close(c) \/ SendErr(c)

HandleClient(c) ==
    \/ ReadHead(c) \/ ReadHeadFatal(c) \/ HeadEof(c)
    \/ RecvData(c) \/ RecvEof(c) \/ Create(c) \/ Write(c)

Next ==
    \/ \E c \in Client :
        \/ Dial(c) \/ Refused(c) \/ CliStep(c) \/ NoFile(c) \/ CliKilled(c)
        \/ Accept(c) \/ HandleClient(c)
        \/ ReadErr(c) \/ CreateErr(c) \/ ShortWrite(c)
    \/ ServKilled
    \/ main

Fairness ==
    \A c \in Client : WF_vars(CliStep(c)) /\ WF_vars(Accept(c)) /\ WF_vars(HandleClient(c))

Spec == Init /\ [][Next]_vars /\ Fairness

-------------------------------------------------------------------------------
(***************************************************************************)
(* Properties                                                              *)
(***************************************************************************)

\* While a file is being received the slice holds, from its beginning and without a
\* gap, the last cnt words that were read of the connection, and zeros behind them,
\* however the stream is cut: util/comm.go, RecvData.
DataInPlace ==
    \A c \in Client : go[c] = "recv" =>
        \A i \in 1..Len(data[c]) :
            data[c][i] = IF i > cnt[c] THEN 0
                         ELSE File[c][got[c] - HeadLen[c] - cnt[c] + i]

\* Whatever goroutines write one name at the same time, whatever fails, and whether or
\* not the process was started again: each word of a file on the server is the word at
\* this place of a file that was sent under the name.  util/comm.go, WriteFile.
WordsOfNamesakes ==
    \A n \in Name : disk[n] # NULL =>
        \A i \in 1..Len(disk[n]) : \E c \in Client :
            /\ Out[c] = n
            /\ i <= Len(File[c])
            /\ disk[n][i] = File[c][i]

\* The clients that share their file's name with no other.
Lone == {c \in Client : \A d \in Client : Out[d] = Out[c] => d = c}

FT == INSTANCE FileTransfer WITH
    Client  <- Lone,
    Name    <- {Out[c] : c \in Lone},
    begun   <- {c \in Lone : cli[c] # "idle"},
    written <- stored \intersect Lone,
    told    <- {},
    store   <- [n \in {Out[c] : c \in Lone} |-> disk[n]],
    Lossy   <- FALSE

\* For files whose names differ the programs do what a transfer promises, except that
\* no client is ever told: a file is stored whole or, if something fails, in part, and
\* never after its digest was found to differ.
Transfer == FT!Spec

\* A header that is read alone, with nothing of the file behind it, leads to a stored
\* file, unless the client or the server's process ends before that, or the write
\* fails.
Delivered ==
    \A c \in Client :
        (go[c] = "recv" /\ got[c] = HeadLen[c] + cnt[c]) ~>
            \/ c \in stored
            \/ cli[c] = "dead"
            \/ ~listening
            \/ go[c] = "spin" /\ faults > 0

===============================================================================
