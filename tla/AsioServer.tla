------------------------------ MODULE AsioServer ------------------------------
(***************************************************************************)
(* The receiving server, cpp/server.cc: io_service::run on one thread, one *)
(* connection accepted, its header read, its file read block by block      *)
(* until eof.  When the connection's last handler has returned nothing is  *)
(* left to run, and the process ends.                                      *)
(*                                                                         *)
(* async_read collects what arrives until its buffer is full or an error   *)
(* comes, and only then is the handler called: read_some is the collecting *)
(* and belongs to the library, the handlers are the actions below.         *)
(***************************************************************************)
EXTENDS AsioLink

CONSTANTS
    CanOpen,   \* the names that fopen can open for writing
    DiskFull   \* can a write to the server's disk come out short?

ASSUME ServerAssumption == CanOpen \subseteq Word /\ DiskFull \in BOOLEAN

VARIABLES
    stage,     \* which handler the io_service waits for
    peer,      \* the client of the connection
    rbuf,      \* what async_read has collected: info_, then buf_
    filename,  \* filename_
    disk,      \* disk[n]: the file named n in the server's directory
    closed     \* the clients whose connection was closed after eof (history)

servVars == <<stage, peer, rbuf, filename, disk, closed>>

Stage == {"accept", "head", "file", "done"}

\* The size of the buffer that async_read was given.
Wanted == IF stage = "head" THEN HeadLen ELSE BUFSIZ

ServTypeOK ==
    /\ stage \in Stage
    /\ peer \in Client \union {NULL}
    /\ stage \in {"head", "file"} => peer \in Client
    /\ rbuf \in Seq(Word)
    /\ stage \in {"head", "file"} => Len(rbuf) <= Wanted
    /\ filename \in Word
    /\ stage = "file" => disk[filename] # NULL
    /\ disk \in [Word -> Seq(Word) \union {NULL}]
    /\ closed \in SUBSET Client

ServInit ==
    /\ stage = "accept"
    /\ peer = NULL
    /\ rbuf = <<>>
    /\ filename = 0
    /\ disk = [n \in Word |-> NULL]
    /\ closed = {}

\* The one async_accept of the constructor completes: start() reads the header.
handle_accept(c) ==
    /\ listening
    /\ stage = "accept"
    /\ conn[c] = "backlog"
    /\ conn' = [conn EXCEPT ![c] = "open"]
    /\ stage' = "head"
    /\ peer' = c
    /\ rbuf' = <<>>
    /\ UNCHANGED <<listening, shut, up, faults>>
    /\ UNCHANGED <<filename, disk, closed>>

\* accept fails: the handler does nothing, and there is no other.
handle_accept_err ==
    /\ listening
    /\ stage = "accept"
    /\ Fault
    /\ stage' = "done"
    /\ UNCHANGED <<listening, conn, shut, up>>
    /\ UNCHANGED <<peer, rbuf, filename, disk, closed>>

Reading(s) == listening /\ stage = s

\* async_read's own work: k words arrive, no more than the buffer has room for.
read_some(k) ==
    /\ listening
    /\ stage \in {"head", "file"}
    /\ k \in 1..Len(up[peer])
    /\ Len(rbuf) + k <= Wanted
    /\ rbuf' = rbuf \o SubSeq(up[peer], 1, k)
    /\ up' = [up EXCEPT ![peer] = SubSeq(@, k + 1, Len(@))]
    /\ UNCHANGED <<listening, conn, shut, faults>>
    /\ UNCHANGED <<stage, peer, filename, disk, closed>>

\* The buffer is not full, and nothing more will come: the client has finished
\* or its process has ended, which look the same from here.
EndOfFile ==
    /\ Len(rbuf) < Wanted
    /\ up[peer] = <<>>
    /\ peer \in shut

-------------------------------------------------------------------------------
\* Mutant of handle_read_request: the file is opened to append to it.
handle_read_request_append ==
    LET name == decode_fileinfo(rbuf)
    IN  /\ Reading("head")
        /\ Len(rbuf) = HeadLen
        /\ filename' = name
        /\ disk' = [disk EXCEPT ![name] = IF @ = NULL THEN <<>> ELSE @]
        /\ stage' = "file"
        /\ rbuf' = <<>>
        /\ UNCHANGED linkVars
        /\ UNCHANGED <<peer, closed>>

\* The whole header is there: the file it names is created, or truncated.
handle_read_request ==
    LET name == decode_fileinfo(rbuf)
    IN  /\ Reading("head")
        /\ Len(rbuf) = HeadLen
        /\ name \in CanOpen
        /\ filename' = name
        /\ disk' = [disk EXCEPT ![name] = <<>>]
        /\ stage' = "file"
        /\ rbuf' = <<>>
        /\ UNCHANGED linkVars
        /\ UNCHANGED <<peer, closed>>

\* The file cannot be opened: return, and the connection goes with its last handler.
handle_read_request_unopened ==
    /\ Reading("head")
    /\ Len(rbuf) = HeadLen
    /\ decode_fileinfo(rbuf) \notin CanOpen
    /\ filename' = decode_fileinfo(rbuf)
    /\ stage' = "done"
    /\ Closed(peer)
    /\ UNCHANGED <<listening, shut, faults>>
    /\ UNCHANGED <<peer, rbuf, disk, closed>>

\* eof in the middle of the header.
handle_read_request_eof ==
    /\ Reading("head")
    /\ EndOfFile
    /\ stage' = "done"
    /\ Closed(peer)
    /\ UNCHANGED <<listening, shut, faults>>
    /\ UNCHANGED <<peer, rbuf, filename, disk, closed>>

\* fwrite takes all words, or some when the disk is full; nobody looks at n.
fwrite(words) ==
    \E n \in 0..Len(words) :
        /\ \/ n = Len(words) /\ UNCHANGED faults
           \/ n < Len(words) /\ DiskFull /\ Fault
        /\ disk' = [disk EXCEPT ![filename] = @ \o SubSeq(words, 1, n)]

\* Mutant of handle_write_file: fwrite at the start of the file.
handle_write_file_rewinds ==
    /\ Reading("file")
    /\ Len(rbuf) = BUFSIZ
    /\ disk' = [disk EXCEPT ![filename] = rbuf]
    /\ rbuf' = <<>>
    /\ UNCHANGED linkVars
    /\ UNCHANGED <<stage, peer, filename, closed>>

\* A full buffer is written, and the next one is read.
handle_write_file ==
    /\ Reading("file")
    /\ Len(rbuf) = BUFSIZ
    /\ fwrite(rbuf)
    /\ rbuf' = <<>>
    /\ UNCHANGED <<listening, conn, shut, up>>
    /\ UNCHANGED <<stage, peer, filename, closed>>

\* Mutant of handle_write_file_eof: eof is an error like any other, and what
\* async_read has collected is dropped.
handle_write_file_eof_drops ==
    /\ Reading("file")
    /\ EndOfFile
    /\ stage' = "done"
    /\ closed' = closed \union {peer}
    /\ Closed(peer)
    /\ UNCHANGED <<listening, shut, faults>>
    /\ UNCHANGED <<peer, rbuf, filename, disk>>

\* Mutant of handle_write_file_eof: the file is closed, but the reading goes on.
handle_write_file_eof_reads_on ==
    /\ Reading("file")
    /\ EndOfFile
    /\ fwrite(rbuf)
    /\ rbuf' = <<>>
    /\ closed' = closed \union {peer}
    /\ UNCHANGED <<listening, conn, shut, up>>
    /\ UNCHANGED <<stage, peer, filename>>

\* eof: what was collected is the end of the file.
handle_write_file_eof ==
    /\ Reading("file")
    /\ EndOfFile
    /\ fwrite(rbuf)
    /\ stage' = "done"
    /\ closed' = closed \union {peer}
    /\ Closed(peer)
    /\ UNCHANGED <<listening, shut>>
    /\ UNCHANGED <<peer, rbuf, filename>>

\* Any other error, in either handler: what was collected is dropped, and the file,
\* if there is one, closed.
handle_error ==
    /\ listening
    /\ stage \in {"head", "file"}
    /\ Len(rbuf) < Wanted
    /\ Fault
    /\ stage' = "done"
    /\ Closed(peer)
    /\ UNCHANGED <<listening, shut>>
    /\ UNCHANGED <<peer, rbuf, filename, disk, closed>>

-------------------------------------------------------------------------------
\* Nothing is left to run: the constructor returns, and main.
run_returns ==
    /\ Reading("done")
    /\ ProcessEnds
    /\ UNCHANGED <<shut, faults>>
    /\ UNCHANGED servVars

\* The process is killed: what stdio had not yet written of an open file is lost.
ServerKilled ==
    /\ listening
    /\ Fault
    /\ ProcessEnds
    /\ \/ stage # "file" /\ UNCHANGED disk
       \/ /\ stage = "file"
          /\ \E n \in 0..Len(disk[filename]) :
                 disk' = [disk EXCEPT ![filename] = SubSeq(@, 1, n)]
    /\ stage' = "done"
    /\ UNCHANGED shut
    /\ UNCHANGED <<peer, rbuf, filename, closed>>

\* Somebody starts the server again.
main ==
    /\ ~listening
    /\ listening' = TRUE
    /\ stage' = "accept"
    /\ peer' = NULL
    /\ rbuf' = <<>>
    /\ UNCHANGED <<conn, shut, up, faults>>
    /\ UNCHANGED <<filename, disk, closed>>

===============================================================================
