------------------------------- MODULE FileServ -------------------------------
(***************************************************************************)
(* The receiving server, c/file_serv.c, with writefile of c/interface.c.   *)
(*                                                                         *)
(* One thread runs libevent's loop, so a callback is one step.  libevent   *)
(* fills a connection's input buffer and calls read_cb in the same turn of *)
(* the loop: every read action below takes the words that arrive and runs  *)
(* the branch of read_cb that Status selects.  The thread that runs        *)
(* writefile is joined inside the callback and belongs to the step.        *)
(*                                                                         *)
(* Status is one variable for the whole process, whichever connection the  *)
(* callback is for.  finfo is a local of read_cb which the HEAD branch     *)
(* fills and a later call, in the DATA branch, reads without setting it:   *)
(* frame is what the last HEAD branch left in that stack slot, and Residue *)
(* what else a build may find there.                                       *)
(***************************************************************************)
EXTENDS TransferLink, Gaps

CONSTANT Residue  \* values, beside frame, that an unset finfo can have

ASSUME ResidueAssumption == Residue \subseteq FileInfo

VARIABLES
    serverUp,  \* is the server process running?
    Status,    \* the file-scope request type of file_serv.c
    frame,     \* the struct fileinfo last decoded by read_cb
    input,     \* input[c]: the input evbuffer of c's bufferevent
    disk       \* disk[n]: the file named n in the server's directory

servVars == <<serverUp, Status, frame, input, disk>>

ServTypeOK ==
    /\ serverUp \in BOOLEAN
    /\ Status \in RequestType
    /\ frame \in FileInfo
    /\ input \in [Client -> Seq(Word)]
    /\ disk \in [Word -> Seq(Word) \union {NULL}]

ServInit ==
    /\ serverUp = TRUE
    /\ Status = "INIT"
    /\ frame = NoInfo
    /\ input = [c \in Client |-> <<>>]
    /\ disk = [n \in Word |-> NULL]

\* Mutant of listen_cb: a transfer in progress keeps its Status, and the new client
\* is asked for whatever that is.
listen_cb_busy(c) ==
    /\ serverUp
    /\ conn[c] = "backlog"
    /\ conn' = [conn EXCEPT ![c] = "open"]
    /\ Status' = IF Status = "DATA" THEN Status ELSE "HEAD"
    /\ Request(c, Status')
    /\ UNCHANGED <<hup, up, sent, faults>>
    /\ UNCHANGED <<serverUp, frame, input, disk>>

\* The accept callback asks the new client for its header.
listen_cb(c) ==
    /\ serverUp
    /\ conn[c] = "backlog"
    /\ conn' = [conn EXCEPT ![c] = "open"]
    /\ Status' = "HEAD"
    /\ Request(c, "HEAD")
    /\ UNCHANGED <<hup, up, sent, faults>>
    /\ UNCHANGED <<serverUp, frame, input, disk>>

-------------------------------------------------------------------------------
\* read_cb(bev): k words arrive from c, behind those already in its evbuffer.
Readable(c, k) ==
    /\ serverUp
    /\ conn[c] = "open"
    /\ Arrives(c, k)

Buffered(c, k) == input[c] \o SubSeq(up[c], 1, k)

\* Mutant of Take: one evbuffer for all connections.
Take_shared(c, k, rest) ==
    /\ up' = [up EXCEPT ![c] = SubSeq(@, k + 1, Len(@))]
    /\ input' = [d \in Client |-> rest]

Take(c, k, rest) ==
    /\ up' = [up EXCEPT ![c] = SubSeq(@, k + 1, Len(@))]
    /\ input' = [input EXCEPT ![c] = rest]

\* Every connection of a process that ends is reset; its buffers go with it.
ServerGone ==
    /\ serverUp' = FALSE
    /\ conn' = [d \in Client |-> IF conn[d] = "none" THEN "none" ELSE "reset"]
    /\ up' = [d \in Client |-> <<>>]
    /\ input' = [d \in Client |-> <<>>]

\* HEAD branch: whatever has arrived, up to BUFSIZ, is decoded as the header.
ReadHead(c, k) ==
    LET buf == Buffered(c, k)
        n   == IF Len(buf) <= BUFSIZ THEN Len(buf) ELSE BUFSIZ
    IN  /\ Readable(c, k)
        /\ Status = "HEAD"
        /\ frame' = decode(SubSeq(buf, 1, n))
        /\ Take(c, k, SubSeq(buf, n + 1, Len(buf)))
        /\ Status' = "DATA"
        /\ Request(c, "DATA")
        /\ UNCHANGED <<conn, hup, sent, faults>>
        /\ UNCHANGED <<serverUp, disk>>

\* decode copies n bytes whatever n is.  When that is more than the struct holds
\* the copy runs over the stack: the step above, or the end of the process.
ReadHeadOverrun(c, k) ==
    /\ Readable(c, k)
    /\ Status = "HEAD"
    /\ Len(Buffered(c, k)) > HeadLen
    /\ ServerGone
    /\ UNCHANGED <<hup, down, sent, asked, faults>>
    /\ UNCHANGED <<Status, frame, disk>>

\* Mutant of ReadDataPart: the request after the branches, "moved outside".
ReadDataPart_asks(c, k) ==
    /\ Readable(c, k)
    /\ Status = "DATA"
    /\ \E finfo \in {frame} \union Residue : Len(Buffered(c, k)) # finfo.size
    /\ Take(c, k, Buffered(c, k))
    /\ Request(c, Status)
    /\ UNCHANGED <<conn, hup, sent, faults>>
    /\ UNCHANGED <<serverUp, Status, frame, disk>>

\* Mutant of ReadDataPart: what has arrived is read out of the evbuffer into a
\* local one.
ReadDataPart_reads(c, k) ==
    /\ Readable(c, k)
    /\ Status = "DATA"
    /\ \E finfo \in {frame} \union Residue : Len(Buffered(c, k)) # finfo.size
    /\ Take(c, k, <<>>)
    /\ UNCHANGED <<conn, hup, down, sent, asked, faults>>
    /\ UNCHANGED <<serverUp, Status, frame, disk>>

\* DATA branch, a length other than finfo.size: wait for more.
ReadDataPart(c, k) ==
    /\ Readable(c, k)
    /\ Status = "DATA"
    /\ \E finfo \in {frame} \union Residue : Len(Buffered(c, k)) # finfo.size
    /\ Take(c, k, Buffered(c, k))
    /\ UNCHANGED <<conn, hup, down, sent, asked, faults>>
    /\ UNCHANGED <<serverUp, Status, frame, disk>>

\* Mutant of writefile: fwrite's result is not added up.
writefile_unchecked(finfo, buf, total) == 0

\* writefile's result: only a short write counts.  A digest other than finfo.info
\* sets ret, but the function ends with "return 0".
writefile(finfo, buf, total) == IF total # Len(buf) THEN 1 ELSE 0

\* The loop of writefile goes on after a short fwrite, so words can land behind
\* missing ones: part is what is in the file in the end, and total what the calls of
\* fwrite added up to.  When they took everything, the file can still lose its end
\* at fclose, whose result nobody looks at.
OnDisk(buf, part, total) ==
    /\ \/ part = buf /\ UNCHANGED faults
       \/ part # buf /\ DiskFull /\ Fault
    /\ total = Len(buf) => part = SubSeq(buf, 1, Len(part))

\* DATA branch, the length is finfo.size: writefile drains the evbuffer into the
\* file, and its result decides the request.
ReadDataWrite(c, k, finfo) ==
    LET buf == Buffered(c, k)
    IN  /\ Readable(c, k)
        /\ Status = "DATA"
        /\ Len(buf) = finfo.size
        /\ finfo.name # 0
        /\ \E part \in Gapped(buf) : \E total \in Len(part)..Len(buf) :
               LET ret    == writefile(finfo, buf, total)
                   answer == IF ret # 0 THEN "DATA" ELSE "FIN"
               IN  /\ OnDisk(buf, part, total)
                   /\ disk' = [disk EXCEPT ![finfo.name] = part]
                   /\ Status' = answer
                   /\ Request(c, answer)
        /\ Take(c, k, <<>>)
        /\ UNCHANGED <<conn, hup, sent>>
        /\ UNCHANGED <<serverUp, frame>>

\* writefile cannot open an empty name, and its assert ends the process.
ReadDataNoName(c, k, finfo) ==
    /\ Readable(c, k)
    /\ Status = "DATA"
    /\ Len(Buffered(c, k)) = finfo.size
    /\ finfo.name = 0
    /\ ServerGone
    /\ UNCHANGED <<hup, down, sent, asked, faults>>
    /\ UNCHANGED <<Status, frame, disk>>

\* The process is killed while writefile writes: some of the file is there, its
\* beginning unless the disk was full before.
KilledInWrite(c, k, finfo) ==
    LET buf == Buffered(c, k)
    IN  /\ Readable(c, k)
        /\ Status = "DATA"
        /\ Len(buf) = finfo.size
        /\ finfo.name # 0
        /\ Fault
        /\ \E part \in Gapped(buf) :
               /\ DiskFull \/ part = SubSeq(buf, 1, Len(part))
               /\ disk' = [disk EXCEPT ![finfo.name] = part]
        /\ ServerGone
        /\ UNCHANGED <<hup, down, sent, asked>>
        /\ UNCHANGED <<Status, frame>>

\* Neither branch: the words stay in the evbuffer and nothing is asked.
ReadIgnored(c, k) ==
    /\ Readable(c, k)
    /\ Status \notin {"HEAD", "DATA"}
    /\ Take(c, k, Buffered(c, k))
    /\ UNCHANGED <<conn, hup, down, sent, asked, faults>>
    /\ UNCHANGED <<serverUp, Status, frame, disk>>

read_cb(c) ==
    \E k \in 1..Len(up[c]) :
        \/ ReadHead(c, k)
        \/ ReadHeadOverrun(c, k)
        \/ ReadDataPart(c, k)
        \/ ReadIgnored(c, k)
        \/ \E finfo \in {frame} \union Residue :
               \/ ReadDataNoName(c, k, finfo)
               \/ ReadDataWrite(c, k, finfo)

killed_in_writefile(c) ==
    \E k \in 1..Len(up[c]) : \E finfo \in {frame} \union Residue :
        KilledInWrite(c, k, finfo)

-------------------------------------------------------------------------------
\* EOF: the callback only logs.  libevent stops reading the connection; the
\* bufferevent, its buffer and its socket stay, for bufferevent_free is commented
\* out.
event_cb(c) ==
    /\ serverUp
    /\ conn[c] = "open"
    /\ c \in hup
    /\ up[c] = <<>>
    /\ conn' = [conn EXCEPT ![c] = "eof"]
    /\ UNCHANGED <<hup, up, down, sent, asked, faults>>
    /\ UNCHANGED servVars

\* SIGINT ends the loop, and with it the process.  (A SIGPIPE, on a second write to
\* a client that has gone, ends it too: the same step, after the write.)
signal_cb ==
    /\ serverUp
    /\ Fault
    /\ ServerGone
    /\ UNCHANGED <<hup, down, sent, asked>>
    /\ UNCHANGED <<Status, frame, disk>>

\* The server is started again: main, with the statics as they are loaded.
main ==
    /\ ~serverUp
    /\ serverUp' = TRUE
    /\ Status' = "INIT"
    /\ frame' = NoInfo
    /\ UNCHANGED linkVars
    /\ UNCHANGED <<input, disk>>

===============================================================================
