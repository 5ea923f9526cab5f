--------------------------- MODULE LibeventTransfer ---------------------------
(***************************************************************************)
(* The libevent programs of c/ together: one fileserv, and one filecli per *)
(* member of Client, on the connections of TransferLink.                   *)
(*                                                                         *)
(* Two regimes are of interest.  In the orderly one (Orderly below) a      *)
(* client is started only when no other is connected, a header is never    *)
(* cut, and the stack slot of finfo survives between two callbacks: there  *)
(* the programs implement FileTransfer.  In the crowd none of this is      *)
(* assumed, and only the properties of the second part hold.               *)
(***************************************************************************)
EXTENDS FileServ, FileClient, SequencesExt

vars == <<linkVars, servVars, cliVars>>

Init == LinkInit /\ ServInit /\ CliInit

\* The steps of the server's process, and those of a client's.
ServListen(c) == listen_cb(c) /\ UNCHANGED cliVars
ServRead(c)   == read_cb(c) /\ UNCHANGED cliVars
ServEvent(c)  == event_cb(c) /\ UNCHANGED cliVars
ServKilled(c) == killed_in_writefile(c) /\ UNCHANGED cliVars
ServSignal    == signal_cb /\ UNCHANGED cliVars
ServMain      == main /\ UNCHANGED cliVars

CliConnect(c) == serverUp /\ Launch(c) /\ UNCHANGED servVars
CliRefused(c) == ~serverUp /\ Refused(c) /\ UNCHANGED servVars
CliRead(c)    == read_cb_cli(c) /\ UNCHANGED servVars
CliEvent(c)   == event_cb_cli(c) /\ UNCHANGED servVars
CliKilled(c)  == ClientKilled(c) /\ UNCHANGED servVars

Next ==
    \/ \E c \in Client :
           \/ ServListen(c) \/ ServRead(c) \/ ServEvent(c) \/ ServKilled(c)
           \/ CliConnect(c) \/ CliRefused(c)
           \/ CliRead(c) \/ CliEvent(c) \/ CliKilled(c)
    \/ ServSignal
    \/ ServMain

Spec == Init /\ [][Next]_vars

\* libevent's loops poll level-triggered sockets: while a connection waits, bytes
\* are there to read or the peer has closed, the callback for it is run again and
\* again.  Nobody promises that a client is started or a server started again.
Fairness ==
    \A c \in Client :
        /\ WF_vars(ServListen(c))
        /\ WF_vars(ServRead(c))
        /\ WF_vars(ServEvent(c))
        /\ WF_vars(CliRead(c))
        /\ WF_vars(CliEvent(c))

FairSpec == Spec /\ Fairness

TypeOK == LinkTypeOK /\ ServTypeOK /\ CliTypeOK

Asked(c, r) == \E i \in 1..Len(asked[c]) : asked[c][i] = r

-------------------------------------------------------------------------------
(* In the orderly regime. *)

Orderly == OneAtATime /\ ~SplitHeader /\ Residue = {}

\* A client is asked for FIN only after its file has been written from its first word
\* to its last, and the file stays: while the server is stopped, killed and started
\* again, while other clients send files of other names, whole or cut short.  Only its
\* end can be missing, and only if the disk was full: fclose says so, to nobody.
FinMeansStored ==
    \A c \in Client :
        (Asked(c, "FIN") /\ \A d \in Client \ {c} : Out[d] # Out[c])
            => /\ disk[Out[c]] # NULL
               /\ IsPrefix(disk[Out[c]], File[c])
               /\ (DiskFull /\ faults > 0) \/ disk[Out[c]] = File[c]

\* While the server waits for a file, the header it holds is that of the client
\* whose connection is open: Status and finfo, of which there is one for all
\* connections, never belong to an earlier client.
FrameIsCurrent ==
    \A c \in Client :
        (serverUp /\ Status = "DATA" /\ conn[c] = "open") => frame = InfoOf(c)

\* A client reads one request per callback and is not called again for those left
\* in its buffer: none is ever left, for the server never asks twice before an
\* answer.
NoRequestStranded == \A c \in Client : cin[c] = <<>>

\* The two programs implement the transfer a user is promised.
FT == INSTANCE FileTransfer WITH
          Name    <- Word,
          begun   <- {c \in Client : cli[c] # "idle"},
          written <- {c \in Client : Asked(c, "FIN")},
          told    <- {c \in Client : cli[c] = "done"},
          store   <- disk,
          Lossy   <- DiskFull

Transfer == FT!Spec

\* A client that has started to send a file it can open ends with FIN, unless
\* somewhere something fails or is killed.
Finishes ==
    \A c \in HasInfile : cli[c] = "run" ~> (cli[c] = "done" \/ faults > 0)

\* Whatever stops or is killed, no client waits for ever.
NobodyWaitsForEver ==
    \A c \in Client : cli[c] = "run" ~> cli[c] \in {"done", "gone"}

-------------------------------------------------------------------------------
(* In every regime. *)

\* The first request a client serves is HEAD, the only one that creates the
\* evbuffer which DATA and FIN use without a look at the pointer: whatever other
\* connections do to the server's one Status.
HeadComesFirst ==
    \A c \in Client :
        (cli[c] = "run" /\ buf[c] = NULL /\ down[c] # <<>>)
            => Head(cin[c] \o down[c]) = "HEAD"

\* What c's connection should carry: its header, then its file, each once.
Stream(c) == encode(InfoOf(c)) \o File[c]

\* A client sends its header and its file once each and in this order, however
\* often and in whatever order it is asked for them.
SentInOrder == \A c \in Client : IsPrefix(sent[c], Stream(c))

\* Part is a run of consecutive words of s.
Within(part, s) ==
    \E i \in 1..Len(s) + 1 : \E j \in 0..Len(s) : part = SubSeq(s, i, j)

\* Even when the server takes one client's words for another's, a file on its disk
\* holds words from one connection only, in their order: the buffers of two
\* connections are never mixed.  They are consecutive unless the disk was full.
StoredFromOneStream ==
    \A n \in Word :
        disk[n] # NULL =>
            \E c \in Client :
                /\ IsGapped(disk[n], Stream(c))
                /\ (DiskFull /\ faults > 0) \/ Within(disk[n], Stream(c))

\* writefile's return value is "0 for success, 1 for failure", and a digest other
\* than the header's is a failure: FIN is asked for only after the digests agree.
FinAfterCheck ==
    [][\A c \in Client :
           asked'[c] = Append(asked[c], "FIN")
               => Md5(disk'[frame.name]) = frame.info]_vars

===============================================================================
