----------------------------- MODULE TransferLink -----------------------------
(***************************************************************************)
(* What c/file_serv.c and c/file_client.c share: the requests of           *)
(* interface.h, the struct fileinfo of fileinfo.h, and one TCP connection  *)
(* per client with a byte stream in each direction.                        *)
(*                                                                         *)
(* A stream is a sequence of words.  A word is the grain at which the      *)
(* model cuts a stream: one block of a file, or one field of a struct      *)
(* fileinfo.  Words are numbers, because the program copies bytes into a   *)
(* struct with memcpy and takes whatever lands in a field for its value.   *)
(***************************************************************************)
EXTENDS Naturals, Sequences, FiniteSets

CONSTANTS
    Client,       \* the runs of filecli
    Word,         \* the values of a word
    File,         \* File[c]: the content of the file c sends (para.infile)
    Out,          \* Out[c]: the name it asks for (para.outfile)
    Md5(_),       \* the digest of a sequence of words
    NULL,         \* a null pointer, and a file that does not exist
    BUFSIZ,       \* the most words one bufferevent_read of a header takes
    SplitHeader,  \* may TCP hand over a header in more than one piece?
    OneAtATime,   \* does a client start only when no other is connected?
    DiskFull,     \* can a write to the server's disk fail?
    MaxFaults     \* bound: kills, stops and failed writes in a behaviour

\* struct fileinfo has three fields; memset leaves zeros in all of them.
HeadLen == 3

FileInfo == [name : Word, size : Word, info : Word]

NoInfo == [name |-> 0, size |-> 0, info |-> 0]

\* What readfile leaves in finfo, with the output name set after it.
InfoOf(c) == [name |-> Out[c], size |-> Len(File[c]), info |-> Md5(File[c])]

\* Mutant of encode: were the digest behind a pointer, memcpy would copy an address.
encode_pointer(finfo) == <<finfo.name, finfo.size, NULL>>

\* encode and decode are memcpy from and to the struct; a short buffer leaves
\* the fields it does not reach as memset left them.
encode(finfo) == <<finfo.name, finfo.size, finfo.info>>

decode(buf) ==
    LET field(i) == IF i <= Len(buf) THEN buf[i] ELSE 0
    IN  [name |-> field(1), size |-> field(2), info |-> field(3)]

RequestType == {"INIT", "HEAD", "DATA", "FIN"}

ASSUME LinkAssumption ==
    /\ Word \subseteq Nat
    /\ 0 \in Word
    /\ File \in [Client -> Seq(Word)]
    /\ Out \in [Client -> Word]
    /\ \A c \in Client : InfoOf(c) \in FileInfo /\ Out[c] # 0
    /\ NULL \notin Seq(Word)
    /\ BUFSIZ \in Nat
    /\ BUFSIZ >= HeadLen
    /\ SplitHeader \in BOOLEAN
    /\ OneAtATime \in BOOLEAN
    /\ DiskFull \in BOOLEAN
    /\ MaxFaults \in Nat

VARIABLES
    conn,    \* conn[c]: c's connection as the server's side has it
    hup,     \* the clients that have closed their side
    up,      \* up[c]: words on their way from c to the server
    down,    \* down[c]: requests on their way from the server to c
    sent,    \* sent[c]: every word c has handed to TCP (history)
    asked,   \* asked[c]: every request the server has written to c (history)
    faults   \* faults that have happened (counted for MaxFaults)

linkVars == <<conn, hup, up, down, sent, asked, faults>>

ConnState == {"none", "backlog", "open", "eof", "reset"}

LinkTypeOK ==
    /\ conn \in [Client -> ConnState]
    /\ hup \in SUBSET Client
    /\ up \in [Client -> Seq(Word)]
    /\ down \in [Client -> Seq(RequestType)]
    /\ sent \in [Client -> Seq(Word)]
    /\ asked \in [Client -> Seq(RequestType)]
    /\ faults \in 0..MaxFaults

LinkInit ==
    /\ conn = [c \in Client |-> "none"]
    /\ hup = {}
    /\ up = [c \in Client |-> <<>>]
    /\ down = [c \in Client |-> <<>>]
    /\ sent = [c \in Client |-> <<>>]
    /\ asked = [c \in Client |-> <<>>]
    /\ faults = 0

Fault ==
    /\ faults < MaxFaults
    /\ faults' = faults + 1

\* The server writes a request to c.
Request(c, r) ==
    /\ down' = [down EXCEPT ![c] = Append(@, r)]
    /\ asked' = [asked EXCEPT ![c] = Append(@, r)]

\* The client writes words to the server; a reset connection takes none.
Send(c, ws) ==
    \/ /\ conn[c] # "reset"
       /\ up' = [up EXCEPT ![c] = @ \o ws]
       /\ sent' = [sent EXCEPT ![c] = @ \o ws]
    \/ /\ conn[c] = "reset"
       /\ UNCHANGED <<up, sent>>

\* A place at which TCP may cut c's stream, p words from its start.  The header
\* is the first write on the connection and far below a segment's size.
MayCut(p) == SplitHeader \/ p = 0 \/ p >= HeadLen

\* The first k words on the way can be handed to the server in one piece.
Arrives(c, k) ==
    /\ k \in 1..Len(up[c])
    /\ MayCut(Len(sent[c]) - Len(up[c]) + k)

\* c's process ends: its socket closes, and what libevent had not yet passed to
\* the kernel is lost.
HangUp(c) ==
    /\ hup' = hup \union {c}
    /\ \E n \in 0..Len(up[c]) :
           /\ MayCut(Len(sent[c]) - n)
           /\ up' = [up EXCEPT ![c] = SubSeq(@, 1, Len(@) - n)]
           /\ sent' = [sent EXCEPT ![c] = SubSeq(@, 1, Len(@) - n)]

===============================================================================
