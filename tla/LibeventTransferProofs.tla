------------------------ MODULE LibeventTransferProofs ------------------------
(***************************************************************************)
(* Theorems about LibeventTransfer, for every set of clients, files, names *)
(* and bounds.                                                             *)
(***************************************************************************)
EXTENDS LibeventTransfer, SequenceFacts

-------------------------------------------------------------------------------
(* Types. *)

\* The header of a transfer has three words, all of them words.
LEMMA HeaderType ==
    ASSUME NEW finfo \in FileInfo
    PROVE  /\ encode(finfo) \in Seq(Word)
           /\ Len(encode(finfo)) = HeadLen
  BY DEF encode, FileInfo, HeadLen

\* Whatever words decode is given, it fills the struct with words.
LEMMA DecodeType ==
    ASSUME NEW s \in Seq(Word)
    PROVE  decode(s) \in FileInfo
  <1>1. ASSUME NEW i \in Nat \ {0}
        PROVE  (IF i <= Len(s) THEN s[i] ELSE 0) \in Word
    BY LenProperties, ElementOfSeq, LinkAssumption
  <1> QED
    BY <1>1 DEF decode, FileInfo

LEMMA ConstantTypes ==
    /\ \A c \in Client : /\ File[c] \in Seq(Word)
                         /\ File[c] # NULL
                         /\ InfoOf(c) \in FileInfo
                         /\ encode(InfoOf(c)) \in Seq(Word)
    /\ NoInfo \in FileInfo
    /\ \A finfo \in FileInfo : finfo.size \in Nat /\ finfo.name \in Word
  BY LinkAssumption, HeaderType DEF NoInfo, FileInfo

LEMMA TypeInit == Init => TypeOK
  BY LinkAssumption, ConstantTypes
  DEF Init, LinkInit, ServInit, CliInit, TypeOK, LinkTypeOK, ServTypeOK, CliTypeOK,
      ConnState, RequestType, CliState

\* What the helper actions leave well typed.
LEMMA RequestKeepsType ==
    ASSUME TypeOK, NEW c \in Client, NEW r \in RequestType, Request(c, r)
    PROVE  /\ down' \in [Client -> Seq(RequestType)]
           /\ asked' \in [Client -> Seq(RequestType)]
  <1>1. /\ Append(down[c], r) \in Seq(RequestType)
        /\ Append(asked[c], r) \in Seq(RequestType)
    BY AppendProperties DEF TypeOK, LinkTypeOK
  <1> QED
    BY <1>1 DEF Request, TypeOK, LinkTypeOK

LEMMA HangUpKeepsType ==
    ASSUME TypeOK, NEW c \in Client, HangUp(c)
    PROVE  /\ hup' \in SUBSET Client
           /\ up' \in [Client -> Seq(Word)]
           /\ sent' \in [Client -> Seq(Word)]
  <1>1. PICK n \in 0..Len(up[c]) :
            /\ MayCut(Len(sent[c]) - n)
            /\ up' = [up EXCEPT ![c] = SubSeq(@, 1, Len(@) - n)]
            /\ sent' = [sent EXCEPT ![c] = SubSeq(@, 1, Len(@) - n)]
    BY DEF HangUp
  <1>2. up[c] \in Seq(Word) /\ sent[c] \in Seq(Word)
    BY DEF TypeOK, LinkTypeOK
  <1>3. SubSeq(up[c], 1, Len(up[c]) - n) \in Seq(Word)
    BY <1>2, LenProperties, SubSeqIsSeq
  <1>4. SubSeq(sent[c], 1, Len(sent[c]) - n) \in Seq(Word)
    BY <1>2, LenProperties, SubSeqIsSeq
  <1> QED
    BY <1>1, <1>3, <1>4 DEF HangUp, TypeOK, LinkTypeOK

LEMMA TakeKeepsType ==
    ASSUME TypeOK, NEW c \in Client, NEW k \in 1..Len(up[c]),
           NEW rest \in Seq(Word), Take(c, k, rest)
    PROVE  /\ up' \in [Client -> Seq(Word)]
           /\ input' \in [Client -> Seq(Word)]
  <1>1. up[c] \in Seq(Word) /\ k \in 0..Len(up[c])
    BY LenProperties DEF TypeOK, LinkTypeOK
  <1>2. SubSeq(up[c], k + 1, Len(up[c])) \in Seq(Word)
    BY <1>1, Split
  <1> QED
    BY <1>2 DEF Take, TypeOK, LinkTypeOK, ServTypeOK

LEMMA BufferedType ==
    ASSUME TypeOK, NEW c \in Client, NEW k \in 1..Len(up[c])
    PROVE  /\ Buffered(c, k) \in Seq(Word)
           /\ Len(Buffered(c, k)) = Len(input[c]) + k
           /\ Len(input[c]) \in Nat
  <1>1. up[c] \in Seq(Word) /\ input[c] \in Seq(Word) /\ k \in 0..Len(up[c])
    BY LenProperties DEF TypeOK, LinkTypeOK, ServTypeOK
  <1>2. SubSeq(up[c], 1, k) \in Seq(Word) /\ Len(SubSeq(up[c], 1, k)) = k
    BY <1>1, Split
  <1> QED
    BY <1>1, <1>2, ConcatProperties, LenProperties DEF Buffered

LEMMA ServerGoneKeepsType ==
    ASSUME TypeOK, ServerGone
    PROVE  /\ serverUp' \in BOOLEAN
           /\ conn' \in [Client -> ConnState]
           /\ up' \in [Client -> Seq(Word)]
           /\ input' \in [Client -> Seq(Word)]
  <1>1. \A d \in Client :
            (IF conn[d] = "none" THEN "none" ELSE "reset") \in ConnState
    BY DEF ConnState
  <1>2. <<>> \in Seq(Word)
    BY EmptySeq
  <1> QED
    BY <1>1, <1>2 DEF ServerGone

LEMMA FaultKeepsType ==
    ASSUME TypeOK, Fault
    PROVE  faults' \in 0..MaxFaults
  BY LinkAssumption DEF Fault, TypeOK, LinkTypeOK

LEMMA SendKeepsType ==
    ASSUME TypeOK, NEW c \in Client, NEW ws \in Seq(Word), Send(c, ws)
    PROVE  /\ up' \in [Client -> Seq(Word)]
           /\ sent' \in [Client -> Seq(Word)]
  <1>1. up[c] \o ws \in Seq(Word) /\ sent[c] \o ws \in Seq(Word)
    BY ConcatProperties DEF TypeOK, LinkTypeOK
  <1> QED
    BY <1>1 DEF Send, TypeOK, LinkTypeOK

LEMMA ReceivesKeepsType ==
    ASSUME TypeOK, NEW c \in Client, NEW k \in 1..Len(down[c]), NEW r,
           Receives(c, k, r)
    PROVE  /\ cin' \in [Client -> Seq(RequestType)]
           /\ down' \in [Client -> Seq(RequestType)]
  <1>1. down[c] \in Seq(RequestType) /\ cin[c] \in Seq(RequestType)
    BY DEF TypeOK, LinkTypeOK, CliTypeOK
  <1>2. /\ SubSeq(down[c], 1, k) \in Seq(RequestType)
        /\ Len(SubSeq(down[c], 1, k)) = k
        /\ SubSeq(down[c], k + 1, Len(down[c])) \in Seq(RequestType)
    BY <1>1, LenProperties, Split
  <1>3. /\ cin[c] \o SubSeq(down[c], 1, k) \in Seq(RequestType)
        /\ Len(cin[c] \o SubSeq(down[c], 1, k)) # 0
    BY <1>1, <1>2, LenProperties, ConcatProperties
  <1>4. Tail(cin[c] \o SubSeq(down[c], 1, k)) \in Seq(RequestType)
    BY <1>3, HeadTailProperties, EmptySeq
  <1> QED
    BY <1>2, <1>4 DEF Receives, TypeOK, LinkTypeOK, CliTypeOK

\* Every step of the server's read callback keeps the types.
LEMMA ServReadKeepsType ==
    ASSUME TypeOK, NEW c \in Client, ServRead(c)
    PROVE  TypeOK'
  <1> USE DEF RequestType
  <1>1. PICK k \in 1..Len(up[c]) :
            \/ ReadHead(c, k)
            \/ ReadHeadOverrun(c, k)
            \/ ReadDataPart(c, k)
            \/ ReadIgnored(c, k)
            \/ \E finfo \in {frame} \union Residue :
                   \/ ReadDataNoName(c, k, finfo)
                   \/ ReadDataWrite(c, k, finfo)
    BY DEF ServRead, read_cb
  <1> DEFINE b == Buffered(c, k)
  <1>2. b \in Seq(Word) /\ Len(b) \in Nat
    BY BufferedType, LenProperties
  <1>3. CASE ReadHead(c, k)
    <2> DEFINE n == IF Len(b) <= BUFSIZ THEN Len(b) ELSE BUFSIZ
    <2>1. n \in 0..Len(b)
      BY <1>2, LinkAssumption
    <2>2. SubSeq(b, 1, n) \in Seq(Word) /\ SubSeq(b, n + 1, Len(b)) \in Seq(Word)
      BY <1>2, <2>1, Split
    <2>3. decode(SubSeq(b, 1, n)) \in FileInfo
      BY <2>2, DecodeType
    <2>4. Take(c, k, SubSeq(b, n + 1, Len(b))) /\ Request(c, "DATA")
      BY <1>3 DEF ReadHead
    <2> QED
      BY <1>3, <2>2, <2>3, <2>4, TakeKeepsType, RequestKeepsType
      DEF ReadHead, ServRead, cliVars, TypeOK, LinkTypeOK, ServTypeOK, CliTypeOK
  <1>4. CASE ReadHeadOverrun(c, k)
    BY <1>4, ServerGoneKeepsType
    DEF ReadHeadOverrun, ServRead, cliVars, TypeOK, LinkTypeOK, ServTypeOK, CliTypeOK
  <1>5. CASE ReadDataPart(c, k)
    BY <1>5, <1>2, TakeKeepsType
    DEF ReadDataPart, ServRead, cliVars, TypeOK, LinkTypeOK, ServTypeOK, CliTypeOK
  <1>6. CASE ReadIgnored(c, k)
    BY <1>6, <1>2, TakeKeepsType
    DEF ReadIgnored, ServRead, cliVars, TypeOK, LinkTypeOK, ServTypeOK, CliTypeOK
  <1>7. ASSUME NEW finfo \in {frame} \union Residue, ReadDataNoName(c, k, finfo)
        PROVE  TypeOK'
    BY <1>7, ServerGoneKeepsType
    DEF ReadDataNoName, ServRead, cliVars, TypeOK, LinkTypeOK, ServTypeOK, CliTypeOK
  <1>8. ASSUME NEW finfo \in {frame} \union Residue, ReadDataWrite(c, k, finfo)
        PROVE  TypeOK'
    <2>1. PICK part \in Gapped(b), answer \in RequestType :
              /\ \/ UNCHANGED faults
                 \/ Fault
              /\ disk' = [disk EXCEPT ![finfo.name] = part]
              /\ Request(c, answer) /\ Status' = answer
      BY <1>8 DEF ReadDataWrite, OnDisk
    <2>2. part \in Seq(Word) /\ <<>> \in Seq(Word)
      BY <1>2, GappedType, EmptySeq
    <2>3. Take(c, k, <<>>)
      BY <1>8 DEF ReadDataWrite
    <2>4. faults' \in 0..MaxFaults
      BY <2>1, LinkAssumption DEF Fault, TypeOK, LinkTypeOK
    <2>5. disk' \in [Word -> Seq(Word) \union {NULL}]
      BY <2>1, <2>2 DEF TypeOK, ServTypeOK
    <2> QED
      BY <1>8, <2>1, <2>2, <2>3, <2>4, <2>5, TakeKeepsType, RequestKeepsType
      DEF ReadDataWrite, ServRead, cliVars, TypeOK, LinkTypeOK, ServTypeOK, CliTypeOK
  <1> QED
    BY <1>1, <1>3, <1>4, <1>5, <1>6, <1>7, <1>8

-------------------------------------------------------------------------------
(* The order of the requests. *)

Later == {"DATA", "FIN"}

\* HEAD is the first request on a connection and never comes again: a running
\* client that has not read it has it first in line, or has not been accepted.
RequestOrderOf(c) ==
    /\ cli[c] = "idle" =>
           conn[c] = "none" /\ buf[c] = NULL /\ cin[c] = <<>> /\ c \notin hup
    /\ conn[c] \in {"none", "backlog"} => down[c] = <<>>
    /\ cli[c] = "run" =>
           /\ c \notin hup
           /\ conn[c] \notin {"none", "eof"}
           /\ conn[c] = "backlog" => buf[c] = NULL
           /\ \A i \in 1..Len(cin[c]) : cin[c][i] \in Later
           /\ \A i \in 2..Len(down[c]) : down[c][i] \in Later
           /\ buf[c] = NULL =>
                  /\ cin[c] = <<>>
                  /\ conn[c] = "open" => down[c] # <<>>
                  /\ down[c] # <<>> => down[c][1] = "HEAD"
           /\ buf[c] # NULL /\ down[c] # <<>> => down[c][1] \in Later

RequestOrder == \A c \in Client : RequestOrderOf(c)

\* The request that a client's callback takes: HEAD while it has no evbuffer, and
\* no HEAD once it has one; those behind it are not HEAD.
LEMMA FirstRead ==
    ASSUME TypeOK, RequestOrder, NEW c \in Client, cli[c] = "run",
           NEW k \in 1..Len(down[c])
    PROVE  LET z == cin[c] \o SubSeq(down[c], 1, k)
           IN  /\ buf[c] = NULL => Head(z) = "HEAD"
               /\ buf[c] # NULL => Head(z) \in Later
               /\ Tail(z) \in Seq(RequestType)
               /\ \A i \in 1..Len(Tail(z)) : Tail(z)[i] \in Later
  <1> DEFINE d == SubSeq(down[c], 1, k)
             z == cin[c] \o d
  <1>1. /\ down[c] \in Seq(RequestType) /\ cin[c] \in Seq(RequestType)
        /\ Len(down[c]) \in Nat /\ Len(cin[c]) \in Nat
        /\ k \in 1..Len(down[c])
    BY LenProperties DEF TypeOK, LinkTypeOK, CliTypeOK
  <1>2. /\ d \in Seq(RequestType)
        /\ Len(d) = k
        /\ \A i \in 1..k : d[i] = down[c][i]
    BY <1>1, SubSeqIsSeq
  <1>3. /\ z \in Seq(RequestType)
        /\ Len(z) = Len(cin[c]) + k
        /\ \A i \in 1..Len(z) :
               z[i] = IF i <= Len(cin[c]) THEN cin[c][i] ELSE d[i - Len(cin[c])]
    BY <1>1, <1>2, ConcatProperties
  <1> HIDE DEF z, d
  <1>4. z # <<>> /\ Len(z) >= 1
    BY <1>1, <1>3, EmptySeq
  <1>5. /\ Tail(z) \in Seq(RequestType)
        /\ Len(Tail(z)) = Len(z) - 1
        /\ \A i \in 1..Len(Tail(z)) : Tail(z)[i] = z[i + 1]
    BY <1>3, <1>4, HeadTailProperties
  <1>6. down[c] # <<>>
    BY <1>1, EmptySeq
  <1>7. Head(z) = z[1]
    BY <1>4
  <1>8. z[1] = IF Len(cin[c]) = 0 THEN down[c][1] ELSE cin[c][1]
    BY <1>1, <1>2, <1>3
  <1>9. ASSUME NEW i \in 2..Len(z) PROVE z[i] \in Later
    <2> USE DEF RequestOrderOf
    <2>0. RequestOrderOf(c)
      BY DEF RequestOrder
    <2>1. CASE i <= Len(cin[c])
      <3>1. i \in 1..Len(cin[c]) /\ i \in 1..Len(z)
        BY <2>1, <1>1
      <3>2. z[i] = cin[c][i]
        BY <2>1, <3>1, <1>3
      <3> QED
        BY <2>0, <3>1, <3>2
    <2>2. CASE i > Len(cin[c]) /\ i - Len(cin[c]) > 1
      <3> DEFINE j == i - Len(cin[c])
      <3>1. j \in 1..k /\ j \in 2..Len(down[c]) /\ ~(i <= Len(cin[c]))
        <4>1. /\ Len(z) = Len(cin[c]) + k
              /\ Len(cin[c]) \in Nat /\ Len(down[c]) \in Nat
          BY <1>1, <1>3
        <4> QED
          BY ONLY <2>2, <4>1, i \in 2..Len(z), k \in 1..Len(down[c])
      <3>2. z[i] = d[j]
        BY <3>1, <1>3
      <3>3. d[j] = down[c][j]
        BY <3>1, <1>2
      <3> QED
        BY <2>0, <3>1, <3>2, <3>3
    <2>3. CASE i = Len(cin[c]) + 1
      <3>1. cin[c] # <<>> /\ buf[c] # NULL
        BY <2>0, <2>3, <1>1, EmptySeq
      <3>2. i - Len(cin[c]) = 1 /\ 1 \in 1..k
        BY <2>3, <1>1
      <3>3. ~(i <= Len(cin[c])) /\ i \in 1..Len(z)
        BY <2>3, <1>1
      <3>4. z[i] = d[i - Len(cin[c])]
        BY <3>3, <1>3
      <3>5. d[1] = down[c][1]
        BY <3>2, <1>2
      <3> QED
        BY <2>0, <3>1, <3>2, <3>4, <3>5, <1>6
    <2> QED
      BY <2>1, <2>2, <2>3, <1>1
  <1>10. buf[c] = NULL => z[1] = "HEAD"
    BY <1>8, <1>6, EmptySeq DEF RequestOrder, RequestOrderOf
  <1>11. buf[c] # NULL => z[1] \in Later
    BY <1>8, <1>6, <1>1 DEF RequestOrder, RequestOrderOf
  <1>12. \A i \in 1..Len(Tail(z)) : Tail(z)[i] \in Later
    BY <1>1, <1>3, <1>5, <1>9
  <1> QED
    BY <1>5, <1>7, <1>10, <1>11, <1>12 DEF z, d

\* Every step of the client's read callback keeps the types, provided DATA does not
\* find the evbuffer NULL.
LEMMA CliReadKeepsType ==
    ASSUME TypeOK, RequestOrder, NEW c \in Client, CliRead(c)
    PROVE  TypeOK'
  <1> USE DEF RequestType, CliState
  <1>1. PICK k \in 1..Len(down[c]) :
            \/ ReadHeadRequest(c, k)
            \/ AbortNoInfile(c, k)
            \/ ReadDataRequest(c, k)
            \/ ReadFin(c, k)
    BY DEF CliRead, read_cb_cli
  <1>2. CASE ReadHeadRequest(c, k)
    BY <1>2, ConstantTypes, SendKeepsType, ReceivesKeepsType
    DEF ReadHeadRequest, CliRead, servVars, TypeOK, LinkTypeOK, ServTypeOK, CliTypeOK
  <1>3. CASE AbortNoInfile(c, k)
    BY <1>3, HangUpKeepsType, ReceivesKeepsType
    DEF AbortNoInfile, CliRead, servVars, TypeOK, LinkTypeOK, ServTypeOK, CliTypeOK
  <1>4. CASE ReadDataRequest(c, k)
    <2>1. buf[c] \in Seq(Word)
      BY <1>4, FirstRead DEF ReadDataRequest, Receives, TypeOK, CliTypeOK
    <2>2. <<>> \in Seq(Word)
      BY EmptySeq
    <2> QED
      BY <1>4, <2>1, <2>2, SendKeepsType, ReceivesKeepsType
      DEF ReadDataRequest, CliRead, servVars, TypeOK, LinkTypeOK, ServTypeOK,
          CliTypeOK
  <1>5. CASE ReadFin(c, k)
    BY <1>5, HangUpKeepsType, ReceivesKeepsType
    DEF ReadFin, CliRead, servVars, TypeOK, LinkTypeOK, ServTypeOK, CliTypeOK
  <1> QED
    BY <1>1, <1>2, <1>3, <1>4, <1>5

LEMMA TypeStep == TypeOK /\ RequestOrder /\ [Next]_vars => TypeOK'
  <1> SUFFICES ASSUME TypeOK, RequestOrder, [Next]_vars
               PROVE  TypeOK'
    OBVIOUS
  <1> USE DEF TypeOK, LinkTypeOK, ServTypeOK, CliTypeOK, linkVars, servVars, cliVars,
              ConnState, CliState, RequestType
  <1>1. ASSUME NEW c \in Client, ServListen(c) PROVE TypeOK'
    BY <1>1, RequestKeepsType DEF ServListen, listen_cb
  <1>2. ASSUME NEW c \in Client, ServRead(c) PROVE TypeOK'
    BY <1>2, ServReadKeepsType
  <1>3. ASSUME NEW c \in Client, ServEvent(c) PROVE TypeOK'
    BY <1>3 DEF ServEvent, event_cb
  <1>4. ASSUME NEW c \in Client, ServKilled(c) PROVE TypeOK'
    <2>1. PICK k \in 1..Len(up[c]), finfo \in {frame} \union Residue :
              KilledInWrite(c, k, finfo)
      BY <1>4 DEF ServKilled, killed_in_writefile
    <2>2. PICK part \in Gapped(Buffered(c, k)) :
              disk' = [disk EXCEPT ![finfo.name] = part]
      BY <2>1 DEF KilledInWrite
    <2>3. part \in Seq(Word)
      BY BufferedType, GappedType
    <2> QED
      BY <1>4, <2>1, <2>2, <2>3, ServerGoneKeepsType, FaultKeepsType
      DEF ServKilled, KilledInWrite
  <1>5. ASSUME NEW c \in Client, CliConnect(c) PROVE TypeOK'
    BY <1>5 DEF CliConnect, Launch
  <1>6. ASSUME NEW c \in Client, CliRefused(c) PROVE TypeOK'
    BY <1>6 DEF CliRefused, Refused
  <1>7. ASSUME NEW c \in Client, CliRead(c) PROVE TypeOK'
    BY <1>7, CliReadKeepsType
  <1>8. ASSUME NEW c \in Client, CliEvent(c) PROVE TypeOK'
    BY <1>8, HangUpKeepsType DEF CliEvent, event_cb_cli
  <1>9. ASSUME NEW c \in Client, CliKilled(c) PROVE TypeOK'
    BY <1>9, HangUpKeepsType, FaultKeepsType DEF CliKilled, ClientKilled
  <1>10. CASE ServSignal
    BY <1>10, ServerGoneKeepsType, FaultKeepsType DEF ServSignal, signal_cb
  <1>11. CASE ServMain
    BY <1>11, ConstantTypes DEF ServMain, main
  <1>12. CASE UNCHANGED vars
    BY <1>12 DEF vars
  <1> QED
    BY <1>1, <1>2, <1>3, <1>4, <1>5, <1>6, <1>7, <1>8, <1>9, <1>10, <1>11, <1>12
    DEF Next

LEMMA OrderInit == Init => RequestOrder
  BY EmptySeq
  DEF Init, LinkInit, ServInit, CliInit, RequestOrder, RequestOrderOf

\* A request the server adds behind others, or to a connection just accepted.
LEMMA RequestKeepsOrder ==
    ASSUME TypeOK, RequestOrder, NEW c \in Client, NEW r \in RequestType,
           Request(c, r), UNCHANGED <<hup, cli, buf, cin>>,
           \/ /\ r \in Later /\ conn[c] = "open" /\ UNCHANGED conn
           \/ /\ r = "HEAD" /\ conn[c] = "backlog"
              /\ conn' = [conn EXCEPT ![c] = "open"]
    PROVE  RequestOrder'
  <1> SUFFICES ASSUME NEW e \in Client PROVE RequestOrderOf(e)'
    BY DEF RequestOrder
  <1>1. RequestOrderOf(e)
    BY DEF RequestOrder
  <1>2. CASE e # c
    BY <1>1, <1>2 DEF RequestOrderOf, Request, TypeOK, LinkTypeOK
  <1>3. CASE e = c
    <2>1. /\ down[c] \in Seq(RequestType) /\ Len(down[c]) \in Nat
          /\ down'[c] = Append(down[c], r)
          /\ conn'[c] = "open"
      BY LenProperties DEF Request, TypeOK, LinkTypeOK
    <2>2. /\ down'[c] # <<>>
          /\ Len(down'[c]) = Len(down[c]) + 1
          /\ \A i \in 1..Len(down[c]) : down'[c][i] = down[c][i]
          /\ down'[c][Len(down[c]) + 1] = r
      BY <2>1, AppendProperties
    <2>3. CASE down[c] = <<>>
      <3>1. Len(down[c]) = 0
        BY <2>3, EmptySeq
      <3>2. down'[c][1] = r /\ 1..Len(down'[c]) = {1} /\ 2..Len(down'[c]) = {}
        BY <2>2, <3>1
      <3> QED
        BY <1>1, <1>3, <2>1, <2>2, <2>3, <3>2 DEF RequestOrderOf
    <2>4. CASE down[c] # <<>>
      <3>1. Len(down[c]) >= 1 /\ r \in Later
        BY <1>1, <1>3, <2>1, <2>4, EmptySeq DEF RequestOrderOf
      <3>2. down'[c][1] = down[c][1]
        BY <2>1, <2>2, <3>1
      <3>3. \A i \in 2..Len(down'[c]) :
                i \in 2..Len(down[c]) \/ i = Len(down[c]) + 1
        BY <2>1, <2>2
      <3> QED
        BY <1>1, <1>3, <2>1, <2>2, <2>4, <3>1, <3>2, <3>3 DEF RequestOrderOf
    <2> QED
      BY <2>3, <2>4
  <1> QED
    BY <1>2, <1>3

\* The server's end leaves the requests where they are.
LEMMA ServerGoneKeepsOrder ==
    ASSUME TypeOK, RequestOrder, ServerGone, UNCHANGED <<hup, down, cli, buf, cin>>
    PROVE  RequestOrder'
  BY DEF RequestOrder, RequestOrderOf, ServerGone, TypeOK, LinkTypeOK

\* A client that ends has no order to keep.
LEMMA EndKeepsOrder ==
    ASSUME TypeOK, RequestOrder, NEW c \in Client, cli[c] = "run",
           cli' \in [Client -> CliState], cli'[c] \in {"done", "gone"},
           \A e \in Client \ {c} :
               /\ cli'[e] = cli[e] /\ buf'[e] = buf[e]
               /\ cin'[e] = cin[e] /\ down'[e] = down[e]
               /\ e \in hup' => e \in hup,
           down[c] = <<>> => down'[c] = <<>>,
           UNCHANGED conn
    PROVE  RequestOrder'
  BY DEF RequestOrder, RequestOrderOf

LEMMA CliReadKeepsOrder ==
    ASSUME TypeOK, RequestOrder, NEW c \in Client, CliRead(c)
    PROVE  RequestOrder'
  <1>1. PICK k \in 1..Len(down[c]) :
            \/ ReadHeadRequest(c, k)
            \/ AbortNoInfile(c, k)
            \/ ReadDataRequest(c, k)
            \/ ReadFin(c, k)
    BY DEF CliRead, read_cb_cli
  <1> DEFINE z == cin[c] \o SubSeq(down[c], 1, k)
  <1>2. /\ cli[c] = "run"
        /\ cin' = [cin EXCEPT ![c] = Tail(z)]
        /\ down' = [down EXCEPT ![c] = SubSeq(down[c], k + 1, Len(down[c]))]
    BY <1>1 DEF ReadHeadRequest, AbortNoInfile, ReadDataRequest, ReadFin, Receives
  <1>3. /\ Tail(z) \in Seq(RequestType)
        /\ \A i \in 1..Len(Tail(z)) : Tail(z)[i] \in Later
    BY <1>2, FirstRead
  <1>4. /\ Len(down[c]) \in Nat /\ down[c] \in Seq(RequestType) /\ down[c] # <<>>
        /\ conn[c] \notin {"none", "backlog"}
    BY <1>1, LenProperties, EmptySeq DEF TypeOK, LinkTypeOK, RequestOrder, RequestOrderOf
  <1>5. ASSUME NEW i \in 1..Len(down'[c]) PROVE down'[c][i] \in Later
    <2>1. /\ k + 1 \in Nat \ {0} /\ Len(down[c]) \in Int
          /\ down'[c] = SubSeq(down[c], k + 1, Len(down[c]))
      BY <1>2, <1>4 DEF TypeOK, LinkTypeOK
    <2>2. /\ Len(down'[c]) = Len(down[c]) - k
          /\ \A j \in 1..(Len(down[c]) - k) : down'[c][j] = down[c][k + j]
      BY <2>1, <1>4, SubSeqIsSeq
    <2>3. down'[c][i] = down[c][k + i] /\ k + i \in 2..Len(down[c])
      BY <2>2, <1>4
    <2> QED
      BY <1>2, <2>3 DEF RequestOrder, RequestOrderOf
  <1>6. down'[c] # <<>> => 1 \in 1..Len(down'[c])
    <2>1. down'[c] \in Seq(RequestType)
      BY <1>2, <1>4, Split DEF TypeOK, LinkTypeOK
    <2> QED
      BY <2>1, EmptySeq
  <1>7. \A e \in Client \ {c} : cin'[e] = cin[e] /\ down'[e] = down[e]
    BY <1>2 DEF TypeOK, LinkTypeOK, CliTypeOK
  <1> HIDE DEF z
  <1>8. CASE ReadHeadRequest(c, k) \/ ReadDataRequest(c, k)
    <2>1. /\ UNCHANGED <<conn, hup, cli>>
          /\ buf'[c] # NULL
          /\ \A e \in Client \ {c} : buf'[e] = buf[e]
      <3>1. <<>> # NULL
        BY EmptySeq, LinkAssumption
      <3> QED
        BY <1>8, <3>1, ConstantTypes
        DEF ReadHeadRequest, ReadDataRequest, TypeOK, CliTypeOK
    <2>2. ASSUME NEW e \in Client PROVE RequestOrderOf(e)'
      <3>1. CASE e # c
        BY <2>1, <3>1, <1>7 DEF RequestOrder, RequestOrderOf
      <3>2. CASE e = c
        <4>1. cin'[c] = Tail(z)
          BY <1>2 DEF TypeOK, CliTypeOK
        <4>2. \A i \in 2..Len(down'[c]) : i \in 1..Len(down'[c])
          OBVIOUS
        <4>3. RequestOrderOf(c)
          BY DEF RequestOrder
        <4> QED
          BY <3>2, <4>1, <4>2, <4>3, <2>1, <1>2, <1>3, <1>4, <1>5, <1>6
          DEF RequestOrderOf
      <3> QED
        BY <3>1, <3>2
    <2> QED
      BY <2>2 DEF RequestOrder
  <1>9. CASE AbortNoInfile(c, k) \/ ReadFin(c, k)
    <2>1. /\ UNCHANGED conn
          /\ cli' \in [Client -> CliState] /\ cli'[c] \in {"done", "gone"}
          /\ \A e \in Client \ {c} :
                 /\ cli'[e] = cli[e] /\ buf'[e] = buf[e]
                 /\ e \in hup' => e \in hup
      BY <1>9 DEF AbortNoInfile, ReadFin, HangUp, TypeOK, CliTypeOK, CliState
    <2> QED
      BY <1>2, <1>4, <1>7, <2>1, EndKeepsOrder
  <1> QED
    BY <1>1, <1>8, <1>9

LEMMA OrderStep == TypeOK /\ RequestOrder /\ [Next]_vars => RequestOrder'
  <1> SUFFICES ASSUME TypeOK, RequestOrder, [Next]_vars
               PROVE  RequestOrder'
    OBVIOUS
  <1> USE DEF linkVars, servVars, cliVars
  <1>1. ASSUME NEW c \in Client, ServListen(c) PROVE RequestOrder'
    BY <1>1, RequestKeepsOrder DEF ServListen, listen_cb, RequestType
  <1>2. ASSUME NEW c \in Client, ServRead(c) PROVE RequestOrder'
    <2>1. PICK k \in 1..Len(up[c]) :
              \/ ReadHead(c, k)
              \/ ReadHeadOverrun(c, k)
              \/ ReadDataPart(c, k)
              \/ ReadIgnored(c, k)
              \/ \E finfo \in {frame} \union Residue :
                     \/ ReadDataNoName(c, k, finfo)
                     \/ ReadDataWrite(c, k, finfo)
      BY <1>2 DEF ServRead, read_cb
    <2>2. UNCHANGED cliVars
      BY <1>2 DEF ServRead
    <2>3. CASE ReadHead(c, k)
      BY <2>2, <2>3, RequestKeepsOrder DEF ReadHead, Readable, Later, RequestType
    <2>4. CASE ReadHeadOverrun(c, k)
      BY <2>2, <2>4, ServerGoneKeepsOrder DEF ReadHeadOverrun
    <2>5. CASE ReadDataPart(c, k) \/ ReadIgnored(c, k)
      BY <2>2, <2>5 DEF ReadDataPart, ReadIgnored, RequestOrder, RequestOrderOf
    <2>6. ASSUME NEW finfo, ReadDataNoName(c, k, finfo) PROVE RequestOrder'
      BY <2>2, <2>6, ServerGoneKeepsOrder DEF ReadDataNoName
    <2>7. ASSUME NEW finfo, ReadDataWrite(c, k, finfo)
          PROVE  RequestOrder'
      <3>1. PICK answer \in Later : Request(c, answer)
        BY <2>7 DEF ReadDataWrite, Later
      <3> QED
        BY <2>2, <2>7, <3>1, RequestKeepsOrder
        DEF ReadDataWrite, Readable, Later, RequestType
    <2> QED
      BY <2>1, <2>3, <2>4, <2>5, <2>6, <2>7
  <1>3. ASSUME NEW c \in Client, ServEvent(c) PROVE RequestOrder'
    BY <1>3 DEF ServEvent, event_cb, RequestOrder, RequestOrderOf, TypeOK, LinkTypeOK
  <1>4. ASSUME NEW c \in Client, ServKilled(c) PROVE RequestOrder'
    BY <1>4, ServerGoneKeepsOrder DEF ServKilled, killed_in_writefile, KilledInWrite
  <1>5. ASSUME NEW c \in Client, CliConnect(c) PROVE RequestOrder'
    <2>1. \A i \in Nat : i \notin 1..Len(<<>>) /\ i \notin 2..Len(<<>>)
      BY EmptySeq
    <2> QED
      BY <1>5, <2>1
      DEF CliConnect, Launch, RequestOrder, RequestOrderOf, TypeOK, LinkTypeOK, CliTypeOK
  <1>6. ASSUME NEW c \in Client, CliRefused(c) PROVE RequestOrder'
    BY <1>6 DEF CliRefused, Refused, RequestOrder, RequestOrderOf, TypeOK, CliTypeOK
  <1>7. ASSUME NEW c \in Client, CliRead(c) PROVE RequestOrder'
    BY <1>7, CliReadKeepsOrder
  <1>8. ASSUME NEW c \in Client, CliEvent(c) \/ CliKilled(c) PROVE RequestOrder'
    <2>1. /\ cli[c] = "run" /\ UNCHANGED <<conn, down, buf, cin>>
          /\ cli' = [cli EXCEPT ![c] = "gone"]
          /\ hup' = hup \union {c}
      BY <1>8 DEF CliEvent, event_cb_cli, CliKilled, ClientKilled, HangUp
    <2>2. cli' \in [Client -> CliState] /\ cli'[c] = "gone"
      BY <2>1 DEF TypeOK, CliTypeOK, CliState
    <2> QED
      BY <2>1, <2>2, EndKeepsOrder DEF TypeOK, CliTypeOK
  <1>9. CASE ServSignal
    BY <1>9, ServerGoneKeepsOrder DEF ServSignal, signal_cb
  <1>10. CASE ServMain
    BY <1>10 DEF ServMain, main, RequestOrder, RequestOrderOf
  <1>11. CASE UNCHANGED vars
    BY <1>11 DEF vars, RequestOrder, RequestOrderOf
  <1> QED
    BY <1>1, <1>2, <1>3, <1>4, <1>5, <1>6, <1>7, <1>8, <1>9, <1>10, <1>11 DEF Next

\* In every state every variable has its type: in particular the client never hands
\* TCP the content of an evbuffer that is not there, which is why the order of the
\* requests is part of the induction.
THEOREM TypeCorrect == Spec => []TypeOK
  <1>1. Init => TypeOK /\ RequestOrder
    BY TypeInit, OrderInit
  <1>2. TypeOK /\ RequestOrder /\ [Next]_vars => (TypeOK /\ RequestOrder)'
    BY TypeStep, OrderStep
  <1> QED
    BY <1>1, <1>2, PTL DEF Spec

\* DATA and FIN, whose handlers use the evbuffer without a look at the pointer, are
\* never served before HEAD, which creates it: with any number of clients whose
\* callbacks share the server's Status, cut headers and lost stack slots.
THEOREM HeadAlwaysFirst == Spec => []HeadComesFirst
  <1>1. Init => TypeOK /\ RequestOrder
    BY TypeInit, OrderInit
  <1>2. TypeOK /\ RequestOrder /\ [Next]_vars => (TypeOK /\ RequestOrder)'
    BY TypeStep, OrderStep
  <1>3. TypeOK /\ RequestOrder => HeadComesFirst
    <2> SUFFICES ASSUME TypeOK, RequestOrder, NEW c \in Client,
                        cli[c] = "run", buf[c] = NULL, down[c] # <<>>
                 PROVE  Head(cin[c] \o down[c]) = "HEAD"
      BY DEF HeadComesFirst
    <2>1. cin[c] = <<>> /\ down[c][1] = "HEAD"
      BY DEF RequestOrder, RequestOrderOf
    <2>2. cin[c] \o down[c] = down[c]
      BY <2>1, ConcatEmptySeq DEF TypeOK, LinkTypeOK
    <2> QED
      BY <2>1, <2>2 
  <1> QED
    BY <1>1, <1>2, <1>3, PTL DEF Spec

-------------------------------------------------------------------------------
(* What a client sends. *)

\* What has been sent and what is still in the evbuffer make up the stream, as long
\* as the connection takes what is sent.
SentOrderOf(c) ==
    /\ IsPrefix(sent[c], Stream(c))
    /\ cli[c] = "idle" => sent[c] = <<>>
    /\ cli[c] = "run" /\ buf[c] = NULL => sent[c] = <<>>
    /\ cli[c] = "run" /\ buf[c] # NULL /\ conn[c] # "reset" =>
           sent[c] \o buf[c] = Stream(c)

SentOrder == \A c \in Client : SentOrderOf(c)

LEMMA StreamType ==
    ASSUME NEW c \in Client
    PROVE  /\ Stream(c) \in Seq(Word)
           /\ Len(Stream(c)) = HeadLen + Len(File[c])
           /\ Len(File[c]) \in Nat
  <1>1. /\ encode(InfoOf(c)) \in Seq(Word) /\ Len(encode(InfoOf(c))) = HeadLen
        /\ File[c] \in Seq(Word)
    BY ConstantTypes, HeaderType
  <1> QED
    BY <1>1, ConcatProperties, LenProperties DEF Stream

\* The first of two sequences is a prefix of their concatenation.
LEMMA PrefixOfConcat ==
    ASSUME NEW S, NEW s \in Seq(S), NEW t \in Seq(S)
    PROVE  IsPrefix(s, s \o t)
  <1>1. /\ Len(s) \in Nat /\ Len(t) \in Nat
        /\ s \o t \in Seq(S) /\ Len(s \o t) = Len(s) + Len(t)
        /\ \A i \in 1..Len(s) : (s \o t)[i] = s[i]
    BY LenProperties, ConcatProperties
  <1> DEFINE u == s \o t
  <1> HIDE DEF u
  <1>2. /\ u \in Seq(S) /\ Len(u) \in Nat /\ Len(s) <= Len(u)
        /\ \A i \in 1..Len(s) : u[i] = s[i]
    BY <1>1 DEF u
  <1>3. /\ SubSeq(u, 1, Len(s)) \in Seq(S) /\ Len(SubSeq(u, 1, Len(s))) = Len(s)
        /\ \A i \in 1..Len(s) : SubSeq(u, 1, Len(s))[i] = u[i]
    BY <1>1, <1>2, SubSeqIsSeq
  <1>4. SubSeq(u, 1, Len(s)) = s
    BY <1>2, <1>3, SeqEqual
  <1> QED
    BY <1>2, <1>4, SubSeqFull DEF IsPrefix, u

\* A prefix agrees with the sequence element by element, and conversely.
LEMMA PrefixByElement ==
    ASSUME NEW S, NEW s \in Seq(S), NEW t \in Seq(S)
    PROVE  IsPrefix(s, t) <=> /\ Len(s) <= Len(t)
                              /\ \A i \in 1..Len(s) : s[i] = t[i]
  <1>1. Len(s) \in Nat /\ Len(t) \in Nat /\ SubSeq(s, 1, Len(s)) = s
    BY LenProperties, SubSeqFull
  <1>2. ASSUME Len(s) <= Len(t)
        PROVE  /\ SubSeq(t, 1, Len(s)) \in Seq(S)
               /\ Len(SubSeq(t, 1, Len(s))) = Len(s)
               /\ \A i \in 1..Len(s) : SubSeq(t, 1, Len(s))[i] = t[i]
    BY <1>1, <1>2, SubSeqIsSeq
  <1>3. ASSUME IsPrefix(s, t)
        PROVE  Len(s) <= Len(t) /\ \A i \in 1..Len(s) : s[i] = t[i]
    <2>1. Len(s) <= Len(t) /\ s = SubSeq(t, 1, Len(s))
      BY <1>1, <1>3 DEF IsPrefix
    <2> QED
      BY <1>2, <2>1
  <1>4. ASSUME Len(s) <= Len(t), \A i \in 1..Len(s) : s[i] = t[i]
        PROVE  IsPrefix(s, t)
    <2>1. SubSeq(t, 1, Len(s)) = s
      BY <1>2, <1>4, SeqEqual
    <2> QED
      BY <1>1, <1>4, <2>1 DEF IsPrefix
  <1> QED
    BY <1>3, <1>4

\* What is left of a prefix when its end is cut off is a prefix.
LEMMA CutPrefix ==
    ASSUME NEW S, NEW s \in Seq(S), NEW t \in Seq(S), IsPrefix(s, t),
           NEW n \in Int, n <= Len(s)
    PROVE  IsPrefix(SubSeq(s, 1, n), t)
  <1> DEFINE p == SubSeq(s, 1, n)
  <1>1. /\ p \in Seq(S)
        /\ Len(p) = IF 1 <= n THEN n ELSE 0
        /\ \A i \in 1..n : p[i] = s[i]
    BY SubSeqIsSeq
  <1>2. Len(s) \in Nat /\ Len(t) \in Nat
    BY LenProperties
  <1>3. Len(s) <= Len(t) /\ \A i \in 1..Len(s) : s[i] = t[i]
    BY PrefixByElement
  <1> HIDE DEF p
  <1>4. Len(p) <= Len(t) /\ \A i \in 1..Len(p) : p[i] = t[i]
    BY <1>1, <1>2, <1>3
  <1> QED
    BY <1>1, <1>4, PrefixByElement DEF p

LEMMA SentInit == Init => SentOrder
  <1> SUFFICES ASSUME Init, NEW c \in Client PROVE SentOrderOf(c)
    BY DEF SentOrder
  <1>1. sent[c] = <<>> /\ cli[c] = "idle"
    BY DEF Init, LinkInit, CliInit
  <1>2. IsPrefix(<<>>, Stream(c))
    <2>1. Stream(c) \in Seq(Word) /\ <<>> \in Seq(Word)
      BY StreamType, EmptySeq
    <2>2. IsPrefix(<<>>, <<>> \o Stream(c))
      BY <2>1, PrefixOfConcat
    <2> QED
      BY <2>1, <2>2, ConcatEmptySeq
  <1> QED
    BY <1>1, <1>2 DEF SentOrderOf

\* A step of the server.
LEMMA ServerKeepsSent ==
    ASSUME SentOrder, UNCHANGED <<cli, buf, sent>>,
           \A c \in Client : conn[c] = "reset" => conn'[c] = "reset"
    PROVE  SentOrder'
  BY DEF SentOrder, SentOrderOf, Stream

\* The end of a client.
LEMMA HangUpKeepsSent ==
    ASSUME TypeOK, SentOrder, NEW c \in Client, HangUp(c), UNCHANGED conn,
           cli'[c] \in {"done", "gone"},
           \A e \in Client \ {c} : cli'[e] = cli[e] /\ buf'[e] = buf[e]
    PROVE  SentOrder'
  <1> SUFFICES ASSUME NEW e \in Client PROVE SentOrderOf(e)'
    BY DEF SentOrder
  <1>1. SentOrderOf(e)
    BY DEF SentOrder
  <1>2. PICK n \in 0..Len(up[c]) :
            sent' = [sent EXCEPT ![c] = SubSeq(@, 1, Len(@) - n)]
    BY DEF HangUp
  <1>3. CASE e # c
    BY <1>1, <1>2, <1>3 DEF SentOrderOf, Stream, TypeOK, LinkTypeOK
  <1>4. CASE e = c
    <2>1. /\ sent[c] \in Seq(Word) /\ Len(sent[c]) \in Nat
          /\ sent'[c] = SubSeq(sent[c], 1, Len(sent[c]) - n)
          /\ Len(up[c]) \in Nat
      BY <1>2, LenProperties DEF TypeOK, LinkTypeOK
    <2>2. IsPrefix(sent'[c], Stream(c))
      BY <1>1, <1>4, <2>1, StreamType, CutPrefix DEF SentOrderOf
    <2> QED
      BY <1>4, <2>2 DEF SentOrderOf, Stream
  <1> QED
    BY <1>3, <1>4

LEMMA CliReadKeepsSent ==
    ASSUME TypeOK, RequestOrder, SentOrder, NEW c \in Client, CliRead(c)
    PROVE  SentOrder'
  <1>1. PICK k \in 1..Len(down[c]) :
            \/ ReadHeadRequest(c, k)
            \/ AbortNoInfile(c, k)
            \/ ReadDataRequest(c, k)
            \/ ReadFin(c, k)
    BY DEF CliRead, read_cb_cli
  <1>2. sent[c] \in Seq(Word) /\ buf[c] \in Seq(Word) \union {NULL}
    BY DEF TypeOK, LinkTypeOK, CliTypeOK
  <1>3. SentOrderOf(c)
    BY DEF SentOrder
  <1>4. CASE ReadHeadRequest(c, k)
    <2>1. /\ cli[c] = "run" /\ buf[c] = NULL /\ UNCHANGED <<conn, cli>>
          /\ Send(c, encode(InfoOf(c)))
          /\ buf' = [buf EXCEPT ![c] = File[c]]
      BY <1>4, FirstRead DEF ReadHeadRequest, Receives, Later
    <2>2. sent[c] = <<>>
      BY <1>3, <2>1 DEF SentOrderOf
    <2>3. sent[c] \o encode(InfoOf(c)) = encode(InfoOf(c))
      BY <2>2, ConstantTypes, ConcatEmptySeq
    <2>4. /\ sent'[c] = IF conn[c] = "reset" THEN <<>> ELSE encode(InfoOf(c))
          /\ buf'[c] = File[c] /\ buf'[c] # NULL
      BY <1>2, <2>1, <2>2, <2>3, ConstantTypes DEF Send, TypeOK, LinkTypeOK, CliTypeOK
    <2>5. IsPrefix(sent'[c], Stream(c))
      BY <1>3, <2>2, <2>4, ConstantTypes, PrefixOfConcat DEF Stream, SentOrderOf
    <2>6. SentOrderOf(c)'
      BY <2>1, <2>4, <2>5 DEF SentOrderOf, Stream
    <2>7. ASSUME NEW e \in Client \ {c} PROVE SentOrderOf(e)'
      BY <2>1 DEF SentOrder, SentOrderOf, Stream, Send, TypeOK, LinkTypeOK, CliTypeOK
    <2> QED
      BY <2>6, <2>7 DEF SentOrder
  <1>5. CASE ReadDataRequest(c, k)
    <2>1. /\ cli[c] = "run" /\ buf[c] # NULL /\ UNCHANGED <<conn, cli>>
          /\ Send(c, buf[c])
          /\ buf' = [buf EXCEPT ![c] = <<>>]
      BY <1>5, FirstRead DEF ReadDataRequest, Receives, Later
    <2>2. /\ sent'[c] = IF conn[c] = "reset" THEN sent[c] ELSE sent[c] \o buf[c]
          /\ buf'[c] = <<>>
      BY <1>2, <2>1 DEF Send, TypeOK, LinkTypeOK, CliTypeOK
    <2> DEFINE st == Stream(c)
    <2>0. st' = st /\ <<>> # NULL
      BY EmptySeq, LinkAssumption DEF Stream
    <2> HIDE DEF st
    <2>3. ASSUME conn[c] = "reset" PROVE SentOrderOf(c)'
      <3>1. IsPrefix(sent'[c], st')
        BY <1>3, <2>0, <2>2, <2>3 DEF SentOrderOf, st
      <3> QED
        BY <2>0, <2>1, <2>2, <2>3, <3>1 DEF SentOrderOf, st
    <2>4. ASSUME conn[c] # "reset" PROVE SentOrderOf(c)'
      <3>1. sent'[c] = st
        BY <1>3, <2>1, <2>2, <2>4 DEF SentOrderOf, st
      <3>2. st \o <<>> = st
        BY StreamType, ConcatEmptySeq DEF st
      <3>3. IsPrefix(st, st)
        BY <3>2, StreamType, EmptySeq, PrefixOfConcat DEF st
      <3> QED
        BY <2>0, <2>1, <2>2, <3>1, <3>2, <3>3 DEF SentOrderOf, st
    <2>5. ASSUME NEW e \in Client \ {c} PROVE SentOrderOf(e)'
      BY <2>1 DEF SentOrder, SentOrderOf, Stream, Send, TypeOK, LinkTypeOK, CliTypeOK
    <2> QED
      BY <2>3, <2>4, <2>5 DEF SentOrder
  <1>6. CASE AbortNoInfile(c, k) \/ ReadFin(c, k)
    BY <1>6, HangUpKeepsSent DEF AbortNoInfile, ReadFin, TypeOK, CliTypeOK
  <1> QED
    BY <1>1, <1>4, <1>5, <1>6

LEMMA SentStep == TypeOK /\ RequestOrder /\ SentOrder /\ [Next]_vars => SentOrder'
  <1> SUFFICES ASSUME TypeOK, RequestOrder, SentOrder, [Next]_vars
               PROVE  SentOrder'
    OBVIOUS
  <1> USE DEF linkVars, servVars, cliVars
  <1>1. ASSUME NEW c \in Client, ServListen(c) PROVE SentOrder'
    BY <1>1, ServerKeepsSent DEF ServListen, listen_cb, TypeOK, LinkTypeOK
  <1>2. ASSUME NEW c \in Client, ServRead(c) PROVE SentOrder'
    <2>1. UNCHANGED <<cli, buf, sent>>
      BY <1>2 DEF ServRead, read_cb, ReadHead, ReadHeadOverrun, ReadDataPart,
                  ReadIgnored, ReadDataNoName, ReadDataWrite
    <2>2. UNCHANGED conn \/ ServerGone
      BY <1>2 DEF ServRead, read_cb, ReadHead, ReadHeadOverrun, ReadDataPart,
                  ReadIgnored, ReadDataNoName, ReadDataWrite
    <2> QED
      BY <2>1, <2>2, ServerKeepsSent DEF ServerGone
  <1>3. ASSUME NEW c \in Client, ServEvent(c) PROVE SentOrder'
    BY <1>3, ServerKeepsSent DEF ServEvent, event_cb, TypeOK, LinkTypeOK
  <1>4. ASSUME NEW c \in Client, ServKilled(c) PROVE SentOrder'
    BY <1>4, ServerKeepsSent
    DEF ServKilled, killed_in_writefile, KilledInWrite, ServerGone
  <1>5. ASSUME NEW c \in Client, CliConnect(c) PROVE SentOrder'
    BY <1>5 DEF CliConnect, Launch, SentOrder, SentOrderOf, Stream, RequestOrder,
                RequestOrderOf, TypeOK, LinkTypeOK, CliTypeOK
  <1>6. ASSUME NEW c \in Client, CliRefused(c) PROVE SentOrder'
    BY <1>6 DEF CliRefused, Refused, SentOrder, SentOrderOf, Stream, TypeOK, CliTypeOK
  <1>7. ASSUME NEW c \in Client, CliRead(c) PROVE SentOrder'
    BY <1>7, CliReadKeepsSent
  <1>8. ASSUME NEW c \in Client, CliEvent(c) \/ CliKilled(c) PROVE SentOrder'
    BY <1>8, HangUpKeepsSent
    DEF CliEvent, event_cb_cli, CliKilled, ClientKilled, TypeOK, CliTypeOK
  <1>9. CASE ServSignal
    BY <1>9, ServerKeepsSent DEF ServSignal, signal_cb, ServerGone
  <1>10. CASE ServMain
    BY <1>10, ServerKeepsSent DEF ServMain, main
  <1>11. CASE UNCHANGED vars
    BY <1>11, ServerKeepsSent DEF vars
  <1> QED
    BY <1>1, <1>2, <1>3, <1>4, <1>5, <1>6, <1>7, <1>8, <1>9, <1>10, <1>11 DEF Next

\* What has been shown of every regime.
CommonInv == TypeOK /\ RequestOrder /\ SentOrder

LEMMA CommonInvariant == Spec => []CommonInv
  <1>1. Init => CommonInv
    BY TypeInit, OrderInit, SentInit DEF CommonInv
  <1>2. CommonInv /\ [Next]_vars => CommonInv'
    BY TypeStep, OrderStep, SentStep DEF CommonInv
  <1> QED
    BY <1>1, <1>2, PTL DEF Spec

\* However often and in whatever order the server asks, a client hands TCP its header
\* and then its file, each once and nothing else.
THEOREM EverySentInOrder == Spec => []SentInOrder
  <1>1. CommonInv => SentInOrder
    BY DEF CommonInv, SentOrder, SentOrderOf, SentInOrder
  <1> QED
    BY <1>1, CommonInvariant, PTL

-------------------------------------------------------------------------------
(* What is stored: whatever the server's one Status and its unset finfo make of the
   connections, a file on its disk is a run of consecutive words from one of them. *)

\* What has been sent on c's connection is what the server has taken out of its
\* evbuffer, then what is in it, then what is on its way.
TailOf(c) == \E p \in Seq(Word) : sent[c] = p \o (input[c] \o up[c])

Tails == \A c \in Client : TailOf(c)

LEMMA RegroupWords ==
    ASSUME NEW s \in Seq(Word), NEW t \in Seq(Word), NEW u \in Seq(Word)
    PROVE  (s \o t) \o u = s \o (t \o u)
  BY ConcatAssociative

LEMMA TailTypes ==
    ASSUME TypeOK, NEW c \in Client
    PROVE  /\ up[c] \in Seq(Word) /\ Len(up[c]) \in Nat
           /\ sent[c] \in Seq(Word) /\ Len(sent[c]) \in Nat
           /\ input[c] \in Seq(Word) /\ Len(input[c]) \in Nat
           /\ input[c] \o up[c] \in Seq(Word)
  <1>1. up[c] \in Seq(Word) /\ sent[c] \in Seq(Word) /\ input[c] \in Seq(Word)
    BY DEF TypeOK, LinkTypeOK, ServTypeOK
  <1> QED
    BY <1>1, LenProperties, ConcatProperties

\* The end of a stream is cut off where its last part ends.
LEMMA CutTail ==
    ASSUME NEW p \in Seq(Word), NEW i \in Seq(Word), NEW u \in Seq(Word),
           NEW n \in 0..Len(u)
    PROVE  LET whole == p \o (i \o u)
           IN  SubSeq(whole, 1, Len(whole) - n) = p \o (i \o SubSeq(u, 1, Len(u) - n))
  <1> DEFINE k == Len(u) - n
             u1 == SubSeq(u, 1, k)
             u2 == SubSeq(u, k + 1, Len(u))
             iu == i \o u1
             a == p \o iu
  <1>1. k \in 0..Len(u) /\ Len(u) - k = n /\ n \in Nat
    BY LenProperties
  <1>2. /\ u1 \in Seq(Word) /\ u2 \in Seq(Word)
        /\ Len(u2) = n /\ u1 \o u2 = u
    BY <1>1, Split
  <1> HIDE DEF u1, u2, k
  <1>3. i \o u = iu \o u2
    <2>1. (i \o u1) \o u2 = i \o (u1 \o u2)
      <3>1. i \in Seq(Word) /\ u1 \in Seq(Word) /\ u2 \in Seq(Word)
        BY <1>2
      <3> QED
        BY ONLY <3>1, RegroupWords
    <2> QED
      BY ONLY <1>2, <2>1
  <1>4. iu \in Seq(Word)
    BY <1>2, ConcatProperties
  <1> HIDE DEF iu
  <1>5. p \o (i \o u) = a \o u2
    <2>1. (p \o iu) \o u2 = p \o (iu \o u2)
      <3>1. p \in Seq(Word) /\ iu \in Seq(Word) /\ u2 \in Seq(Word)
        BY <1>2, <1>4
      <3> QED
        BY ONLY <3>1, RegroupWords, ZenonT(40)
    <2> QED
      BY ONLY <1>3, <2>1
  <1>6. a \in Seq(Word)
    BY <1>4, ConcatProperties
  <1> HIDE DEF a
  <1>7. Len(a \o u2) - n = Len(a)
    <2>1. Len(a) \in Nat /\ Len(a \o u2) = Len(a) + Len(u2)
      BY <1>2, <1>6, LenProperties, ConcatProperties
    <2> QED
      BY <1>1, <1>2, <2>1
  <1>8. SubSeq(a \o u2, 1, Len(a)) = a
    BY ONLY <1>2, <1>6, FirstPart
  <1> QED
    BY <1>5, <1>7, <1>8 DEF a, iu, u1, k

LEMMA TailInit == Init => Tails
  <1> SUFFICES ASSUME Init, NEW c \in Client PROVE TailOf(c)
    BY DEF Tails
  <1>1. sent[c] = <<>> /\ input[c] = <<>> /\ up[c] = <<>>
    BY DEF Init, LinkInit, ServInit
  <1>2. <<>> \in Seq(Word) /\ <<>> \o (<<>> \o <<>>) = <<>>
    BY EmptySeq, ConcatEmptySeq
  <1> QED
    BY <1>1, <1>2 DEF TailOf

\* A connection that takes words.
LEMMA SendKeepsTail ==
    ASSUME TypeOK, Tails, NEW c \in Client, NEW ws \in Seq(Word), Send(c, ws),
           UNCHANGED input
    PROVE  Tails'
  <1> SUFFICES ASSUME NEW e \in Client PROVE TailOf(e)'
    BY DEF Tails
  <1>1. PICK p \in Seq(Word) : sent[e] = p \o (input[e] \o up[e])
    BY DEF Tails, TailOf
  <1>2. CASE UNCHANGED <<up[e], sent[e]>>
    BY <1>1, <1>2 DEF TailOf
  <1>3. CASE e = c /\ sent'[e] = sent[e] \o ws /\ up'[e] = up[e] \o ws
    <2> DEFINE i == input[e]
               u == up[e]
               iu == i \o u
               uw == u \o ws
    <2>1. i \in Seq(Word) /\ u \in Seq(Word) /\ iu \in Seq(Word)
      BY TailTypes
    <2>2. sent'[e] = (p \o iu) \o ws /\ up'[e] = uw /\ input'[e] = i
      BY <1>1, <1>3
    <2> HIDE DEF i, u
    <2>3. iu \o ws = i \o uw
      BY ONLY <2>1, ws \in Seq(Word), RegroupWords
    <2> HIDE DEF iu
    <2>4. (p \o iu) \o ws = p \o (iu \o ws)
      BY ONLY <2>1, p \in Seq(Word), ws \in Seq(Word), RegroupWords
    <2> HIDE DEF uw
    <2> QED
      BY <2>2, <2>3, <2>4 DEF TailOf
  <1> QED
    BY <1>2, <1>3 DEF Send, TypeOK, LinkTypeOK

\* The end of a client: what is lost is lost at the end.
LEMMA HangUpKeepsTail ==
    ASSUME TypeOK, Tails, NEW c \in Client, HangUp(c), UNCHANGED input
    PROVE  Tails'
  <1> SUFFICES ASSUME NEW e \in Client PROVE TailOf(e)'
    BY DEF Tails
  <1>1. PICK p \in Seq(Word) : sent[e] = p \o (input[e] \o up[e])
    BY DEF Tails, TailOf
  <1>2. PICK n \in 0..Len(up[c]) :
            /\ up' = [up EXCEPT ![c] = SubSeq(@, 1, Len(@) - n)]
            /\ sent' = [sent EXCEPT ![c] = SubSeq(@, 1, Len(@) - n)]
    BY DEF HangUp
  <1>3. CASE e # c
    BY <1>1, <1>2, <1>3 DEF TailOf, TypeOK, LinkTypeOK
  <1>4. CASE e = c
    <2>1. input[c] \in Seq(Word) /\ up[c] \in Seq(Word) /\ p \in Seq(Word)
      BY TailTypes
    <2>2. /\ sent[c] = p \o (input[c] \o up[c])
          /\ sent'[c] = SubSeq(sent[c], 1, Len(sent[c]) - n)
          /\ up'[c] = SubSeq(up[c], 1, Len(up[c]) - n) /\ input'[c] = input[c]
      BY <1>1, <1>2, <1>4 DEF TypeOK, LinkTypeOK
    <2> DEFINE i == input[c]
               u == up[c]
    <2>3. n \in 0..Len(u)
      OBVIOUS
    <2> HIDE DEF i, u
    <2>4. SubSeq(p \o (i \o u), 1, Len(p \o (i \o u)) - n)
              = p \o (i \o SubSeq(u, 1, Len(u) - n))
      <3>1. i \in Seq(Word) /\ u \in Seq(Word) /\ p \in Seq(Word)
        BY <2>1 DEF i, u
      <3> QED
        BY ONLY <2>3, <3>1, CutTail
    <2>5. sent'[c] = p \o (input[c] \o SubSeq(up[c], 1, Len(up[c]) - n))
      BY <2>2, <2>4 DEF i, u
    <2> QED
      BY <1>4, <2>2, <2>5 DEF TailOf
  <1> QED
    BY <1>3, <1>4

\* The end of the server.
LEMMA GoneKeepsTail ==
    ASSUME TypeOK, ServerGone, UNCHANGED sent
    PROVE  Tails'
  <1> SUFFICES ASSUME NEW e \in Client PROVE TailOf(e)'
    BY DEF Tails
  <1>1. sent'[e] = sent[e] /\ up'[e] = <<>> /\ input'[e] = <<>>
    BY DEF ServerGone
  <1>2. sent[e] \in Seq(Word) /\ <<>> \o <<>> = <<>> /\ sent[e] \o <<>> = sent[e]
    BY TailTypes, EmptySeq, ConcatEmptySeq
  <1> QED
    BY <1>1, <1>2 DEF TailOf

\* What read_cb finds in the evbuffer, and what it leaves of it.
LEMMA ReadTail ==
    ASSUME TypeOK, Tails, NEW c \in Client, NEW k \in 1..Len(up[c])
    PROVE  LET front == SubSeq(up[c], 1, k)
               rest  == SubSeq(up[c], k + 1, Len(up[c]))
           IN  /\ Buffered(c, k) \in Seq(Word)
               /\ rest \in Seq(Word)
               /\ \E p \in Seq(Word) : sent[c] = p \o (Buffered(c, k) \o rest)
  <1> DEFINE i == input[c]
             front == SubSeq(up[c], 1, k)
             rest == SubSeq(up[c], k + 1, Len(up[c]))
  <1>1. PICK p \in Seq(Word) : sent[c] = p \o (i \o up[c])
    BY DEF Tails, TailOf
  <1>2. /\ i \in Seq(Word) /\ front \in Seq(Word) /\ rest \in Seq(Word)
        /\ front \o rest = up[c]
    <2>1. i \in Seq(Word) /\ up[c] \in Seq(Word) /\ k \in 0..Len(up[c])
      BY TailTypes
    <2> QED
      BY <2>1, Split
  <1>3. Buffered(c, k) = i \o front
    BY DEF Buffered
  <1> HIDE DEF i, front, rest
  <1>4. (i \o front) \o rest = i \o (front \o rest)
    BY ONLY <1>2, RegroupWords
  <1>5. i \o front \in Seq(Word)
    BY ONLY <1>2, ConcatProperties
  <1>6. sent[c] = p \o (Buffered(c, k) \o rest)
    BY <1>1, <1>2, <1>3, <1>4
  <1> QED
    BY <1>2, <1>3, <1>5, <1>6 DEF front, rest

\* read_cb takes n words out of the evbuffer.
LEMMA TakeKeepsTail ==
    ASSUME TypeOK, Tails, NEW c \in Client, NEW k \in 1..Len(up[c]),
           NEW n \in 0..Len(Buffered(c, k)), UNCHANGED sent,
           Take(c, k, SubSeq(Buffered(c, k), n + 1, Len(Buffered(c, k))))
    PROVE  Tails'
  <1> DEFINE b == Buffered(c, k)
             rest == SubSeq(up[c], k + 1, Len(up[c]))
             q == SubSeq(b, 1, n)
             r == SubSeq(b, n + 1, Len(b))
  <1>1. b \in Seq(Word) /\ rest \in Seq(Word)
    BY ReadTail
  <1>2. PICK p \in Seq(Word) : sent[c] = p \o (b \o rest)
    BY ReadTail
  <1>3. /\ up'[c] = rest /\ input'[c] = r
        /\ \A e \in Client \ {c} : up'[e] = up[e] /\ input'[e] = input[e]
    BY DEF Take, TypeOK, LinkTypeOK, ServTypeOK
  <1>4. n \in 0..Len(b)
    OBVIOUS
  <1> HIDE DEF b, rest
  <1>5. q \in Seq(Word) /\ r \in Seq(Word) /\ q \o r = b
    BY <1>1, <1>4, Split
  <1> HIDE DEF q, r
  <1>6. (q \o r) \o rest = q \o (r \o rest)
    <2>1. q \in Seq(Word) /\ r \in Seq(Word) /\ rest \in Seq(Word)
      BY <1>1, <1>5
    <2> QED
      BY ONLY <2>1, RegroupWords, ZenonT(40)
  <1> DEFINE rr == r \o rest
  <1>7. rr \in Seq(Word) /\ p \o q \in Seq(Word)
    BY <1>1, <1>5, ConcatProperties
  <1> HIDE DEF rr
  <1>8. (p \o q) \o rr = p \o (q \o rr)
    BY ONLY <1>5, <1>7, p \in Seq(Word), RegroupWords
  <1>9. sent'[c] = (p \o q) \o (r \o rest)
    BY <1>2, <1>5, <1>6, <1>8 DEF rr
  <1>10. TailOf(c)'
    BY <1>3, <1>7, <1>9 DEF TailOf
  <1>11. ASSUME NEW e \in Client \ {c} PROVE TailOf(e)'
    BY <1>3 DEF Tails, TailOf
  <1> QED
    BY <1>10, <1>11 DEF Tails

\* It takes none, or all.
LEMMA TakeNone ==
    ASSUME TypeOK, Tails, NEW c \in Client, NEW k \in 1..Len(up[c]),
           UNCHANGED sent, Take(c, k, Buffered(c, k))
    PROVE  Tails'
  <1>1. Buffered(c, k) \in Seq(Word)
    BY ReadTail
  <1>2. /\ 0 \in 0..Len(Buffered(c, k)) /\ 0 + 1 = 1
        /\ SubSeq(Buffered(c, k), 1, Len(Buffered(c, k))) = Buffered(c, k)
    BY <1>1, LenProperties, SubSeqFull
  <1> QED
    BY <1>2, TakeKeepsTail

LEMMA TakeAll ==
    ASSUME TypeOK, Tails, NEW c \in Client, NEW k \in 1..Len(up[c]),
           UNCHANGED sent, Take(c, k, <<>>)
    PROVE  Tails'
  <1> DEFINE b == Buffered(c, k)
  <1>1. b \in Seq(Word) /\ Len(b) \in Nat
    BY ReadTail, LenProperties
  <1> HIDE DEF b
  <1>2. Len(b) \in 0..Len(b) /\ SubSeq(b, Len(b) + 1, Len(b)) = <<>>
    BY <1>1, SubSeqEmpty
  <1> QED
    BY <1>2, TakeKeepsTail DEF b

LEMMA ServReadKeepsTail ==
    ASSUME TypeOK, Tails, NEW c \in Client, ServRead(c)
    PROVE  Tails'
  <1>1. PICK k \in 1..Len(up[c]) :
            \/ ReadHead(c, k)
            \/ ReadHeadOverrun(c, k)
            \/ ReadDataPart(c, k)
            \/ ReadIgnored(c, k)
            \/ \E finfo \in {frame} \union Residue :
                   \/ ReadDataNoName(c, k, finfo)
                   \/ ReadDataWrite(c, k, finfo)
    BY DEF ServRead, read_cb
  <1>2. CASE ReadHead(c, k)
    <2> DEFINE b == Buffered(c, k)
               n == IF Len(b) <= BUFSIZ THEN Len(b) ELSE BUFSIZ
    <2>1. n \in 0..Len(b)
      BY ReadTail, LenProperties, LinkAssumption
    <2>2. Take(c, k, SubSeq(b, n + 1, Len(b))) /\ UNCHANGED sent
      BY <1>2 DEF ReadHead
    <2> HIDE DEF n
    <2> QED
      BY <2>1, <2>2, TakeKeepsTail
  <1>3. CASE ReadHeadOverrun(c, k)
    BY <1>3, GoneKeepsTail DEF ReadHeadOverrun
  <1>4. CASE ReadDataPart(c, k) \/ ReadIgnored(c, k)
    BY <1>4, TakeNone DEF ReadDataPart, ReadIgnored
  <1>5. ASSUME NEW finfo, ReadDataNoName(c, k, finfo) PROVE Tails'
    BY <1>5, GoneKeepsTail DEF ReadDataNoName
  <1>6. ASSUME NEW finfo, ReadDataWrite(c, k, finfo) PROVE Tails'
    BY <1>6, TakeAll DEF ReadDataWrite
  <1> QED
    BY <1>1, <1>2, <1>3, <1>4, <1>5, <1>6

LEMMA CliReadKeepsTail ==
    ASSUME TypeOK, RequestOrder, Tails, NEW c \in Client, CliRead(c)
    PROVE  Tails'
  <1>1. PICK k \in 1..Len(down[c]) :
            \/ ReadHeadRequest(c, k)
            \/ AbortNoInfile(c, k)
            \/ ReadDataRequest(c, k)
            \/ ReadFin(c, k)
    BY DEF CliRead, read_cb_cli
  <1>2. UNCHANGED input
    BY DEF CliRead, servVars
  <1>3. CASE ReadHeadRequest(c, k)
    BY <1>2, <1>3, ConstantTypes, SendKeepsTail DEF ReadHeadRequest
  <1>4. CASE ReadDataRequest(c, k)
    <2>1. buf[c] \in Seq(Word)
      BY <1>4, FirstRead DEF ReadDataRequest, Receives, Later, TypeOK, CliTypeOK
    <2> QED
      BY <1>2, <1>4, <2>1, SendKeepsTail DEF ReadDataRequest
  <1>5. CASE AbortNoInfile(c, k) \/ ReadFin(c, k)
    BY <1>2, <1>5, HangUpKeepsTail DEF AbortNoInfile, ReadFin
  <1> QED
    BY <1>1, <1>3, <1>4, <1>5

LEMMA TailStep ==
    ASSUME CommonInv, Tails, [Next]_vars
    PROVE  Tails'
  <1> USE DEF CommonInv, linkVars, servVars, cliVars
  <1>1. ASSUME UNCHANGED <<sent, input, up>> PROVE Tails'
    BY <1>1 DEF Tails, TailOf
  <1>2. ASSUME NEW c \in Client,
               ServListen(c) \/ ServEvent(c) \/ CliConnect(c) \/ CliRefused(c)
        PROVE  Tails'
    BY <1>1, <1>2 DEF ServListen, listen_cb, ServEvent, event_cb, CliConnect, Launch,
                      CliRefused, Refused
  <1>3. ASSUME NEW c \in Client, ServRead(c) PROVE Tails'
    BY <1>3, ServReadKeepsTail
  <1>4. ASSUME NEW c \in Client, ServKilled(c) PROVE Tails'
    BY <1>4, GoneKeepsTail DEF ServKilled, killed_in_writefile, KilledInWrite
  <1>5. ASSUME NEW c \in Client, CliRead(c) PROVE Tails'
    BY <1>5, CliReadKeepsTail
  <1>6. ASSUME NEW c \in Client, CliEvent(c) \/ CliKilled(c) PROVE Tails'
    BY <1>6, HangUpKeepsTail DEF CliEvent, event_cb_cli, CliKilled, ClientKilled
  <1>7. CASE ServSignal
    BY <1>7, GoneKeepsTail DEF ServSignal, signal_cb
  <1>8. CASE ServMain
    BY <1>1, <1>8 DEF ServMain, main
  <1>9. CASE UNCHANGED vars
    BY <1>1, <1>9 DEF vars
  <1> QED
    BY <1>2, <1>3, <1>4, <1>5, <1>6, <1>7, <1>8, <1>9 DEF Next

-------------------------------------------------------------------------------
(* What is written. *)

\* No step counts more than one fault, and none takes one back.
LEMMA FaultsCounted ==
    ASSUME [Next]_vars
    PROVE  faults' = faults \/ faults' = faults + 1
  <1> USE DEF Fault, linkVars
  <1>1. ASSUME NEW c \in Client,
               \/ ServListen(c) \/ ServEvent(c) \/ ServKilled(c)
               \/ CliConnect(c) \/ CliRefused(c) \/ CliEvent(c) \/ CliKilled(c)
        PROVE  faults' = faults \/ faults' = faults + 1
    BY <1>1 DEF ServListen, listen_cb, ServEvent, event_cb, ServKilled,
                killed_in_writefile, KilledInWrite, CliConnect, Launch, CliRefused,
                Refused, CliEvent, event_cb_cli, CliKilled, ClientKilled
  <1>2. ASSUME NEW c \in Client, ServRead(c)
        PROVE  faults' = faults \/ faults' = faults + 1
    BY <1>2 DEF ServRead, read_cb, ReadHead, ReadHeadOverrun, ReadDataPart, ReadIgnored,
                ReadDataNoName, ReadDataWrite, OnDisk
  <1>3. ASSUME NEW c \in Client, CliRead(c)
        PROVE  faults' = faults \/ faults' = faults + 1
    BY <1>3 DEF CliRead, read_cb_cli, ReadHeadRequest, AbortNoInfile, ReadDataRequest,
                ReadFin
  <1>4. ASSUME ServSignal \/ ServMain \/ UNCHANGED vars
        PROVE  faults' = faults \/ faults' = faults + 1
    BY <1>4 DEF ServSignal, signal_cb, ServMain, main, vars
  <1> QED
    BY <1>1, <1>2, <1>3, <1>4 DEF Next

\* What read_cb finds in the evbuffer is a piece of what the connection carries.
LEMMA BufferedInStream ==
    ASSUME CommonInv, Tails, NEW c \in Client, NEW k \in 1..Len(up[c])
    PROVE  \E m \in Nat :
               \A i \in 1..Len(Buffered(c, k)) :
                   /\ m + i \in 1..Len(Stream(c))
                   /\ Buffered(c, k)[i] = Stream(c)[m + i]
  <1> USE DEF CommonInv
  <1> DEFINE b == Buffered(c, k)
             rest == SubSeq(up[c], k + 1, Len(up[c]))
             br == b \o rest
             st == Stream(c)
  <1>1. b \in Seq(Word) /\ rest \in Seq(Word)
    BY ReadTail
  <1>2. PICK p \in Seq(Word) : sent[c] = p \o br
    BY ReadTail
  <1>3. /\ sent[c] \in Seq(Word) /\ st \in Seq(Word)
        /\ Len(sent[c]) \in Nat /\ Len(st) \in Nat
        /\ IsPrefix(sent[c], st)
    BY TailTypes, StreamType, LenProperties DEF SentOrder, SentOrderOf
  <1> HIDE DEF b, rest, st
  <1>4. /\ br \in Seq(Word) /\ Len(br) = Len(b) + Len(rest)
        /\ Len(b) \in Nat /\ Len(rest) \in Nat
        /\ \A i \in 1..Len(b) : br[i] = b[i]
    BY <1>1, ConcatParts
  <1> HIDE DEF br
  <1>5. /\ Len(sent[c]) = Len(p) + Len(br) /\ Len(p) \in Nat
        /\ \A i \in 1..Len(br) : sent[c][Len(p) + i] = br[i]
    <2>1. p \in Seq(Word) /\ br \in Seq(Word)
      BY <1>4
    <2> QED
      BY ONLY <1>2, <2>1, ConcatParts
  <1>6. Len(sent[c]) <= Len(st) /\ \A i \in 1..Len(sent[c]) : sent[c][i] = st[i]
    BY ONLY <1>3, PrefixByElement
  <1>7. ASSUME NEW i \in 1..Len(b)
        PROVE  Len(p) + i \in 1..Len(st) /\ b[i] = st[Len(p) + i]
    <2>1. i \in 1..Len(br) /\ Len(p) + i \in 1..Len(sent[c]) /\ Len(p) + i \in 1..Len(st)
      BY ONLY <1>3, <1>4, <1>5, <1>6, i \in 1..Len(b)
    <2> QED
      BY <1>4, <1>5, <1>6, <2>1
  <1> QED
    BY <1>5, <1>7 DEF b, st

\* The beginning of a piece of a sequence is a run of consecutive words of it.
LEMMA FirstWithin ==
    ASSUME NEW b \in Seq(Word), NEW st \in Seq(Word), NEW m \in Nat,
           \A i \in 1..Len(b) : m + i \in 1..Len(st) /\ b[i] = st[m + i],
           NEW total \in 0..Len(b)
    PROVE  Within(SubSeq(b, 1, total), st)
  <1> DEFINE w == SubSeq(b, 1, total)
  <1>1. /\ Len(b) \in Nat /\ Len(st) \in Nat /\ total \in Nat /\ total <= Len(b)
        /\ total \in Int /\ 1 \in Nat \ {0} /\ total - 1 + 1 = total
    BY LenProperties
  <1>2. w \in Seq(Word) /\ Len(w) = total /\ \A i \in 1..total : w[i] = b[i]
    BY ONLY b \in Seq(Word), <1>1, SubSeqIsSeq
  <1> HIDE DEF w
  <1>3. CASE total = 0
    <2>1. w = SubSeq(st, 1, 0) /\ 1 \in 1..Len(st) + 1 /\ 0 \in 0..Len(st)
      BY <1>1, <1>2, <1>3, SubSeqEmpty, EmptySeq
    <2> QED
      BY <2>1 DEF Within, w
  <1>4. CASE total # 0
    <2> DEFINE v == SubSeq(st, m + 1, m + total)
    <2>1. m + total \in 1..Len(st)
      BY <1>1, <1>4
    <2>2. /\ m + 1 \in 1..Len(st) + 1 /\ m + total \in 0..Len(st)
          /\ m + 1 \in Nat \ {0} /\ m + total \in Int /\ m + total <= Len(st)
          /\ m + 1 <= m + total /\ m + total - (m + 1) + 1 = total
      BY ONLY <1>1, <1>4, <2>1, m \in Nat
    <2>3. /\ v \in Seq(Word)
          /\ Len(v) = IF m + 1 <= m + total THEN m + total - (m + 1) + 1 ELSE 0
          /\ \A i \in 1..(m + total - (m + 1) + 1) : v[i] = st[m + 1 + i - 1]
      BY ONLY st \in Seq(Word), <2>2, SubSeqIsSeq
    <2> HIDE DEF v
    <2>4. ASSUME NEW i \in 1..total PROVE w[i] = v[i]
      <3>1. i \in 1..Len(b) /\ m + 1 + i - 1 = m + i
        BY ONLY <1>1, m \in Nat, i \in 1..total
      <3> QED
        BY <1>2, <2>2, <2>3, <3>1
    <2>5. w = v
      BY <1>2, <2>2, <2>3, <2>4, SeqEqual
    <2> QED
      BY <2>2, <2>5 DEF Within, v, w
  <1> QED
    BY <1>3, <1>4

LEMMA StoredInit == Init => StoredFromOneStream
  BY DEF Init, ServInit, StoredFromOneStream

\* The property of the next state, in which only disk and faults differ.
LEMMA StoredNext ==
    ASSUME \A n \in Word :
               disk'[n] # NULL =>
                   \E d \in Client :
                       /\ IsGapped(disk'[n], Stream(d))
                       /\ (DiskFull /\ faults' > 0) \/ Within(disk'[n], Stream(d))
    PROVE  StoredFromOneStream'
  BY Zenon DEF StoredFromOneStream, IsGapped, Within, Places, Picked, Stream, InfoOf, encode

\* When the file named name gets what is left of the words in c's evbuffer, a whole
\* beginning of them unless the disk is full and a fault is counted.
LEMMA StoredKept ==
    ASSUME CommonInv, Tails, StoredFromOneStream,
           NEW c \in Client, NEW k \in 1..Len(up[c]), NEW name,
           NEW part \in Gapped(Buffered(c, k)),
           disk' = [disk EXCEPT ![name] = part],
           \/ faults' = faults
           \/ faults' = faults + 1,
           \/ DiskFull /\ faults' # 0
           \/ part = SubSeq(Buffered(c, k), 1, Len(part))
    PROVE  StoredFromOneStream'
  <1> DEFINE b == Buffered(c, k)
  <1>1. b \in Seq(Word) /\ Stream(c) \in Seq(Word)
    BY ReadTail, StreamType DEF CommonInv
  <1>2. PICK m \in Nat :
            \A i \in 1..Len(b) : m + i \in 1..Len(Stream(c)) /\ b[i] = Stream(c)[m + i]
    BY BufferedInStream
  <1>3. part \in Gapped(b) /\ (part = SubSeq(b, 1, Len(part)) \/ (DiskFull /\ faults' # 0))
    OBVIOUS
  <1>4. faults \in Nat /\ faults' \in Nat /\ (faults > 0 => faults' > 0)
        /\ (faults' # 0 => faults' > 0)
    BY LinkAssumption DEF CommonInv, TypeOK, LinkTypeOK
  <1> HIDE DEF b
  <1>5. IsGapped(part, Stream(c))
    BY <1>1, <1>2, <1>3, GappedInPiece
  <1>6. (DiskFull /\ faults' > 0) \/ Within(part, Stream(c))
    <2>1. Len(part) \in 0..Len(b)
      BY <1>1, <1>3, GappedType
    <2> QED
      BY <1>1, <1>2, <1>3, <1>4, <2>1, FirstWithin
  <1> SUFFICES ASSUME NEW n \in Word, disk'[n] # NULL
               PROVE  \E d \in Client :
                          /\ IsGapped(disk'[n], Stream(d))
                          /\ (DiskFull /\ faults' > 0) \/ Within(disk'[n], Stream(d))
    BY StoredNext
  <1>7. disk'[n] = disk[n] \/ disk'[n] = part
    BY DEF CommonInv, TypeOK, ServTypeOK
  <1> QED
    BY <1>4, <1>5, <1>6, <1>7 DEF StoredFromOneStream

LEMMA StoredStep ==
    ASSUME CommonInv, Tails, StoredFromOneStream, [Next]_vars
    PROVE  StoredFromOneStream'
  <1> USE DEF CommonInv, linkVars, servVars, cliVars
  <1>1. faults \in Nat /\ (faults' = faults \/ faults' = faults + 1)
    BY LinkAssumption, FaultsCounted DEF TypeOK, LinkTypeOK
  <1>2. ASSUME UNCHANGED disk PROVE StoredFromOneStream'
    <2>1. faults > 0 => faults' > 0
      BY <1>1
    <2>2. \A n \in Word : disk'[n] = disk[n]
      BY <1>2
    <2> QED
      BY ONLY <2>1, <2>2, StoredFromOneStream, StoredNext DEF StoredFromOneStream
  <1>3. ASSUME NEW c \in Client, ServRead(c) PROVE StoredFromOneStream'
    <2>1. PICK k \in 1..Len(up[c]) :
              UNCHANGED disk \/ \E finfo : ReadDataWrite(c, k, finfo)
      BY <1>3 DEF ServRead, read_cb, ReadHead, ReadHeadOverrun, ReadDataPart,
                  ReadIgnored, ReadDataNoName
    <2>2. ASSUME NEW finfo, ReadDataWrite(c, k, finfo) PROVE StoredFromOneStream'
      <3>1. PICK part \in Gapped(Buffered(c, k)) :
                /\ disk' = [disk EXCEPT ![finfo.name] = part]
                /\ \/ part = Buffered(c, k)
                   \/ DiskFull /\ faults' = faults + 1
        BY <2>2 DEF ReadDataWrite, OnDisk, Fault
      <3>2. Buffered(c, k) = SubSeq(Buffered(c, k), 1, Len(Buffered(c, k)))
        BY ReadTail, SubSeqFull
      <3>3. \/ DiskFull /\ faults' # 0
            \/ part = SubSeq(Buffered(c, k), 1, Len(part))
        BY <1>1, <3>1, <3>2
      <3> QED
        BY <1>1, <3>1, <3>3, StoredKept
    <2> QED
      BY <1>2, <2>1, <2>2
  <1>4. ASSUME NEW c \in Client, ServKilled(c) PROVE StoredFromOneStream'
    <2>1. PICK k \in 1..Len(up[c]), finfo \in {frame} \union Residue :
              KilledInWrite(c, k, finfo)
      BY <1>4 DEF ServKilled, killed_in_writefile
    <2>2. PICK part \in Gapped(Buffered(c, k)) :
              /\ disk' = [disk EXCEPT ![finfo.name] = part]
              /\ DiskFull \/ part = SubSeq(Buffered(c, k), 1, Len(part))
              /\ faults' = faults + 1
      BY <2>1 DEF KilledInWrite, Fault
    <2>3. faults' # 0
      BY <1>1, <2>2
    <2> QED
      BY <1>1, <2>2, <2>3, StoredKept
  <1>5. ASSUME ~(\E c \in Client : ServRead(c) \/ ServKilled(c)) PROVE UNCHANGED disk
    BY <1>5 DEF Next, vars, ServListen, listen_cb, ServEvent, event_cb, CliConnect,
                CliRefused, CliRead, CliEvent, CliKilled, ServSignal, signal_cb,
                ServMain, main
  <1> QED
    BY <1>2, <1>3, <1>4, <1>5

\* With any number of clients whose callbacks share the server's Status, headers cut
\* anywhere and a finfo that may hold anything: a file on the server's disk has words
\* from one client's connection only, in their order, also when the disk is full or the
\* server is killed in the middle of writefile; and consecutive ones unless it is full.
THEOREM StoredFromOne == Spec => []StoredFromOneStream
  <1> DEFINE SInv == CommonInv /\ Tails /\ StoredFromOneStream
  <1>1. Init => SInv
    BY TypeInit, OrderInit, SentInit, TailInit, StoredInit DEF CommonInv
  <1>2. SInv /\ [Next]_vars => SInv'
    <2> SUFFICES ASSUME SInv, [Next]_vars PROVE SInv'
      OBVIOUS
    <2>1. CommonInv'
      BY TypeStep, OrderStep, SentStep DEF CommonInv
    <2> QED
      BY <2>1, TailStep, StoredStep
  <1>3. SInv => StoredFromOneStream
    OBVIOUS
  <1> QED
    BY <1>1, <1>2, <1>3, PTL DEF Spec

===============================================================================
