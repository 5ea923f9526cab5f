------------------------ MODULE LibeventOrderlyProofs -------------------------
(***************************************************************************)
(* LibeventTransfer when clients are started one after another, headers    *)
(* are not cut and finfo's stack slot survives: a client that is asked for *)
(* FIN has its file on the server's disk, requests and answers take turns, *)
(* and the two programs implement FileTransfer, for every set of clients,  *)
(* files and names and every number of faults.                             *)
(***************************************************************************)
EXTENDS LibeventTransferProofs

-------------------------------------------------------------------------------
(* The inductive invariant. *)

\* One connection at a time, and only to a server that runs.
OneConnected ==
    /\ \A c, d \in Connected : c = d
    /\ Connected # {} => serverUp

\* Before the server accepts a connection nothing has gone over it.
Fresh(c) ==
    conn[c] \in {"none", "backlog"} =>
        asked[c] = <<>> /\ sent[c] = <<>> /\ up[c] = <<>> /\ input[c] = <<>>

\* The server waits for c's header: all that c has sent is on its way, and it is
\* nothing or the header; c has no request before it but HEAD.
HeaderComes(c) ==
    /\ input[c] = <<>>
    /\ up[c] = sent[c]
    /\ sent[c] \in {<<>>, encode(InfoOf(c))}
    /\ asked[c] = <<"HEAD">>
    /\ cli[c] = "run" => /\ Len(down[c]) <= 1
                         /\ buf[c] # NULL => down[c] = <<>>

\* The server has c's header and waits for its file: what has arrived and what is on
\* its way is all that c has sent behind the header.
FileComes(c) == sent[c] = encode(InfoOf(c)) \o (input[c] \o up[c])

\* The file came, the write was short, the evbuffer has been drained on both sides.
FileLost(c) ==
    /\ input[c] = <<>>
    /\ up[c] = <<>>
    /\ cli[c] = "run" => buf[c] = <<>>

OpenConnection(c) ==
    conn[c] = "open" =>
        /\ Status = "HEAD" => HeaderComes(c)
        /\ Status = "DATA" => /\ frame = InfoOf(c)
                              /\ ~Asked(c, "FIN")
                              /\ FileComes(c) \/ FileLost(c)

OrderlyInv ==
    /\ OneConnected
    /\ \A c \in Client : Fresh(c) /\ OpenConnection(c)
    /\ FinMeansStored

-------------------------------------------------------------------------------
(* Lemmas. *)

\* encode and decode undo each other on a whole header.
LEMMA RoundTrip ==
    ASSUME NEW c \in Client
    PROVE  decode(encode(InfoOf(c))) = InfoOf(c)
  BY DEF decode, encode, InfoOf

\* A file behind a header: if it is as long as the file sent, it is that file.
LEMMA WholeFile ==
    ASSUME NEW c \in Client, NEW b \in Seq(Word), NEW rest \in Seq(Word),
           IsPrefix(encode(InfoOf(c)) \o (b \o rest), Stream(c)),
           Len(b) = Len(File[c])
    PROVE  b = File[c] /\ rest = <<>>
  <1> DEFINE h == encode(InfoOf(c))
             br == b \o rest
             s == h \o br
             st == Stream(c)
  <1>1. h \in Seq(Word) /\ Len(h) = HeadLen /\ File[c] \in Seq(Word)
    BY ConstantTypes, HeaderType
  <1> HIDE DEF h
  <1>2. /\ br \in Seq(Word) /\ Len(br) = Len(b) + Len(rest)
        /\ Len(b) \in Nat /\ Len(rest) \in Nat
        /\ \A i \in 1..Len(b) : br[i] = b[i]
    BY ConcatParts
  <1> HIDE DEF br
  <1>3. /\ s \in Seq(Word) /\ Len(s) = HeadLen + Len(br)
        /\ \A i \in 1..Len(br) : s[HeadLen + i] = br[i]
    <2>0. h \in Seq(Word) /\ br \in Seq(Word)
      BY <1>1, <1>2
    <2>1. s \in Seq(Word)
      BY ONLY <2>0, ConcatParts
    <2>2. Len(s) = Len(h) + Len(br)
      BY ONLY <2>0, ConcatParts
    <2>3. \A i \in 1..Len(br) : s[Len(h) + i] = br[i]
      BY ONLY <2>0, ConcatParts
    <2> HIDE DEF s
    <2> QED
      BY <1>1, <2>1, <2>2, <2>3
  <1>4. /\ st \in Seq(Word) /\ Len(st) = HeadLen + Len(File[c])
        /\ \A i \in 1..Len(File[c]) : st[HeadLen + i] = File[c][i]
    <2>1. st = h \o File[c]
      BY DEF Stream, h
    <2>2. st \in Seq(Word) /\ Len(st) = Len(h) + Len(File[c])
      <3>1. h \in Seq(Word) /\ File[c] \in Seq(Word)
        BY <1>1
      <3> QED
        BY ONLY <2>1, <3>1, ConcatParts
    <2>3. \A i \in 1..Len(File[c]) : st[Len(h) + i] = File[c][i]
      <3>1. h \in Seq(Word) /\ File[c] \in Seq(Word)
        BY <1>1
      <3> QED
        BY ONLY <2>1, <3>1, ConcatParts
    <2> HIDE DEF st
    <2> QED
      BY <1>1, <2>2, <2>3
  <1>5. IsPrefix(s, st)
    BY DEF h, br
  <1> HIDE DEF s, st
  <1>6. Len(s) <= Len(st) /\ \A i \in 1..Len(s) : s[i] = st[i]
    BY <1>3, <1>4, <1>5, PrefixByElement
  <1>7. Len(rest) = 0
    BY <1>1, <1>2, <1>3, <1>4, <1>6 DEF HeadLen
  <1>8. ASSUME NEW i \in 1..Len(b) PROVE b[i] = File[c][i]
    <2>1. /\ i \in 1..Len(br) /\ i \in 1..Len(File[c])
          /\ HeadLen + i \in 1..Len(s)
      BY <1>2, <1>3 DEF HeadLen
    <2> QED
      BY <1>2, <1>3, <1>4, <1>6, <2>1
  <1>9. b = File[c]
    BY <1>1, <1>8, SeqEqual
  <1> QED
    BY <1>7, <1>9, EmptySeq

\* Types of the pieces of a connection.
LEMMA Pieces ==
    ASSUME TypeOK, NEW c \in Client
    PROVE  /\ up[c] \in Seq(Word) /\ Len(up[c]) \in Nat
           /\ sent[c] \in Seq(Word) /\ Len(sent[c]) \in Nat
           /\ input[c] \in Seq(Word) /\ Len(input[c]) \in Nat
           /\ encode(InfoOf(c)) \in Seq(Word) /\ Len(encode(InfoOf(c))) = 3
           /\ encode(InfoOf(c)) # <<>>
  <1>1. up[c] \in Seq(Word) /\ sent[c] \in Seq(Word) /\ input[c] \in Seq(Word)
    BY DEF TypeOK, LinkTypeOK, ServTypeOK
  <1>2. encode(InfoOf(c)) \in Seq(Word) /\ Len(encode(InfoOf(c))) = 3
    BY ConstantTypes, HeaderType DEF HeadLen
  <1>3. encode(InfoOf(c)) # <<>>
    <2>1. Len(encode(InfoOf(c))) # Len(<<>>)
      BY <1>2, EmptySeq
    <2> QED
      BY <2>1
  <1>4. Len(up[c]) \in Nat /\ Len(sent[c]) \in Nat /\ Len(input[c]) \in Nat
    BY <1>1, LenProperties
  <1> QED
    BY <1>1, <1>2, <1>3, <1>4

\* A connection none of whose state changes.
LEMMA Untouched ==
    ASSUME NEW c \in Client, Fresh(c), OpenConnection(c),
           UNCHANGED <<conn[c], asked[c], sent[c], up[c], input[c], down[c], cli[c],
                       buf[c], Status, frame>>
    PROVE  Fresh(c)' /\ OpenConnection(c)'
  BY DEF Fresh, OpenConnection, HeaderComes, FileComes, FileLost, Asked, InfoOf, encode

\* A connection that is not open, whatever becomes of the server.
LEMMA NotOpen ==
    ASSUME NEW c \in Client, Fresh(c), conn'[c] # "open",
           UNCHANGED <<conn[c], asked[c], sent[c], up[c], input[c]>>
    PROVE  Fresh(c)' /\ OpenConnection(c)'
  BY DEF Fresh, OpenConnection

\* A step takes no fault back.
FaultsGrow == faults > 0 => faults' > 0

\* What FinMeansStored says of the next state.
LEMMA FinNext ==
    ASSUME \A c \in Client :
               (Asked(c, "FIN")' /\ \A d \in Client \ {c} : Out[d] # Out[c])
                   => /\ disk'[Out[c]] # NULL
                      /\ IsPrefix(disk'[Out[c]], File[c])
                      /\ (DiskFull /\ faults' > 0) \/ disk'[Out[c]] = File[c]
    PROVE  FinMeansStored'
  BY Zenon DEF FinMeansStored, IsPrefix, Asked

\* One client's step, which may write its file and ask it for FIN.
LEMMA FinKept ==
    ASSUME FinMeansStored, FaultsGrow, NEW c \in Client,
           \A e \in Client \ {c} : Asked(e, "FIN")' => Asked(e, "FIN"),
           \A n \in Word \ {Out[c]} : disk'[n] = disk[n],
           Asked(c, "FIN")' =>
               /\ disk'[Out[c]] # NULL
               /\ IsPrefix(disk'[Out[c]], File[c])
               /\ (DiskFull /\ faults' > 0) \/ disk'[Out[c]] = File[c]
    PROVE  FinMeansStored'
  <1> SUFFICES ASSUME NEW e \in Client, Asked(e, "FIN")',
                      \A d \in Client \ {e} : Out[d] # Out[e]
               PROVE  /\ disk'[Out[e]] # NULL
                      /\ IsPrefix(disk'[Out[e]], File[e])
                      /\ (DiskFull /\ faults' > 0) \/ disk'[Out[e]] = File[e]
    BY FinNext
  <1>1. CASE e = c
    BY <1>1
  <1>2. CASE e # c
    <2>1. Out[e] # Out[c] /\ Out[e] \in Word /\ Asked(e, "FIN")
      BY <1>2, LinkAssumption
    <2>2. disk'[Out[e]] = disk[Out[e]]
      BY <2>1
    <2> QED
      BY <2>1, <2>2 DEF FinMeansStored, FaultsGrow
  <1> QED
    BY <1>1, <1>2

\* A step that neither writes nor asks.
LEMMA FinSame ==
    ASSUME FinMeansStored, FaultsGrow, UNCHANGED <<asked, disk>>
    PROVE  FinMeansStored'
  <1>1. \A c \in Client : Asked(c, "FIN")' = Asked(c, "FIN") /\ disk'[Out[c]] = disk[Out[c]]
    BY DEF Asked
  <1> QED
    BY <1>1, FinNext DEF FinMeansStored, FaultsGrow

LEMMA RequestAsks ==
    ASSUME TypeOK, NEW c \in Client, NEW r \in RequestType, Request(c, r)
    PROVE  /\ asked'[c] = Append(asked[c], r)
           /\ \A e \in Client \ {c} : asked'[e] = asked[e] /\ down'[e] = down[e]
           /\ Asked(c, "FIN")' <=> Asked(c, "FIN") \/ r = "FIN"
  <1>1. /\ asked[c] \in Seq(RequestType) /\ Len(asked[c]) \in Nat
        /\ asked'[c] = Append(asked[c], r)
        /\ \A e \in Client \ {c} : asked'[e] = asked[e] /\ down'[e] = down[e]
    BY LenProperties DEF Request, TypeOK, LinkTypeOK
  <1>2. /\ Len(asked'[c]) = Len(asked[c]) + 1
        /\ \A i \in 1..Len(asked[c]) : asked'[c][i] = asked[c][i]
        /\ asked'[c][Len(asked[c]) + 1] = r
    BY <1>1, AppendProperties
  <1>3. \A i \in 1..Len(asked'[c]) : i \in 1..Len(asked[c]) \/ i = Len(asked[c]) + 1
    BY <1>1, <1>2
  <1>5. Asked(c, "FIN")' => Asked(c, "FIN") \/ r = "FIN"
    BY <1>1, <1>2, <1>3 DEF Asked
  <1>6. Asked(c, "FIN") => Asked(c, "FIN")'
    <2> SUFFICES ASSUME NEW i \in 1..Len(asked[c]), asked[c][i] = "FIN"
                 PROVE  Asked(c, "FIN")'
      BY DEF Asked
    <2>1. i \in 1..Len(asked'[c])
      BY <1>1, <1>2
    <2> QED
      BY <1>2, <2>1 DEF Asked
  <1>7. r = "FIN" => Asked(c, "FIN")'
    <2>1. Len(asked[c]) + 1 \in 1..Len(asked'[c])
      BY <1>1, <1>2
    <2> QED
      BY <1>2, <2>1 DEF Asked
  <1> QED
    BY <1>1, <1>5, <1>6, <1>7

\* The end of the server's process.
LEMMA GoneKeepsOrderly ==
    ASSUME OrderlyInv, TypeOK, ServerGone, UNCHANGED <<asked, sent>>, FinMeansStored'
    PROVE  OrderlyInv'
  <1>1. Connected' = {}
    BY DEF ServerGone, Connected
  <1>2. ASSUME NEW e \in Client PROVE Fresh(e)' /\ OpenConnection(e)'
    <2>1. Fresh(e)
      BY DEF OrderlyInv
    <2> QED
      BY <2>1 DEF ServerGone, Fresh, OpenConnection
  <1> QED
    BY <1>1, <1>2 DEF OrderlyInv, OneConnected

\* A step of the server on the one open connection.
LEMMA OthersKeep ==
    ASSUME OrderlyInv, TypeOK, NEW c \in Client, conn[c] \in {"backlog", "open"},
           NEW e \in Client, e # c,
           UNCHANGED <<conn[e], asked[e], sent[e], up[e], input[e]>>
    PROVE  Fresh(e)' /\ OpenConnection(e)'
  <1>1. conn[e] \notin {"backlog", "open"} /\ Fresh(e)
    BY DEF OrderlyInv, OneConnected, Connected
  <1> QED
    BY <1>1, NotOpen

LEMMA ListenKeepsOrderly ==
    ASSUME CommonInv, OrderlyInv, FaultsGrow, NEW c \in Client, ServListen(c)
    PROVE  OrderlyInv'
  <1> USE DEF CommonInv
  <1>1. /\ conn[c] = "backlog" /\ conn' = [conn EXCEPT ![c] = "open"]
        /\ Status' = "HEAD" /\ Request(c, "HEAD")
        /\ UNCHANGED <<hup, up, sent, faults, serverUp, frame, input, disk, cli, buf>>
    BY DEF ServListen, listen_cb, cliVars
  <1>2. /\ asked'[c] = Append(asked[c], "HEAD")
        /\ \A e \in Client \ {c} : asked'[e] = asked[e]
        /\ Asked(c, "FIN")' => Asked(c, "FIN")
    BY <1>1, RequestAsks DEF RequestType
  <1>3. asked[c] = <<>> /\ sent[c] = <<>> /\ up[c] = <<>> /\ input[c] = <<>>
    BY <1>1 DEF OrderlyInv, Fresh
  <1>4. HeaderComes(c)'
    <2>1. RequestOrderOf(c)
      BY DEF RequestOrder
    <2>2. down'[c] = <<"HEAD">> /\ (cli[c] = "run" => buf[c] = NULL)
      BY <1>1, <2>1 DEF RequestOrderOf, Request, TypeOK, LinkTypeOK
    <2> QED
      BY <1>1, <1>2, <1>3, <2>2 DEF HeaderComes
  <1>5. Fresh(c)' /\ OpenConnection(c)'
    BY <1>1, <1>4 DEF Fresh, OpenConnection, TypeOK, LinkTypeOK
  <1>6. ASSUME NEW e \in Client, e # c PROVE Fresh(e)' /\ OpenConnection(e)'
    BY <1>1, <1>2, <1>6, OthersKeep DEF TypeOK, LinkTypeOK
  <1>7. ~Asked(c, "FIN")
    BY <1>3, EmptySeq DEF Asked
  <1>8. FinMeansStored'
    BY <1>1, <1>2, <1>7, FinKept DEF Asked, OrderlyInv
  <1>9. Connected' = Connected
    BY <1>1 DEF Connected, TypeOK, LinkTypeOK
  <1> QED
    BY <1>1, <1>5, <1>6, <1>8, <1>9 DEF OrderlyInv, OneConnected

LEMMA ReadHeadKeepsOrderly ==
    ASSUME Orderly, CommonInv, OrderlyInv, FaultsGrow, NEW c \in Client, NEW k \in 1..Len(up[c]),
           ReadHead(c, k), UNCHANGED cliVars
    PROVE  OrderlyInv'
  <1> USE DEF CommonInv
  <1> DEFINE h == encode(InfoOf(c))
             b == Buffered(c, k)
             n == IF Len(b) <= BUFSIZ THEN Len(b) ELSE BUFSIZ
  <1>1. /\ conn[c] = "open" /\ Arrives(c, k) /\ Status = "HEAD"
        /\ frame' = decode(SubSeq(b, 1, n))
        /\ Take(c, k, SubSeq(b, n + 1, Len(b)))
        /\ Status' = "DATA" /\ Request(c, "DATA")
        /\ UNCHANGED <<conn, hup, sent, faults, serverUp, disk, cli, buf, cin>>
    BY DEF ReadHead, Readable, cliVars
  <1>2. HeaderComes(c)
    BY <1>1 DEF OrderlyInv, OpenConnection
  <1>3. /\ h \in Seq(Word) /\ Len(h) = 3
        /\ Len(up[c]) \in Nat /\ up[c] # <<>> /\ k \in Nat
    BY Pieces, EmptySeq
  <1> HIDE DEF h, b
  <1>4. up[c] = h /\ sent[c] = h /\ input[c] = <<>> /\ asked[c] = <<"HEAD">>
    <2>1. /\ sent[c] \in {<<>>, h} /\ up[c] = sent[c]
          /\ input[c] = <<>> /\ asked[c] = <<"HEAD">>
      BY <1>2 DEF HeaderComes, h
    <2> QED
      BY <1>3, <2>1
  <1>5. k = 3
    <2>1. Len(sent[c]) = 3 /\ Len(up[c]) = 3
      BY <1>3, <1>4
    <2>2. k \in 1..3 /\ 3 - 3 + k = k
      BY <2>1
    <2>3. MayCut(k)
      BY <1>1, <2>1, <2>2 DEF Arrives
    <2> QED
      BY <2>2, <2>3 DEF MayCut, Orderly, HeadLen
  <1>6. b = h
    <2>1. b = <<>> \o SubSeq(h, 1, Len(h))
      BY <1>3, <1>4, <1>5 DEF b, Buffered
    <2> QED
      BY <1>3, <2>1, SubSeqFull, ConcatEmptySeq
  <1>7. n = 3
    BY <1>3, <1>6, LinkAssumption DEF HeadLen
  <1>8. /\ SubSeq(b, 1, n) = h
        /\ SubSeq(b, n + 1, Len(b)) = <<>>
        /\ SubSeq(up[c], k + 1, Len(up[c])) = <<>>
    <2>1. SubSeq(h, 1, 3) = h
      BY <1>3, SubSeqFull
    <2>2. SubSeq(h, 4, 3) = <<>>
      BY <1>3, SubSeqEmpty
    <2> HIDE DEF n
    <2>3. n + 1 = 4 /\ k + 1 = 4
      BY <1>5, <1>7
    <2> QED
      BY <1>3, <1>4, <1>5, <1>6, <1>7, <2>1, <2>2, <2>3
  <1>9. frame' = InfoOf(c)
    BY <1>1, <1>8, RoundTrip DEF h
  <1>10. /\ up'[c] = <<>> /\ input'[c] = <<>>
         /\ \A e \in Client \ {c} : up'[e] = up[e] /\ input'[e] = input[e]
    BY <1>1, <1>8 DEF Take, TypeOK, LinkTypeOK, ServTypeOK
  <1>11. /\ asked'[c] = Append(asked[c], "DATA")
         /\ \A e \in Client \ {c} : asked'[e] = asked[e]
         /\ Asked(c, "FIN")' => Asked(c, "FIN")
    BY <1>1, RequestAsks DEF RequestType
  <1>12. ~Asked(c, "FIN")
    BY <1>4 DEF Asked
  <1>13. FileComes(c)'
    <2>1. h = h \o (<<>> \o <<>>)
      <3>1. <<>> \o <<>> = <<>>
        BY EmptySeq, ConcatEmptySeq
      <3> QED
        BY <1>3, <3>1, ConcatEmptySeq
    <2> QED
      BY <1>1, <1>4, <1>10, <2>1 DEF FileComes, h
  <1>14. Fresh(c)' /\ OpenConnection(c)'
    BY <1>1, <1>9, <1>11, <1>12, <1>13 DEF Fresh, OpenConnection
  <1>15. ASSUME NEW e \in Client, e # c PROVE Fresh(e)' /\ OpenConnection(e)'
    BY <1>1, <1>10, <1>11, <1>15, OthersKeep
  <1>16. FinMeansStored'
    BY <1>1, <1>11, <1>12, FinKept DEF Asked, OrderlyInv
  <1> QED
    BY <1>1, <1>14, <1>15, <1>16 DEF OrderlyInv, OneConnected, Connected

\* What the DATA branch finds: the header of the connection it is called for, and
\* behind it the file as far as it has come.
LEMMA DataRead ==
    ASSUME CommonInv, OrderlyInv, NEW c \in Client, NEW k \in 1..Len(up[c]),
           Readable(c, k), Status = "DATA"
    PROVE  LET rest == SubSeq(up[c], k + 1, Len(up[c]))
           IN  /\ conn[c] = "open"
               /\ frame = InfoOf(c)
               /\ ~Asked(c, "FIN")
               /\ Buffered(c, k) \in Seq(Word) /\ rest \in Seq(Word)
               /\ sent[c] = encode(InfoOf(c)) \o (Buffered(c, k) \o rest)
  <1> USE DEF CommonInv
  <1> DEFINE rest == SubSeq(up[c], k + 1, Len(up[c]))
             front == SubSeq(up[c], 1, k)
             h == encode(InfoOf(c))
  <1>1. /\ conn[c] = "open" /\ frame = InfoOf(c) /\ ~Asked(c, "FIN")
        /\ FileComes(c) \/ FileLost(c)
    BY DEF Readable, OrderlyInv, OpenConnection
  <1>2. up[c] # <<>>
    <2>1. Len(up[c]) # Len(<<>>)
      BY EmptySeq
    <2> QED
      BY <2>1
  <1>3. sent[c] = h \o (input[c] \o up[c])
    BY <1>1, <1>2 DEF FileComes, FileLost
  <1>4. up[c] \in Seq(Word) /\ input[c] \in Seq(Word) /\ k \in 0..Len(up[c])
    BY Pieces
  <1>5. front \in Seq(Word) /\ rest \in Seq(Word) /\ front \o rest = up[c]
    BY <1>4, Split
  <1> HIDE DEF rest, front, h
  <1>6. Buffered(c, k) = input[c] \o front
    BY DEF Buffered, front
  <1>7. (input[c] \o front) \o rest = input[c] \o up[c]
    <2> DEFINE i == input[c]
    <2>0. i \in Seq(Word) /\ front \in Seq(Word) /\ rest \in Seq(Word)
      BY <1>4, <1>5
    <2> HIDE DEF i
    <2>1. (i \o front) \o rest = i \o (front \o rest)
      BY ONLY <2>0, RegroupWords
    <2> USE DEF i
    <2> QED
      BY <1>5, <2>1
  <1>8. input[c] \o front \in Seq(Word)
    BY <1>4, <1>5, ConcatProperties
  <1> QED
    BY <1>1, <1>3, <1>5, <1>6, <1>7, <1>8 DEF h, rest

LEMMA ReadDataPartKeepsOrderly ==
    ASSUME CommonInv, OrderlyInv, FaultsGrow, NEW c \in Client, NEW k \in 1..Len(up[c]),
           ReadDataPart(c, k), UNCHANGED cliVars
    PROVE  OrderlyInv'
  <1> USE DEF CommonInv
  <1> DEFINE rest == SubSeq(up[c], k + 1, Len(up[c]))
             b == Buffered(c, k)
  <1>1. /\ Readable(c, k) /\ Status = "DATA" /\ Take(c, k, b)
        /\ UNCHANGED <<conn, hup, down, sent, asked, faults>>
        /\ UNCHANGED <<serverUp, Status, frame, disk, cli, buf>>
    BY DEF ReadDataPart, cliVars
  <1>2. /\ conn[c] = "open" /\ frame = InfoOf(c) /\ ~Asked(c, "FIN")
        /\ sent[c] = encode(InfoOf(c)) \o (b \o rest)
    BY <1>1, DataRead
  <1> HIDE DEF b
  <1>3. /\ up'[c] = rest /\ input'[c] = b
        /\ \A e \in Client \ {c} : up'[e] = up[e] /\ input'[e] = input[e]
    BY <1>1 DEF Take, TypeOK, LinkTypeOK, ServTypeOK
  <1> HIDE DEF rest
  <1>4. FileComes(c)'
    BY <1>1, <1>2, <1>3 DEF FileComes, InfoOf, encode
  <1>5. Fresh(c)' /\ OpenConnection(c)'
    BY <1>1, <1>2, <1>4 DEF Fresh, OpenConnection, Asked, InfoOf
  <1>6. ASSUME NEW e \in Client, e # c PROVE Fresh(e)' /\ OpenConnection(e)'
    BY <1>1, <1>2, <1>3, <1>6, OthersKeep
  <1> QED
    BY <1>1, <1>5, <1>6, FinSame DEF OrderlyInv, OneConnected, Connected

\* When the DATA branch finds as many words as the header said, they are the file and
\* no word is behind them.
LEMMA WholeFileRead ==
    ASSUME CommonInv, OrderlyInv, NEW c \in Client, NEW k \in 1..Len(up[c]),
           Readable(c, k), Status = "DATA", Len(Buffered(c, k)) = frame.size
    PROVE  /\ Buffered(c, k) = File[c]
           /\ SubSeq(up[c], k + 1, Len(up[c])) = <<>>
           /\ frame.name = Out[c]
  <1> USE DEF CommonInv
  <1> DEFINE rest == SubSeq(up[c], k + 1, Len(up[c]))
             b == Buffered(c, k)
             h == encode(InfoOf(c))
  <1>1. /\ frame = InfoOf(c) /\ b \in Seq(Word) /\ rest \in Seq(Word)
        /\ sent[c] = h \o (b \o rest)
    BY DataRead
  <1>2. Len(b) = Len(File[c]) /\ frame.name = Out[c]
    BY <1>1 DEF InfoOf
  <1> HIDE DEF b, rest
  <1>3. IsPrefix(h \o (b \o rest), Stream(c))
    BY <1>1 DEF SentOrder, SentOrderOf
  <1>4. b = File[c] /\ rest = <<>>
    BY <1>1, <1>2, <1>3, WholeFile
  <1> QED
    BY <1>2, <1>4 DEF b, rest

\* What writefile stores, what it returns for that, and what is asked then.
Writes(c, k, part, total, answer) ==
    /\ answer = IF total # Len(Buffered(c, k)) THEN "DATA" ELSE "FIN"
    /\ OnDisk(Buffered(c, k), part, total)
    /\ disk' = [disk EXCEPT ![frame.name] = part]
    /\ Status' = answer
    /\ Request(c, answer)

LEMMA WriteStep ==
    ASSUME NEW c \in Client, NEW k, ReadDataWrite(c, k, frame)
    PROVE  \E part \in Gapped(Buffered(c, k)), total \in Int,
              answer \in {"DATA", "FIN"} : Writes(c, k, part, total, answer)
  <1> DEFINE b == Buffered(c, k)
             answer(total) == IF writefile(frame, b, total) # 0 THEN "DATA" ELSE "FIN"
  <1>1. PICK part \in Gapped(b) : \E total \in Len(part)..Len(b) :
            /\ OnDisk(b, part, total)
            /\ disk' = [disk EXCEPT ![frame.name] = part]
            /\ Status' = answer(total) /\ Request(c, answer(total))
    BY DEF ReadDataWrite
  <1>2. PICK total \in Len(part)..Len(b) :
            /\ OnDisk(b, part, total)
            /\ disk' = [disk EXCEPT ![frame.name] = part]
            /\ Status' = answer(total) /\ Request(c, answer(total))
    BY <1>1
  <1>3. answer(total) = IF total # Len(b) THEN "DATA" ELSE "FIN"
    BY DEF writefile
  <1>4. Writes(c, k, part, total, answer(total))
    BY <1>2, <1>3 DEF Writes
  <1>5. answer(total) \in {"DATA", "FIN"} /\ total \in Int
    OBVIOUS
  <1> HIDE DEF answer
  <1> QED
    BY <1>1, <1>4, <1>5

LEMMA ReadDataWriteKeepsOrderly ==
    ASSUME CommonInv, OrderlyInv, FaultsGrow, NEW c \in Client, NEW k \in 1..Len(up[c]),
           ReadDataWrite(c, k, frame), UNCHANGED cliVars
    PROVE  OrderlyInv'
  <1> USE DEF CommonInv
  <1> DEFINE rest == SubSeq(up[c], k + 1, Len(up[c]))
             b == Buffered(c, k)
             h == encode(InfoOf(c))
  <1>0. PICK part \in Gapped(b), total \in Int, answer \in {"DATA", "FIN"} :
            Writes(c, k, part, total, answer)
    BY WriteStep
  <1>1. /\ answer = "FIN" => part = SubSeq(b, 1, Len(part))
        /\ part = b \/ (DiskFull /\ Fault)
        /\ Readable(c, k) /\ Status = "DATA"
        /\ Len(b) = frame.size
        /\ disk' = [disk EXCEPT ![frame.name] = part]
        /\ Take(c, k, <<>>) /\ Status' = answer /\ Request(c, answer)
        /\ UNCHANGED <<conn, hup, sent, serverUp, frame, cli, buf>>
    <2>1. /\ Readable(c, k) /\ Status = "DATA" /\ Len(b) = frame.size /\ Take(c, k, <<>>)
          /\ UNCHANGED <<conn, hup, sent, serverUp, frame, cli, buf>>
      BY DEF ReadDataWrite, cliVars
    <2> QED
      BY <1>0, <2>1 DEF Writes, OnDisk
  <1>2. /\ conn[c] = "open" /\ frame = InfoOf(c) /\ ~Asked(c, "FIN")
        /\ b \in Seq(Word) /\ rest \in Seq(Word)
        /\ sent[c] = h \o (b \o rest)
    BY <1>1, DataRead
  <1>3. h \in Seq(Word) /\ h # <<>>
    BY Pieces
  <1>4. SentOrderOf(c)
    BY DEF SentOrder
  <1> HIDE DEF b, rest
  <1>5. b = File[c] /\ rest = <<>> /\ frame.name = Out[c]
    BY <1>1, WholeFileRead DEF b, rest
  <1>6. /\ up'[c] = <<>> /\ input'[c] = <<>>
        /\ \A e \in Client \ {c} : up'[e] = up[e] /\ input'[e] = input[e]
    <2>1. up'[c] = rest
      BY <1>1 DEF Take, rest, TypeOK, LinkTypeOK
    <2> QED
      BY <1>1, <1>5, <2>1 DEF Take, TypeOK, LinkTypeOK, ServTypeOK
  <1>7. /\ asked'[c] = Append(asked[c], answer)
        /\ \A e \in Client \ {c} : asked'[e] = asked[e]
        /\ Asked(c, "FIN")' => answer = "FIN"
    BY <1>1, <1>2, RequestAsks DEF RequestType
  <1>8. /\ disk'[Out[c]] = part
        /\ \A n \in Word \ {Out[c]} : disk'[n] = disk[n]
    BY <1>1, <1>5, LinkAssumption DEF TypeOK, ServTypeOK
  <1>9. /\ part # NULL
        /\ answer = "FIN" => IsPrefix(part, File[c])
        /\ part = File[c] \/ (DiskFull /\ faults' > 0)
    <2>1. part \in Seq(Word) /\ Len(part) \in 0..Len(b)
      BY <1>0, <1>2, GappedType DEF b
    <2>2. part # NULL
      BY <2>1, LinkAssumption
    <2>3. ASSUME answer = "FIN" PROVE IsPrefix(part, b)
      <3>1. SubSeq(part, 1, Len(part)) = SubSeq(b, 1, Len(part)) /\ Len(part) <= Len(b)
        BY <1>1, <1>2, <2>1, <2>3, SubSeqFull
      <3> QED
        BY <3>1 DEF IsPrefix
    <2>4. ASSUME DiskFull, Fault PROVE DiskFull /\ faults' > 0
      BY <2>4, LinkAssumption DEF Fault, TypeOK, LinkTypeOK
    <2> QED
      BY <1>1, <1>5, <2>2, <2>3, <2>4
  <1>10. FinMeansStored'
    BY <1>7, <1>8, <1>9, FinKept DEF Asked, OrderlyInv
  <1>11. FileLost(c)'
    <2>1. ASSUME cli[c] = "run" PROVE buf[c] = <<>>
      <3>1. sent[c] = Stream(c)
        <4>1. b \o rest = File[c]
          BY <1>2, <1>5, ConcatEmptySeq
        <4> QED
          BY <1>2, <4>1 DEF Stream
      <3>2. Stream(c) # <<>>
        BY <1>3, ConstantTypes, ConcatEqualIffEmpty DEF Stream
      <3>3. buf[c] # NULL /\ Stream(c) \o buf[c] = Stream(c)
        BY <1>2, <1>4, <2>1, <3>1, <3>2 DEF SentOrderOf
      <3>4. buf[c] \in Seq(Word)
        BY <3>3 DEF TypeOK, CliTypeOK
      <3> QED
        BY <3>3, <3>4, StreamType, ConcatEqualIffEmpty
    <2> QED
      BY <1>1, <1>6, <2>1 DEF FileLost
  <1>12. Fresh(c)' /\ OpenConnection(c)'
    BY <1>1, <1>2, <1>7, <1>11 DEF Fresh, OpenConnection, InfoOf
  <1>13. ASSUME NEW e \in Client, e # c PROVE Fresh(e)' /\ OpenConnection(e)'
    BY <1>1, <1>2, <1>6, <1>7, <1>13, OthersKeep
  <1> QED
    BY <1>1, <1>10, <1>12, <1>13 DEF OrderlyInv, OneConnected, Connected

LEMMA ServReadKeepsOrderly ==
    ASSUME Orderly, CommonInv, OrderlyInv, FaultsGrow, NEW c \in Client, ServRead(c)
    PROVE  OrderlyInv'
  <1> USE DEF CommonInv
  <1>1. UNCHANGED cliVars /\ {frame} \union Residue = {frame}
    BY DEF ServRead, Orderly
  <1>2. PICK k \in 1..Len(up[c]) :
            \/ ReadHead(c, k)
            \/ ReadHeadOverrun(c, k)
            \/ ReadDataPart(c, k)
            \/ ReadIgnored(c, k)
            \/ ReadDataNoName(c, k, frame)
            \/ ReadDataWrite(c, k, frame)
    BY <1>1 DEF ServRead, read_cb
  <1>3. CASE ReadHead(c, k)
    BY <1>1, <1>3, ReadHeadKeepsOrderly
  <1>4. CASE ReadHeadOverrun(c, k) \/ ReadDataNoName(c, k, frame)
    BY <1>4, FinSame, GoneKeepsOrderly
    DEF ReadHeadOverrun, ReadDataNoName, OrderlyInv
  <1>5. CASE ReadDataPart(c, k)
    BY <1>1, <1>5, ReadDataPartKeepsOrderly
  <1>6. CASE ReadIgnored(c, k)
    <2>1. /\ conn[c] = "open" /\ Status \notin {"HEAD", "DATA"}
          /\ UNCHANGED <<conn, sent, asked, serverUp, Status, disk>>
          /\ \A e \in Client \ {c} : up'[e] = up[e] /\ input'[e] = input[e]
      BY <1>6 DEF ReadIgnored, Readable, Take, TypeOK, LinkTypeOK, ServTypeOK
    <2>2. Fresh(c)' /\ OpenConnection(c)'
      BY <2>1 DEF Fresh, OpenConnection
    <2>3. ASSUME NEW e \in Client, e # c PROVE Fresh(e)' /\ OpenConnection(e)'
      BY <2>1, <2>3, OthersKeep
    <2> QED
      BY <2>1, <2>2, <2>3, FinSame DEF OrderlyInv, OneConnected, Connected
  <1>7. CASE ReadDataWrite(c, k, frame)
    BY <1>1, <1>7, ReadDataWriteKeepsOrderly
  <1> QED
    BY <1>2, <1>3, <1>4, <1>5, <1>6, <1>7

LEMMA ServKilledKeepsOrderly ==
    ASSUME Orderly, CommonInv, OrderlyInv, FaultsGrow, NEW c \in Client, ServKilled(c)
    PROVE  OrderlyInv'
  <1> USE DEF CommonInv
  <1>1. PICK k \in 1..Len(up[c]) : KilledInWrite(c, k, frame)
    BY DEF ServKilled, killed_in_writefile, Orderly
  <1>2. frame = InfoOf(c) /\ ~Asked(c, "FIN")
    BY <1>1, DataRead DEF KilledInWrite
  <1>3. /\ ServerGone /\ UNCHANGED <<asked, sent>>
        /\ \A n \in Word \ {Out[c]} : disk'[n] = disk[n]
    BY <1>1, <1>2 DEF KilledInWrite, InfoOf, TypeOK, ServTypeOK
  <1>4. FinMeansStored'
    BY <1>2, <1>3, FinKept DEF Asked, OrderlyInv
  <1> QED
    BY <1>3, <1>4, GoneKeepsOrderly

\* The end of a client, on a connection that the server may still have open.
LEMMA HangUpKeepsOrderly ==
    ASSUME Orderly, CommonInv, OrderlyInv, FaultsGrow, NEW c \in Client, HangUp(c),
           cli'[c] # "run", UNCHANGED <<conn, asked, servVars>>,
           \A e \in Client \ {c} :
               cli'[e] = cli[e] /\ buf'[e] = buf[e] /\ down'[e] = down[e]
    PROVE  OrderlyInv'
  <1> USE DEF CommonInv, servVars
  <1>1. PICK n \in 0..Len(up[c]) :
            /\ MayCut(Len(sent[c]) - n)
            /\ up' = [up EXCEPT ![c] = SubSeq(@, 1, Len(@) - n)]
            /\ sent' = [sent EXCEPT ![c] = SubSeq(@, 1, Len(@) - n)]
    BY DEF HangUp
  <1>2. /\ up'[c] = SubSeq(up[c], 1, Len(up[c]) - n)
        /\ sent'[c] = SubSeq(sent[c], 1, Len(sent[c]) - n)
        /\ \A e \in Client \ {c} : up'[e] = up[e] /\ sent'[e] = sent[e]
    BY <1>1 DEF TypeOK, LinkTypeOK
  <1>3. /\ up[c] \in Seq(Word) /\ sent[c] \in Seq(Word) /\ input[c] \in Seq(Word)
        /\ Len(up[c]) \in Nat /\ Len(sent[c]) \in Nat
        /\ encode(InfoOf(c)) \in Seq(Word) /\ Len(encode(InfoOf(c))) = 3
    BY Pieces
  <1>4. Fresh(c) /\ OpenConnection(c)
    BY DEF OrderlyInv
  <1>5. ASSUME up[c] = <<>> PROVE n = 0 /\ up'[c] = <<>> /\ sent'[c] = sent[c]
    <2>1. n = 0
      <3>1. Len(up[c]) = 0
        BY <1>5, EmptySeq
      <3> QED
        BY <3>1
    <2>2. up'[c] = SubSeq(up[c], 1, Len(up[c]))
      BY <1>2, <1>3, <2>1
    <2>3. sent'[c] = SubSeq(sent[c], 1, Len(sent[c]))
      BY <1>2, <1>3, <2>1
    <2> QED
      BY <1>3, <1>5, <2>1, <2>2, <2>3, SubSeqFull
  <1>6. Fresh(c)'
    BY <1>4, <1>5 DEF Fresh
  <1>7. ASSUME HeaderComes(c) PROVE HeaderComes(c)'
    <2> DEFINE h == encode(InfoOf(c))
    <2>1. /\ up[c] = sent[c] /\ sent[c] \in {<<>>, h} /\ input[c] = <<>>
          /\ asked[c] = <<"HEAD">>
      BY <1>7 DEF HeaderComes
    <2>2. up'[c] = sent'[c]
      BY <1>2, <2>1
    <2>3. CASE up[c] = <<>>
      BY <1>5, <2>1, <2>2, <2>3 DEF HeaderComes, InfoOf, encode
    <2>4. CASE up[c] = h
      <3> HIDE DEF h
      <3>1. Len(sent[c]) = 3 /\ Len(up[c]) = 3 /\ n \in 0..3
        BY <1>3, <2>1, <2>4 DEF h
      <3>2. n = 3 \/ n = 0
        <4>1. MayCut(3 - n)
          BY <1>1, <3>1
        <4> QED
          BY <3>1, <4>1 DEF MayCut, Orderly, HeadLen
      <3>3. CASE n = 3
        <4>1. sent'[c] = SubSeq(sent[c], 1, 0)
          BY <1>2, <3>1, <3>3
        <4>2. sent'[c] = <<>>
          BY <4>1, SubSeqEmpty
        <4> QED
          BY <2>1, <2>2, <4>2 DEF HeaderComes
      <3>4. CASE n = 0
        <4>1. sent'[c] = SubSeq(sent[c], 1, Len(sent[c]))
          BY <1>2, <1>3, <3>4
        <4>2. sent'[c] = h
          BY <1>3, <2>1, <2>4, <4>1, SubSeqFull
        <4> QED
          BY <2>1, <2>2, <4>2 DEF HeaderComes, InfoOf, encode, h
      <3> QED
        BY <3>2, <3>3, <3>4
    <2> QED
      BY <2>1, <2>3, <2>4
  <1>8. ASSUME FileComes(c) PROVE FileComes(c)'
    <2> DEFINE h == encode(InfoOf(c))
               u == up[c]
               i == input[c]
               io == i \o u
               rest == SubSeq(u, 1, Len(u) - n)
    <2>0. u \in Seq(Word) /\ i \in Seq(Word) /\ n \in 0..Len(u)
      BY <1>3
    <2>1. /\ io \in Seq(Word) /\ Len(io) = Len(i) + Len(u)
          /\ Len(i) \in Nat
      BY <1>3, ConcatProperties, LenProperties
    <2>2. n \in 0..Len(io)
      <3>1. Len(u) \in Nat /\ Len(io) = Len(i) + Len(u)
        BY <1>3, <2>1
      <3> HIDE DEF io, i, u
      <3> QED
        BY <2>0, <2>1, <3>1
    <2>3. sent[c] = h \o io
      BY <1>8 DEF FileComes
    <2>4. h \in Seq(Word)
      BY <1>3
    <2> HIDE DEF h, i, u
    <2>5. SubSeq(io, 1, Len(io) - n) = i \o rest
      BY <2>0, CutConcat
    <2> HIDE DEF io
    <2>6. SubSeq(h \o io, 1, Len(h \o io) - n) = h \o SubSeq(io, 1, Len(io) - n)
      BY <2>1, <2>2, <2>4, CutConcat
    <2>7. sent'[c] = h \o (i \o rest)
      BY <1>2, <2>3, <2>5, <2>6
    <2>8. up'[c] = rest /\ input'[c] = i
      BY <1>2 DEF i, u
    <2> HIDE DEF rest
    <2> QED
      BY <2>7, <2>8 DEF FileComes, InfoOf, encode, h
  <1>9. ASSUME FileLost(c) PROVE FileLost(c)'
    BY <1>5, <1>9 DEF FileLost
  <1>10. OpenConnection(c)'
    BY <1>4, <1>7, <1>8, <1>9 DEF OpenConnection, Asked, InfoOf
  <1>11. ASSUME NEW e \in Client, e # c PROVE Fresh(e)' /\ OpenConnection(e)'
    BY <1>2, <1>11, Untouched DEF OrderlyInv
  <1> QED
    BY <1>6, <1>10, <1>11, FinSame DEF OrderlyInv, OneConnected, Connected

LEMMA CliReadKeepsOrderly ==
    ASSUME Orderly, CommonInv, OrderlyInv, FaultsGrow, NEW c \in Client, CliRead(c)
    PROVE  OrderlyInv'
  <1> USE DEF CommonInv
  <1>1. PICK k \in 1..Len(down[c]) :
            \/ ReadHeadRequest(c, k)
            \/ AbortNoInfile(c, k)
            \/ ReadDataRequest(c, k)
            \/ ReadFin(c, k)
    BY DEF CliRead, read_cb_cli
  <1>2. /\ UNCHANGED servVars /\ cli[c] = "run"
        /\ down' = [down EXCEPT ![c] = SubSeq(down[c], k + 1, Len(down[c]))]
        /\ \A e \in Client \ {c} : down'[e] = down[e]
    BY <1>1 DEF CliRead, ReadHeadRequest, AbortNoInfile, ReadDataRequest, ReadFin,
                Receives, TypeOK, LinkTypeOK
  <1>3. /\ down[c] \in Seq(RequestType) /\ Len(down[c]) \in Nat /\ down[c] # <<>>
        /\ conn[c] \notin {"none", "backlog"}
    BY <1>1, LenProperties, EmptySeq DEF TypeOK, LinkTypeOK, RequestOrder, RequestOrderOf
  <1>4. Len(down[c]) <= 1 => down'[c] = <<>>
    <2>1. ASSUME Len(down[c]) <= 1 PROVE k + 1 > Len(down[c])
      BY <1>3, <2>1
    <2>2. ASSUME Len(down[c]) <= 1 PROVE SubSeq(down[c], k + 1, Len(down[c])) = <<>>
      BY <1>3, <2>1, <2>2, SubSeqEmpty
    <2> QED
      BY <1>2, <2>2 DEF TypeOK, LinkTypeOK
  <1>5. /\ up[c] \in Seq(Word) /\ sent[c] \in Seq(Word) /\ input[c] \in Seq(Word)
        /\ encode(InfoOf(c)) \in Seq(Word) /\ encode(InfoOf(c)) # <<>>
    BY Pieces
  <1>6. SentOrderOf(c) /\ OpenConnection(c)
    BY DEF SentOrder, OrderlyInv
  <1>7. CASE AbortNoInfile(c, k) \/ ReadFin(c, k)
    <2>1. /\ HangUp(c) /\ cli'[c] # "run" /\ UNCHANGED <<conn, asked>>
          /\ \A e \in Client \ {c} : cli'[e] = cli[e] /\ buf'[e] = buf[e]
      BY <1>7 DEF AbortNoInfile, ReadFin, TypeOK, CliTypeOK
    <2> QED
      BY <1>2, <2>1, HangUpKeepsOrderly
  <1>8. ASSUME UNCHANGED <<conn, cli, asked>>, OpenConnection(c)',
               \A e \in Client \ {c} :
                   up'[e] = up[e] /\ sent'[e] = sent[e] /\ buf'[e] = buf[e]
        PROVE  OrderlyInv'
    <2>1. Fresh(c)'
      BY <1>3, <1>8 DEF Fresh
    <2>2. ASSUME NEW e \in Client, e # c PROVE Fresh(e)' /\ OpenConnection(e)'
      BY <1>2, <1>8, <2>2, Untouched DEF OrderlyInv, servVars
    <2> QED
      BY <1>2, <1>8, <2>1, <2>2, FinSame
      DEF OrderlyInv, OneConnected, Connected, servVars
  <1>9. CASE ReadHeadRequest(c, k)
    <2> DEFINE h == encode(InfoOf(c))
    <2>1. /\ buf[c] = NULL /\ UNCHANGED <<conn, cli, asked>>
          /\ Send(c, h) /\ buf' = [buf EXCEPT ![c] = File[c]]
      BY <1>2, <1>9, FirstRead DEF ReadHeadRequest, Receives, Later
    <2>2. sent[c] = <<>>
      BY <1>2, <1>6, <2>1 DEF SentOrderOf
    <2>3. \A e \in Client \ {c} :
              up'[e] = up[e] /\ sent'[e] = sent[e] /\ buf'[e] = buf[e]
      BY <2>1 DEF Send, TypeOK, LinkTypeOK, CliTypeOK
    <2>4. ASSUME conn[c] = "open", Status = "HEAD" PROVE HeaderComes(c)'
      <3>1. HeaderComes(c)
        BY <1>6, <2>4 DEF OpenConnection
      <3>2. up[c] = <<>> /\ input[c] = <<>> /\ asked[c] = <<"HEAD">>
            /\ Len(down[c]) <= 1
        BY <1>2, <2>2, <3>1 DEF HeaderComes
      <3> HIDE DEF h
      <3>3. sent'[c] = <<>> \o h /\ up'[c] = <<>> \o h
        BY <2>1, <2>2, <2>4, <3>2 DEF Send, TypeOK, LinkTypeOK
      <3>4. sent'[c] = h /\ up'[c] = h
        BY <1>5, <3>3, ConcatEmptySeq DEF h
      <3>5. down'[c] = <<>> /\ Len(<<>>) <= 1
        BY <1>4, <3>2, EmptySeq
      <3> QED
        BY <1>2, <2>1, <3>2, <3>4, <3>5
        DEF HeaderComes, InfoOf, encode, h, servVars
    <2>5. ASSUME conn[c] = "open", Status = "DATA" PROVE FALSE
      <3>1. FileComes(c) \/ FileLost(c)
        BY <1>6, <2>5 DEF OpenConnection
      <3>2. ~FileComes(c)
        <4> DEFINE iu == input[c] \o up[c]
        <4>1. h \in Seq(Word) /\ h # <<>> /\ iu \in Seq(Word)
          BY <1>5, ConcatProperties
        <4>2. FileComes(c) => h \o iu = <<>>
          BY <2>2 DEF FileComes
        <4> HIDE DEF h, iu
        <4>3. h \o iu # <<>>
          BY <4>1, ConcatEqualIffEmpty
        <4> QED
          BY <4>2, <4>3
      <3>3. ~FileLost(c)
        BY <1>2, <2>1, EmptySeq, LinkAssumption DEF FileLost
      <3> QED
        BY <3>1, <3>2, <3>3
    <2>6. OpenConnection(c)'
      BY <1>2, <2>1, <2>4, <2>5 DEF OpenConnection, servVars
    <2> QED
      BY <1>8, <2>1, <2>3, <2>6
  <1>10. CASE ReadDataRequest(c, k)
    <2>1. /\ buf[c] # NULL /\ UNCHANGED <<conn, cli, asked>>
          /\ Send(c, buf[c]) /\ buf' = [buf EXCEPT ![c] = <<>>]
      BY <1>2, <1>10, FirstRead DEF ReadDataRequest, Receives, Later
    <2>2. \A e \in Client \ {c} :
              up'[e] = up[e] /\ sent'[e] = sent[e] /\ buf'[e] = buf[e]
      BY <2>1 DEF Send, TypeOK, LinkTypeOK, CliTypeOK
    <2>3. ASSUME conn[c] = "open", Status = "HEAD" PROVE FALSE
      BY <1>2, <1>3, <1>6, <2>1, <2>3 DEF OpenConnection, HeaderComes
    <2>4. buf[c] \in Seq(Word) /\ buf'[c] = <<>>
      BY <2>1 DEF TypeOK, CliTypeOK
    <2>5. ASSUME conn[c] = "open"
          PROVE  sent'[c] = sent[c] \o buf[c] /\ up'[c] = up[c] \o buf[c]
      BY <2>1, <2>5 DEF Send, TypeOK, LinkTypeOK
    <2>6. ASSUME conn[c] = "open", FileComes(c) PROVE FileComes(c)'
      <3> DEFINE h == encode(InfoOf(c))
                 i == input[c]
                 u == up[c]
                 w == buf[c]
                 iu == i \o u
                 uw == u \o w
      <3>1. /\ h \in Seq(Word) /\ i \in Seq(Word) /\ u \in Seq(Word)
            /\ w \in Seq(Word)
        BY <1>5, <2>4
      <3>2. sent[c] = h \o iu
        BY <2>6 DEF FileComes
      <3>3. sent'[c] = sent[c] \o w /\ up'[c] = uw /\ input'[c] = i
        BY <1>2, <2>5, <2>6 DEF servVars
      <3> HIDE DEF h, i, u, w
      <3>4. iu \in Seq(Word)
        BY <3>1, ConcatProperties
      <3>5. iu \o w = i \o uw
        BY ONLY <3>1, RegroupWords
      <3> HIDE DEF iu, uw
      <3>6. (h \o iu) \o w = h \o (iu \o w)
        <4>1. h \in Seq(Word) /\ iu \in Seq(Word) /\ w \in Seq(Word)
          BY <3>1, <3>4
        <4> QED
          BY ONLY <4>1, RegroupWords
      <3>7. sent'[c] = h \o (i \o uw)
        BY <3>2, <3>3, <3>5, <3>6
      <3> QED
        BY <3>3, <3>7 DEF FileComes, InfoOf, encode, h
    <2>7. ASSUME conn[c] = "open", FileLost(c) PROVE FileLost(c)'
      <3>1. buf[c] = <<>> /\ up[c] = <<>> /\ input[c] = <<>>
        BY <1>2, <2>7 DEF FileLost
      <3>2. up'[c] = <<>> \o <<>>
        BY <2>5, <2>7, <3>1
      <3>3. up'[c] = <<>>
        BY <1>5, <3>1, <3>2, ConcatEmptySeq
      <3> QED
        BY <1>2, <2>4, <3>1, <3>3 DEF FileLost, servVars
    <2>8. OpenConnection(c)'
      BY <1>2, <1>6, <2>1, <2>3, <2>6, <2>7
      DEF OpenConnection, Asked, InfoOf, servVars
    <2> QED
      BY <1>8, <2>1, <2>2, <2>8
  <1> QED
    BY <1>1, <1>7, <1>9, <1>10

-------------------------------------------------------------------------------
(* Theorems. *)

LEMMA OrderlyInit == Init => OrderlyInv
  <1> SUFFICES ASSUME Init PROVE OrderlyInv
    OBVIOUS
  <1>1. Connected = {}
    BY DEF Init, LinkInit, Connected
  <1>2. \A c \in Client : Fresh(c) /\ OpenConnection(c)
    BY DEF Init, LinkInit, ServInit, Fresh, OpenConnection
  <1>3. ASSUME NEW c \in Client PROVE ~Asked(c, "FIN")
    BY EmptySeq DEF Init, LinkInit, Asked
  <1> QED
    BY <1>1, <1>2, <1>3 DEF OrderlyInv, OneConnected, FinMeansStored

LEMMA OrderlyStep ==
    ASSUME Orderly, CommonInv, OrderlyInv, [Next]_vars
    PROVE  OrderlyInv'
  <1> USE DEF CommonInv
  <1>0. FaultsGrow
    <2>1. faults \in Nat
      BY LinkAssumption DEF TypeOK, LinkTypeOK
    <2> QED
      BY <2>1, FaultsCounted DEF FaultsGrow
  <1>1. ASSUME NEW c \in Client, ServEvent(c) PROVE OrderlyInv'
    <2>1. /\ conn[c] = "open" /\ conn' = [conn EXCEPT ![c] = "eof"]
          /\ UNCHANGED <<up, sent, asked, serverUp, input, disk>>
      BY <1>1 DEF ServEvent, event_cb, servVars
    <2>2. /\ conn'[c] = "eof" /\ \A e \in Client \ {c} : conn'[e] = conn[e]
      BY <2>1 DEF TypeOK, LinkTypeOK
    <2>3. Fresh(c)' /\ OpenConnection(c)'
      BY <2>2 DEF Fresh, OpenConnection
    <2>4. ASSUME NEW e \in Client, e # c PROVE Fresh(e)' /\ OpenConnection(e)'
      BY <2>1, <2>2, <2>4, OthersKeep
    <2>5. Connected' \subseteq Connected
      BY <2>2 DEF Connected
    <2> QED
      BY <1>0, <2>1, <2>3, <2>4, <2>5, FinSame DEF OrderlyInv, OneConnected
  <1>2. ASSUME NEW c \in Client, CliConnect(c) PROVE OrderlyInv'
    <2>1. /\ Connected = {} /\ serverUp /\ conn[c] = "none"
          /\ conn' = [conn EXCEPT ![c] = "backlog"]
          /\ UNCHANGED <<up, sent, asked, serverUp, input, disk>>
      BY <1>2 DEF CliConnect, Launch, Orderly, RequestOrder, RequestOrderOf, servVars
    <2>2. /\ conn'[c] = "backlog" /\ \A e \in Client \ {c} : conn'[e] = conn[e]
      BY <2>1 DEF TypeOK, LinkTypeOK
    <2>3. Fresh(c)' /\ OpenConnection(c)'
      BY <2>1, <2>2 DEF OrderlyInv, Fresh, OpenConnection
    <2>4. ASSUME NEW e \in Client, e # c PROVE Fresh(e)' /\ OpenConnection(e)'
      BY <2>1, <2>2, <2>4, NotOpen DEF OrderlyInv, Connected
    <2>5. Connected' = {c}
      BY <2>1, <2>2 DEF Connected
    <2> QED
      BY <1>0, <2>1, <2>3, <2>4, <2>5, FinSame DEF OrderlyInv, OneConnected
  <1>3. ASSUME NEW c \in Client, CliRefused(c) PROVE OrderlyInv'
    <2>1. /\ conn[c] = "none" /\ cli' = [cli EXCEPT ![c] = "gone"]
          /\ UNCHANGED <<linkVars, servVars, buf>>
      BY <1>3 DEF CliRefused, Refused, RequestOrder, RequestOrderOf
    <2>2. ASSUME NEW e \in Client PROVE Fresh(e)' /\ OpenConnection(e)'
      <3>1. CASE e = c
        BY <2>1, <3>1, NotOpen DEF OrderlyInv, linkVars, servVars
      <3>2. CASE e # c
        BY <2>1, <3>2, Untouched DEF OrderlyInv, linkVars, servVars, TypeOK, CliTypeOK
      <3> QED
        BY <3>1, <3>2
    <2> QED
      BY <1>0, <2>1, <2>2, FinSame
      DEF OrderlyInv, OneConnected, Connected, linkVars, servVars
  <1>4. ASSUME NEW c \in Client, CliEvent(c) \/ CliKilled(c) PROVE OrderlyInv'
    <2>1. /\ HangUp(c) /\ cli' = [cli EXCEPT ![c] = "gone"]
          /\ UNCHANGED <<conn, asked, servVars, buf, down>>
      BY <1>4 DEF CliEvent, event_cb_cli, CliKilled, ClientKilled
    <2>2. cli'[c] # "run" /\ \A e \in Client \ {c} : cli'[e] = cli[e]
      BY <2>1 DEF TypeOK, CliTypeOK
    <2> QED
      BY <1>0, <2>1, <2>2, HangUpKeepsOrderly
  <1>5. CASE ServSignal
    BY <1>0, <1>5, FinSame, GoneKeepsOrderly DEF ServSignal, signal_cb, OrderlyInv
  <1>6. CASE ServMain
    <2>1. /\ ~serverUp /\ serverUp' /\ UNCHANGED <<linkVars, input, disk>>
      BY <1>6 DEF ServMain, main
    <2>2. Connected = {} /\ Connected' = {}
      BY <2>1 DEF OrderlyInv, OneConnected, Connected, linkVars
    <2>3. ASSUME NEW e \in Client PROVE Fresh(e)' /\ OpenConnection(e)'
      BY <2>1, <2>2, NotOpen DEF OrderlyInv, Connected, linkVars
    <2> QED
      BY <1>0, <2>1, <2>2, <2>3, FinSame DEF OrderlyInv, OneConnected, linkVars
  <1>7. CASE UNCHANGED vars
    <2>1. ASSUME NEW e \in Client PROVE Fresh(e)' /\ OpenConnection(e)'
      BY <1>7, Untouched DEF OrderlyInv, vars, linkVars, servVars, cliVars
    <2> QED
      BY <1>0, <1>7, <2>1, FinSame
      DEF OrderlyInv, OneConnected, Connected, vars, linkVars, servVars
  <1> QED
    BY <1>0, <1>1, <1>2, <1>3, <1>4, <1>5, <1>6, <1>7, ListenKeepsOrderly,
       ServReadKeepsOrderly, ServKilledKeepsOrderly, CliReadKeepsOrderly
    DEF Next

LEMMA OrderlyInvariant == Spec => [](Orderly => OrderlyInv)
  <1> DEFINE OInv == CommonInv /\ (Orderly => OrderlyInv)
  <1>1. Init => OInv
    BY TypeInit, OrderInit, SentInit, OrderlyInit DEF CommonInv
  <1>2. OInv /\ [Next]_vars => OInv'
    <2> SUFFICES ASSUME OInv, [Next]_vars PROVE OInv'
      OBVIOUS
    <2>1. CommonInv'
      BY TypeStep, OrderStep, SentStep DEF CommonInv
    <2>2. Orderly' = Orderly
      BY DEF Orderly
    <2> QED
      BY <2>1, <2>2, OrderlyStep
  <1>3. OInv => (Orderly => OrderlyInv)
    OBVIOUS
  <1> QED
    BY <1>1, <1>2, <1>3, PTL DEF Spec

\* When clients are started one after another, headers are not cut and finfo's stack
\* slot survives, the file of whoever is asked for FIN is on the server's disk, without
\* a gap or a foreign word, and whole unless the disk was full: through any number of
\* kills, stops, restarts and failed writes.
THEOREM FinStored == Spec => [](Orderly => FinMeansStored)
  <1>1. (Orderly => OrderlyInv) => (Orderly => FinMeansStored)
    BY DEF OrderlyInv
  <1> QED
    BY <1>1, OrderlyInvariant, PTL

\* Under the same conditions the one Status and the one finfo of the server always
\* belong to the connection that is open.
THEOREM FrameBelongs == Spec => [](Orderly => FrameIsCurrent)
  <1>1. (Orderly => OrderlyInv) => (Orderly => FrameIsCurrent)
    BY DEF OrderlyInv, OpenConnection, FrameIsCurrent
  <1> QED
    BY <1>1, OrderlyInvariant, PTL

-------------------------------------------------------------------------------
(* Requests and answers take turns. *)

\* While a request is on its way to c nothing that c has sent is on its way: the server
\* has had all of it before it asked.
TurnOf(c) ==
    /\ cin[c] = <<>>
    /\ cli[c] = "run" => /\ Len(down[c]) <= 1
                         /\ down[c] # <<>> => up[c] = <<>>
                         /\ down[c] # <<>> /\ down[c][1] = "FIN" => Asked(c, "FIN")

Turns == \A c \in Client : TurnOf(c)

LEMMA TurnsInit == Init => Turns
  BY EmptySeq DEF Init, LinkInit, CliInit, Turns, TurnOf

\* When something has arrived from a client, no request is on its way to it.
LEMMA ServersTurn ==
    ASSUME CommonInv, Turns, NEW c \in Client, NEW k \in 1..Len(up[c]), cli[c] = "run"
    PROVE  down[c] = <<>>
  <1>1. up[c] # <<>>
    <2>1. Len(up[c]) # Len(<<>>)
      BY EmptySeq
    <2> QED
      BY <2>1
  <1> QED
    BY <1>1 DEF Turns, TurnOf

\* The server asks c once, with nothing left on the way from it.
LEMMA AskKeepsTurns ==
    ASSUME CommonInv, Turns, NEW c \in Client, NEW r \in RequestType, Request(c, r),
           cli[c] = "run" => down[c] = <<>>, up'[c] = <<>>,
           \A e \in Client \ {c} : up'[e] = up[e], UNCHANGED cliVars
    PROVE  Turns'
  <1>1. /\ down'[c] = Append(down[c], r)
        /\ \A e \in Client \ {c} : down'[e] = down[e]
    BY DEF Request, CommonInv, TypeOK, LinkTypeOK
  <1>2. cli[c] = "run" => Len(down'[c]) <= 1 /\ down'[c][1] = r
    <2>1. Len(Append(<<>>, r)) = 1 /\ Append(<<>>, r)[1] = r
      OBVIOUS
    <2> QED
      BY <1>1, <2>1
  <1>5. /\ r = "FIN" => Asked(c, "FIN")'
        /\ \A e \in Client \ {c} : asked'[e] = asked[e]
    BY RequestAsks DEF CommonInv
  <1>3. TurnOf(c)'
    BY <1>2, <1>5 DEF Turns, TurnOf, cliVars
  <1>4. ASSUME NEW e \in Client \ {c} PROVE TurnOf(e)'
    BY <1>1, <1>5 DEF Turns, TurnOf, Asked, cliVars
  <1> QED
    BY <1>3, <1>4 DEF Turns

\* A step that asks nobody: at most it takes words off the way.
LEMMA SilentKeepsTurns ==
    ASSUME Turns, UNCHANGED <<cin, down, asked>>,
           \A c \in Client : cli'[c] = "run" =>
               cli[c] = "run" /\ (up'[c] = up[c] \/ up'[c] = <<>> \/ down[c] = <<>>)
    PROVE  Turns'
  BY DEF Turns, TurnOf, Asked

LEMMA ServReadKeepsTurns ==
    ASSUME Orderly, CommonInv, OrderlyInv, OrderlyInv', Turns,
           NEW c \in Client, ServRead(c)
    PROVE  Turns'
  <1> USE DEF CommonInv
  <1>1. UNCHANGED cliVars /\ {frame} \union Residue = {frame}
    BY DEF ServRead, Orderly
  <1>2. PICK k \in 1..Len(up[c]) :
            \/ ReadHead(c, k)
            \/ ReadHeadOverrun(c, k)
            \/ ReadDataPart(c, k)
            \/ ReadIgnored(c, k)
            \/ ReadDataNoName(c, k, frame)
            \/ ReadDataWrite(c, k, frame)
    BY <1>1 DEF ServRead, read_cb
  <1>3. cli[c] = "run" => down[c] = <<>>
    BY ServersTurn
  <1>4. CASE ReadHead(c, k)
    <2> DEFINE h == encode(InfoOf(c))
    <2>1. /\ conn[c] = "open" /\ Status = "HEAD" /\ Status' = "DATA" /\ Request(c, "DATA")
          /\ UNCHANGED <<conn, sent>>
          /\ \A e \in Client \ {c} : up'[e] = up[e]
      BY <1>4 DEF ReadHead, Readable, Take, TypeOK, LinkTypeOK
    <2>2. FileComes(c)' \/ FileLost(c)'
      BY <2>1 DEF OrderlyInv, OpenConnection
    <2>3. up'[c] \in Seq(Word) /\ input'[c] \in Seq(Word)
      <3>1. SubSeq(up[c], k + 1, Len(up[c])) \in Seq(Word)
        BY Pieces, Split
      <3>2. TypeOK'
        BY TypeStep DEF Next
      <3> QED
        BY <3>2 DEF TypeOK, LinkTypeOK, ServTypeOK
    <2>4. ASSUME FileComes(c)' PROVE up'[c] = <<>>
      <3> DEFINE i == input'[c]
                 u == up'[c]
                 iu == i \o u
      <3>1. sent[c] = h
        <4>1. sent[c] \in {<<>>, h} /\ up[c] = sent[c]
          BY <2>1 DEF OrderlyInv, OpenConnection, HeaderComes
        <4>2. up[c] # <<>>
          <5>1. Len(up[c]) # Len(<<>>)
            BY EmptySeq
          <5> QED
            BY <5>1
        <4> QED
          BY <4>1, <4>2
      <3>2. h \in Seq(Word) /\ Len(h) = 3
        BY Pieces
      <3>3. h = h \o iu
        BY <2>1, <2>4, <3>1 DEF FileComes, InfoOf, encode
      <3>4. i \in Seq(Word) /\ u \in Seq(Word)
        BY <2>3
      <3> HIDE DEF h, i, u
      <3>5. iu \in Seq(Word) /\ Len(iu) = Len(i) + Len(u) /\ Len(i) \in Nat /\ Len(u) \in Nat
        BY <3>4, ConcatParts
      <3> HIDE DEF iu
      <3>6. Len(h) = Len(h) + Len(iu)
        <4>1. Len(h \o iu) = Len(h) + Len(iu)
          BY ONLY <3>2, <3>5, ConcatParts
        <4> QED
          BY <3>3, <4>1
      <3>7. Len(u) = 0
        BY <3>2, <3>5, <3>6
      <3> QED
        BY <3>4, <3>7, EmptySeq DEF u
    <2>5. up'[c] = <<>>
      BY <2>2, <2>4 DEF FileLost
    <2> QED
      BY <1>1, <1>3, <2>1, <2>5, AskKeepsTurns DEF RequestType
  <1>5. CASE ReadHeadOverrun(c, k) \/ ReadDataNoName(c, k, frame)
    BY <1>1, <1>5, SilentKeepsTurns DEF ReadHeadOverrun, ReadDataNoName, ServerGone, cliVars
  <1>6. CASE ReadDataPart(c, k) \/ ReadIgnored(c, k)
    <2>1. /\ UNCHANGED <<down, asked, cin, cli>>
          /\ \A e \in Client \ {c} : up'[e] = up[e]
      BY <1>1, <1>6 DEF ReadDataPart, ReadIgnored, Take, TypeOK, LinkTypeOK, cliVars
    <2> QED
      BY <1>3, <2>1, SilentKeepsTurns
  <1>7. CASE ReadDataWrite(c, k, frame)
    <2>1. PICK r \in {"DATA", "FIN"} :
              /\ Request(c, r) /\ Readable(c, k) /\ Status = "DATA"
              /\ Len(Buffered(c, k)) = frame.size /\ Take(c, k, <<>>)
      BY <1>7 DEF ReadDataWrite
    <2>2. up'[c] = <<>> /\ \A e \in Client \ {c} : up'[e] = up[e]
      BY <2>1, WholeFileRead DEF Take, TypeOK, LinkTypeOK
    <2> QED
      BY <1>1, <1>3, <2>1, <2>2, AskKeepsTurns DEF RequestType
  <1> QED
    BY <1>2, <1>4, <1>5, <1>6, <1>7

LEMMA CliReadKeepsTurns ==
    ASSUME CommonInv, Turns, NEW c \in Client, CliRead(c)
    PROVE  Turns'
  <1> USE DEF CommonInv
  <1>1. PICK k \in 1..Len(down[c]) :
            /\ cli[c] = "run"
            /\ cin' = [cin EXCEPT ![c] = Tail(cin[c] \o SubSeq(down[c], 1, k))]
            /\ down' = [down EXCEPT ![c] = SubSeq(down[c], k + 1, Len(down[c]))]
    BY DEF CliRead, read_cb_cli, ReadHeadRequest, AbortNoInfile, ReadDataRequest, ReadFin,
           Receives
  <1>2. /\ down[c] \in Seq(RequestType) /\ Len(down[c]) \in Nat
        /\ Len(down[c]) <= 1 /\ cin[c] = <<>>
    BY <1>1, LenProperties DEF TypeOK, LinkTypeOK, Turns, TurnOf
  <1>3. k = 1 /\ Len(down[c]) = 1
    <2> DEFINE n == Len(down[c])
    <2>1. k \in 1..n /\ n \in Nat /\ n <= 1
      BY <1>2
    <2> HIDE DEF n
    <2>2. k = 1 /\ n = 1
      BY ONLY <2>1
    <2> QED
      BY <2>2 DEF n
  <1>4. down'[c] = <<>>
    <2>1. SubSeq(down[c], 2, 1) = <<>>
      BY <1>2, SubSeqEmpty
    <2> QED
      BY <1>1, <1>3, <2>1 DEF TypeOK, LinkTypeOK
  <1>5. cin'[c] = <<>>
    <2> DEFINE d == down[c]
    <2>1. SubSeq(d, 1, 1) = d
      BY <1>2, <1>3, SubSeqFull
    <2>2. <<>> \o d = d
      BY <1>2, ConcatEmptySeq
    <2>3. cin'[c] = Tail(d)
      BY <1>1, <1>2, <1>3, <2>1, <2>2 DEF TypeOK, CliTypeOK
    <2>4. d \in Seq(RequestType) /\ Len(d) = 1
      BY <1>2, <1>3
    <2> HIDE DEF d
    <2>5. Tail(d) = <<>>
      <3>1. d # <<>>
        BY <2>4, EmptySeq
      <3>2. Tail(d) \in Seq(RequestType) /\ Len(Tail(d)) = 0
        BY <2>4, <3>1, HeadTailProperties
      <3> QED
        BY <3>2, EmptySeq
    <2> QED
      BY <2>3, <2>5
  <1>6. /\ UNCHANGED asked
        /\ \A e \in Client \ {c} :
               /\ cin'[e] = cin[e] /\ down'[e] = down[e]
               /\ cli'[e] = cli[e] /\ up'[e] = up[e]
    BY <1>1 DEF CliRead, read_cb_cli, ReadHeadRequest, AbortNoInfile, ReadDataRequest,
                ReadFin, HangUp, Send, TypeOK, LinkTypeOK, CliTypeOK
  <1>7. Len(<<>>) <= 1
    BY EmptySeq
  <1> QED
    BY <1>4, <1>5, <1>6, <1>7 DEF Turns, TurnOf, Asked

LEMMA TurnsStep ==
    ASSUME Orderly, CommonInv, OrderlyInv, OrderlyInv', Turns, [Next]_vars
    PROVE  Turns'
  <1> USE DEF CommonInv
  <1>1. ASSUME NEW c \in Client, ServListen(c) PROVE Turns'
    <2>1. /\ conn[c] = "backlog" /\ Request(c, "HEAD") /\ UNCHANGED up /\ UNCHANGED cliVars
      BY <1>1 DEF ServListen, listen_cb
    <2>2. up[c] = <<>> /\ down[c] = <<>>
      BY <2>1 DEF OrderlyInv, Fresh, RequestOrder, RequestOrderOf
    <2> QED
      BY <2>1, <2>2, AskKeepsTurns DEF RequestType
  <1>2. ASSUME NEW c \in Client, ServEvent(c) PROVE Turns'
    BY <1>2, SilentKeepsTurns DEF ServEvent, event_cb, cliVars
  <1>3. ASSUME NEW c \in Client, ServKilled(c) PROVE Turns'
    BY <1>3, SilentKeepsTurns DEF ServKilled, killed_in_writefile, KilledInWrite,
                                  ServerGone, cliVars
  <1>4. ASSUME NEW c \in Client, CliConnect(c) PROVE Turns'
    <2>1. /\ cli[c] = "idle" /\ \A e \in Client \ {c} : cli'[e] = cli[e]
          /\ UNCHANGED <<cin, down, up, asked>>
      BY <1>4 DEF CliConnect, Launch, TypeOK, CliTypeOK
    <2>2. down[c] = <<>> /\ Len(<<>>) <= 1
      BY <2>1, EmptySeq DEF RequestOrder, RequestOrderOf
    <2> QED
      BY <2>1, <2>2 DEF Turns, TurnOf, Asked
  <1>5. ASSUME NEW c \in Client, CliRefused(c) PROVE Turns'
    BY <1>5, SilentKeepsTurns DEF CliRefused, Refused, linkVars, TypeOK, CliTypeOK
  <1>6. ASSUME NEW c \in Client, CliEvent(c) \/ CliKilled(c) PROVE Turns'
    <2>1. /\ UNCHANGED <<cin, down, asked>> /\ cli'[c] # "run"
          /\ \A e \in Client \ {c} : up'[e] = up[e] /\ cli'[e] = cli[e]
      BY <1>6 DEF CliEvent, event_cb_cli, CliKilled, ClientKilled, HangUp, TypeOK,
                  LinkTypeOK, CliTypeOK
    <2> QED
      BY <2>1, SilentKeepsTurns
  <1>7. CASE ServSignal
    BY <1>7, SilentKeepsTurns DEF ServSignal, signal_cb, ServerGone, cliVars
  <1>8. CASE ServMain \/ UNCHANGED vars
    BY <1>8, SilentKeepsTurns DEF ServMain, main, vars, linkVars, cliVars
  <1> QED
    BY <1>1, <1>2, <1>3, <1>4, <1>5, <1>6, <1>7, <1>8, ServReadKeepsTurns,
       CliReadKeepsTurns DEF Next

LEMMA TurnsInvariant ==
    ASSUME Orderly PROVE Spec => [](CommonInv /\ OrderlyInv /\ Turns)
  <1> DEFINE TInv == CommonInv /\ OrderlyInv /\ Turns
  <1>1. Init => TInv
    BY TypeInit, OrderInit, SentInit, OrderlyInit, TurnsInit DEF CommonInv
  <1>2. TInv /\ [Next]_vars => TInv'
    <2> SUFFICES ASSUME TInv, [Next]_vars PROVE TInv'
      OBVIOUS
    <2>1. CommonInv'
      BY TypeStep, OrderStep, SentStep DEF CommonInv
    <2>2. OrderlyInv'
      BY OrderlyStep
    <2>3. Turns'
      BY <2>2, TurnsStep
    <2> QED
      BY <2>1, <2>2, <2>3
  <1> QED
    BY <1>1, <1>2, PTL DEF Spec

\* Under the same conditions the server asks a client again only when it has had its
\* whole answer, so no request is ever left in a client's buffer, for which libevent
\* would not call it again.
THEOREM NothingStranded == Spec => (Orderly => []NoRequestStranded)
  <1>1. CASE ~Orderly
    BY <1>1
  <1>2. CASE Orderly
    <2>1. Spec => [](CommonInv /\ OrderlyInv /\ Turns)
      BY <1>2, TurnsInvariant
    <2>2. Turns => NoRequestStranded
      BY DEF Turns, TurnOf, NoRequestStranded
    <2> QED
      BY <2>1, <2>2, PTL
  <1> QED
    BY <1>1, <1>2

-------------------------------------------------------------------------------
(* The programs implement the transfer. *)

\* What begun, written and told stand for.
Begun == {c \in Client : cli[c] # "idle"}

Written == {c \in Client : Asked(c, "FIN")}

Told == {c \in Client : cli[c] = "done"}

\* A step that FileTransfer does not see.
Same == Begun' = Begun /\ Written' = Written /\ Told' = Told /\ UNCHANGED disk

LEMMA TransferInit == Init => FT!Init
  <1> SUFFICES ASSUME Init PROVE FT!Init
    OBVIOUS
  <1>1. \A c \in Client : ~Asked(c, "FIN") /\ cli[c] = "idle"
    BY EmptySeq DEF Init, LinkInit, CliInit, Asked
  <1>2. disk = [n \in Word |-> NULL]
    BY DEF Init, ServInit
  <1> QED
    BY <1>1, <1>2 DEF FT!Init

\* What a request adds to those asked for FIN.
LEMMA RequestWrites ==
    ASSUME TypeOK, NEW c \in Client, NEW r \in RequestType, Request(c, r)
    PROVE  Written' = IF r = "FIN" THEN Written \union {c} ELSE Written
  <1>1. \A e \in Client \ {c} : Asked(e, "FIN")' = Asked(e, "FIN")
    BY RequestAsks DEF Asked
  <1> QED
    BY <1>1, RequestAsks DEF Written

\* What is left of c's file, which nobody is told of.
LEMMA PartSpoils ==
    ASSUME NEW c \in Client, c \in Begun \ Written, NEW part \in Gapped(File[c]),
           DiskFull \/ part = SubSeq(File[c], 1, Len(part)),
           disk' = [disk EXCEPT ![Out[c]] = part],
           Begun' = Begun, Written' = Written, Told' = Told
    PROVE  FT!Next
  <1>1. part \in FT!Remains(c)
    <2>1. part \in FT!Gapped(File[c])
      BY DEF Gapped, Places, Picked, FT!Gapped, FT!Places, FT!Picked
    <2>2. Len(part) \in 0..Len(File[c])
      BY LinkAssumption, GappedType
    <2> QED
      BY <2>1, <2>2 DEF FT!Remains
  <1>2. FT!Spoil(c)
    BY <1>1 DEF FT!Spoil, Begun, Written, Told
  <1> QED
    BY <1>2 DEF FT!Next

\* What writefile has to do with: the whole file of a client that runs or has ended.
LEMMA WriterBegun ==
    ASSUME CommonInv, OrderlyInv, NEW c \in Client, NEW k \in 1..Len(up[c]),
           Readable(c, k), Status = "DATA", Len(Buffered(c, k)) = frame.size
    PROVE  /\ Buffered(c, k) = File[c] /\ frame.name = Out[c]
           /\ frame.size = Len(File[c])
           /\ c \in Begun \ Written
  <1>1. Buffered(c, k) = File[c] /\ frame.name = Out[c]
    BY WholeFileRead
  <1>2. conn[c] = "open" /\ ~Asked(c, "FIN")
    BY DataRead
  <1> QED
    BY <1>1, <1>2 DEF Begun, Written, CommonInv, RequestOrder, RequestOrderOf

LEMMA WriteTransfers ==
    ASSUME CommonInv, OrderlyInv, NEW c \in Client, NEW k \in 1..Len(up[c]),
           ReadDataWrite(c, k, frame), UNCHANGED cliVars
    PROVE  FT!Next
  <1> USE DEF CommonInv
  <1>1. /\ Buffered(c, k) = File[c] /\ frame.name = Out[c]
        /\ frame.size = Len(File[c]) /\ c \in Begun \ Written
    BY WriterBegun DEF ReadDataWrite
  <1>2. PICK part \in Gapped(Buffered(c, k)), total \in Int, answer \in {"DATA", "FIN"} :
            Writes(c, k, part, total, answer)
    BY WriteStep
  <1>3. /\ part \in Gapped(File[c])
        /\ OnDisk(File[c], part, total)
        /\ disk' = [disk EXCEPT ![Out[c]] = part]
        /\ Request(c, IF total # Len(File[c]) THEN "DATA" ELSE "FIN")
    BY <1>1, <1>2 DEF Writes
  <1>4. Begun' = Begun /\ Told' = Told
    BY DEF Begun, Told, cliVars
  <1>5. CASE total # Len(File[c])
    <2>1. Written' = Written
      BY <1>3, <1>5, RequestWrites DEF RequestType
    <2>2. DiskFull \/ part = SubSeq(File[c], 1, Len(part))
      BY <1>3, LinkAssumption, SubSeqFull DEF OnDisk
    <2> QED
      BY <1>1, <1>3, <1>4, <2>1, <2>2, PartSpoils
  <1>6. CASE total = Len(File[c])
    <2>1. Written' = Written \union {c}
      BY <1>3, <1>6, RequestWrites DEF RequestType
    <2>2. /\ part = SubSeq(File[c], 1, Len(part))
          /\ DiskFull \/ Len(part) = Len(File[c])
      BY <1>3, <1>6 DEF OnDisk
    <2>3. Len(part) \in 0..Len(File[c])
      BY <1>3, LinkAssumption, GappedType
    <2>4. FT!Write(c)
      <3> DEFINE n == Len(part)
      <3>1. /\ n \in 0..Len(File[c]) /\ (DiskFull \/ n = Len(File[c]))
            /\ disk' = [disk EXCEPT ![Out[c]] = SubSeq(File[c], 1, n)]
        BY <1>3, <2>2, <2>3
      <3> HIDE DEF n
      <3>2. /\ c \in Begun \ Written /\ Written' = Written \union {c}
            /\ Begun' = Begun /\ Told' = Told
        BY <1>1, <1>4, <2>1
      <3> QED
        BY ONLY <3>1, <3>2 DEF FT!Write, Begun, Written, Told
    <2> QED
      BY <2>4 DEF FT!Next
  <1> QED
    BY <1>5, <1>6

LEMMA ServReadTransfers ==
    ASSUME Orderly, CommonInv, OrderlyInv, NEW c \in Client, ServRead(c)
    PROVE  FT!Next \/ Same
  <1> USE DEF CommonInv
  <1>1. UNCHANGED cliVars /\ {frame} \union Residue = {frame}
    BY DEF ServRead, Orderly
  <1>2. PICK k \in 1..Len(up[c]) :
            \/ ReadHead(c, k)
            \/ ReadHeadOverrun(c, k)
            \/ ReadDataPart(c, k)
            \/ ReadIgnored(c, k)
            \/ ReadDataNoName(c, k, frame)
            \/ ReadDataWrite(c, k, frame)
    BY <1>1 DEF ServRead, read_cb
  <1>3. Begun' = Begun /\ Told' = Told
    BY <1>1 DEF Begun, Told, cliVars
  <1>4. CASE ReadHead(c, k)
    <2>1. Written' = Written
      BY <1>4, RequestWrites DEF ReadHead, RequestType
    <2> QED
      BY <1>3, <1>4, <2>1 DEF ReadHead, Same
  <1>5. CASE \/ ReadHeadOverrun(c, k) \/ ReadDataNoName(c, k, frame)
             \/ ReadDataPart(c, k) \/ ReadIgnored(c, k)
    <2>1. UNCHANGED <<asked, disk>>
      BY <1>5 DEF ReadHeadOverrun, ReadDataNoName, ReadDataPart, ReadIgnored
    <2> QED
      BY <1>3, <2>1 DEF Same, Written, Asked
  <1>6. CASE ReadDataWrite(c, k, frame)
    BY <1>1, <1>6, WriteTransfers
  <1> QED
    BY <1>2, <1>4, <1>5, <1>6

LEMMA ServKilledTransfers ==
    ASSUME Orderly, CommonInv, OrderlyInv, NEW c \in Client, ServKilled(c)
    PROVE  FT!Next
  <1>1. UNCHANGED cliVars /\ {frame} \union Residue = {frame}
    BY DEF ServKilled, Orderly
  <1>2. PICK k \in 1..Len(up[c]) : KilledInWrite(c, k, frame)
    BY <1>1 DEF ServKilled, killed_in_writefile
  <1>3. /\ Buffered(c, k) = File[c] /\ frame.name = Out[c]
        /\ frame.size = Len(File[c]) /\ c \in Begun \ Written
    BY <1>2, WriterBegun DEF KilledInWrite
  <1>4. PICK part \in Gapped(File[c]) :
            /\ DiskFull \/ part = SubSeq(File[c], 1, Len(part))
            /\ disk' = [disk EXCEPT ![Out[c]] = part]
    BY <1>2, <1>3 DEF KilledInWrite
  <1>5. Begun' = Begun /\ Told' = Told /\ Written' = Written
    BY <1>1, <1>2 DEF KilledInWrite, Begun, Told, Written, Asked, cliVars
  <1> QED
    BY <1>3, <1>4, <1>5, PartSpoils

\* FIN is what the client takes only if it has been asked for FIN.
LEMMA FinTells ==
    ASSUME CommonInv, Turns, NEW c \in Client, NEW k \in 1..Len(down[c]), ReadFin(c, k),
           UNCHANGED servVars
    PROVE  FT!Next
  <1> USE DEF CommonInv
  <1> DEFINE d == down[c]
             n == Len(d)
  <1>1. /\ cli[c] = "run" /\ "FIN" = Head(cin[c] \o SubSeq(d, 1, k))
        /\ cli' = [cli EXCEPT ![c] = "done"] /\ UNCHANGED asked
    BY DEF ReadFin, Receives
  <1>2. /\ d \in Seq(RequestType) /\ cin[c] = <<>>
        /\ d # <<>> /\ d[1] = "FIN" => Asked(c, "FIN")
    BY <1>1 DEF Turns, TurnOf, TypeOK, LinkTypeOK
  <1>3. k \in 1..n /\ n \in Nat /\ n <= 1
    BY <1>1, <1>2, LenProperties DEF Turns, TurnOf
  <1> HIDE DEF n
  <1>4. k = 1 /\ n = 1
    BY ONLY <1>3
  <1>5. d # <<>> /\ d[1] = "FIN"
    <2>1. SubSeq(d, 1, 1) = d
      BY <1>2, <1>4, SubSeqFull DEF n
    <2>2. <<>> \o d = d
      BY <1>2, ConcatEmptySeq
    <2>3. Head(d) = "FIN"
      BY <1>1, <1>2, <1>4, <2>1, <2>2
    <2>4. d # <<>>
      <3>1. Len(d) # Len(<<>>)
        BY <1>4, EmptySeq DEF n
      <3> QED
        BY <3>1
    <2> QED
      BY <1>2, <2>3, <2>4
  <1>6. /\ c \in Written \ Told /\ Told' = Told \union {c}
        /\ Begun' = Begun /\ Written' = Written
    BY <1>1, <1>2, <1>5 DEF Written, Told, Begun, Asked, TypeOK, CliTypeOK
  <1>7. FT!Tell(c)
    BY <1>6 DEF FT!Tell, Written, Told, Begun, servVars
  <1> QED
    BY <1>7 DEF FT!Next

LEMMA CliReadTransfers ==
    ASSUME CommonInv, Turns, NEW c \in Client, CliRead(c)
    PROVE  FT!Next \/ Same
  <1> USE DEF CommonInv
  <1>1. PICK k \in 1..Len(down[c]) :
            \/ ReadHeadRequest(c, k)
            \/ AbortNoInfile(c, k)
            \/ ReadDataRequest(c, k)
            \/ ReadFin(c, k)
    BY DEF CliRead, read_cb_cli
  <1>2. UNCHANGED servVars
    BY DEF CliRead
  <1>3. CASE ReadFin(c, k)
    BY <1>2, <1>3, FinTells
  <1>4. CASE ReadHeadRequest(c, k) \/ AbortNoInfile(c, k) \/ ReadDataRequest(c, k)
    <2>1. /\ UNCHANGED asked
          /\ cli' = cli \/ (cli[c] = "run" /\ cli' = [cli EXCEPT ![c] = "gone"])
      BY <1>4 DEF ReadHeadRequest, AbortNoInfile, ReadDataRequest, Receives
    <2>2. Begun' = Begun /\ Told' = Told /\ Written' = Written
      BY <2>1 DEF Begun, Told, Written, Asked, TypeOK, CliTypeOK
    <2> QED
      BY <1>2, <2>2 DEF Same, servVars
  <1> QED
    BY <1>1, <1>3, <1>4

LEMMA TransferStep ==
    ASSUME Orderly, CommonInv, OrderlyInv, Turns, [Next]_vars
    PROVE  [FT!Next]_(FT!ftVars)
  <1> USE DEF CommonInv
  <1> SUFFICES FT!Next \/ Same
    BY DEF Same, FT!ftVars, Begun, Written, Told
  <1>1. CASE UNCHANGED <<disk, asked, cli>>
    BY <1>1 DEF Same, Begun, Written, Told, Asked
  <1>2. ASSUME NEW c \in Client, ServListen(c) PROVE Same
    <2>1. Written' = Written
      BY <1>2, RequestWrites DEF ServListen, listen_cb, RequestType
    <2> QED
      BY <1>2, <2>1 DEF ServListen, listen_cb, cliVars, Same, Begun, Told
  <1>3. ASSUME NEW c \in Client, CliConnect(c) \/ CliRefused(c) PROVE FT!Next
    <2>1. /\ cli[c] = "idle" /\ UNCHANGED <<asked, disk>>
          /\ \E t \in {"run", "gone"} : cli' = [cli EXCEPT ![c] = t]
      BY <1>3 DEF CliConnect, Launch, CliRefused, Refused, linkVars, servVars
    <2>2. /\ c \notin Begun /\ Begun' = Begun \union {c}
          /\ Written' = Written /\ Told' = Told
      BY <2>1 DEF Begun, Written, Told, Asked, TypeOK, CliTypeOK
    <2>3. FT!Begin(c)
      BY <2>1, <2>2 DEF FT!Begin, Begun, Written, Told
    <2> QED
      BY <2>3 DEF FT!Next
  <1>4. ASSUME NEW c \in Client, CliEvent(c) \/ CliKilled(c) PROVE Same
    <2>1. /\ cli[c] = "run" /\ cli' = [cli EXCEPT ![c] = "gone"]
          /\ UNCHANGED <<asked, disk>>
      BY <1>4 DEF CliEvent, event_cb_cli, CliKilled, ClientKilled, servVars
    <2> QED
      BY <2>1 DEF Same, Begun, Written, Told, Asked, TypeOK, CliTypeOK
  <1>5. CASE Next
    BY <1>1, <1>2, <1>3, <1>4, <1>5, ServReadTransfers, ServKilledTransfers,
       CliReadTransfers
    DEF Next, ServEvent, event_cb, ServSignal, signal_cb, ServMain, main, servVars,
        cliVars, linkVars
  <1>6. CASE UNCHANGED vars
    BY <1>1, <1>6 DEF vars, linkVars, servVars, cliVars
  <1> QED
    BY <1>5, <1>6

\* In the orderly regime every behaviour of the two programs, with its kills, restarts
\* and failed writes, is one of FileTransfer's, over a medium that can lose the end of a
\* file when the disk can be full: nobody is told of a file before it is stored.
THEOREM LibeventImplements == Spec => (Orderly => Transfer)
  <1>1. CASE ~Orderly
    BY <1>1
  <1>2. CASE Orderly
    <2>1. Spec => [](CommonInv /\ OrderlyInv /\ Turns)
      BY <1>2, TurnsInvariant
    <2>2. CommonInv /\ OrderlyInv /\ Turns /\ [Next]_vars => [FT!Next]_(FT!ftVars)
      BY <1>2, TransferStep
    <2> QED
      BY <2>1, <2>2, TransferInit, PTL DEF Spec, Transfer, FT!Spec
  <1> QED
    BY <1>1, <1>2

===============================================================================
