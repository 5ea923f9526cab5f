-------------------------- MODULE AsioTransferProofs --------------------------
(***************************************************************************)
(* Theorems about AsioTransfer, for every set of clients, files and names  *)
(* and every number of faults, kills and restarts.                         *)
(***************************************************************************)
EXTENDS AsioTransfer, SequenceFacts

-------------------------------------------------------------------------------
(* Types. *)

\* \o is associative, for sequences of words.
LEMMA Regroup ==
    ASSUME NEW s \in Seq(Word), NEW t \in Seq(Word), NEW u \in Seq(Word)
    PROVE  (s \o t) \o u = s \o (t \o u)
  BY ConcatAssociative

LEMMA StreamType ==
    ASSUME NEW c \in Client
    PROVE  /\ Out[c] \in Word /\ File[c] \in Seq(Word)
           /\ encode_fileinfo(Out[c]) \in Seq(Word)
           /\ Len(encode_fileinfo(Out[c])) = HeadLen
           /\ Stream(c) \in Seq(Word)
  <1>1. Out[c] \in Word /\ File[c] \in Seq(Word) /\ 0 \in Word
    BY LinkAssumption
  <1>2. /\ encode_fileinfo(Out[c]) \in Seq(Word)
        /\ Len(encode_fileinfo(Out[c])) = HeadLen
    BY <1>1 DEF encode_fileinfo, HeadLen
  <1> QED
    BY <1>1, <1>2, ConcatProperties DEF Stream

LEMMA TypeInit == Init => TypeOK
  <1> SUFFICES ASSUME Init PROVE TypeOK
    OBVIOUS
  <1>1. <<>> \in Seq(Word) /\ Len(<<>>) = 0
    BY EmptySeq
  <1>2. LinkTypeOK
    BY <1>1, LinkAssumption DEF Init, LinkInit, LinkTypeOK, ConnState
  <1>3. ServTypeOK
    BY <1>1, LinkAssumption DEF Init, ServInit, ServTypeOK, Stage
  <1>4. CliTypeOK
    BY <1>1, LinkAssumption DEF Init, CliInit, CliTypeOK, Running, HeadLen
  <1> QED
    BY <1>2, <1>3, <1>4 DEF TypeOK

LEMMA FaultType ==
    ASSUME TypeOK, Fault
    PROVE  faults' \in 0..MaxFaults
  BY LinkAssumption DEF TypeOK, LinkTypeOK, Fault

\* A connection, or all of them, is closed.
LEMMA ClosedType ==
    ASSUME TypeOK, NEW c \in Client, Closed(c)
    PROVE  /\ conn' \in [Client -> ConnState]
           /\ up' \in [Client -> Seq(Word)]
           /\ \A d \in Client : Len(up'[d]) <= Window
  BY EmptySeq, LinkAssumption DEF TypeOK, LinkTypeOK, Closed, ConnState

LEMMA ProcessEndsType ==
    ASSUME TypeOK, ProcessEnds
    PROVE  /\ listening' \in BOOLEAN
           /\ conn' \in [Client -> ConnState]
           /\ up' \in [Client -> Seq(Word)]
           /\ \A d \in Client : Len(up'[d]) <= Window
  <1>1. \A d \in Client :
            (IF conn[d] = "none" THEN "none" ELSE "gone") \in ConnState
    BY DEF ConnState
  <1>2. <<>> \in Seq(Word) /\ Len(<<>>) <= Window
    BY EmptySeq, LinkAssumption
  <1> QED
    BY <1>1, <1>2 DEF ProcessEnds

\* What fwrite appends is well typed.
LEMMA FwriteType ==
    ASSUME TypeOK, stage = "file", fwrite(rbuf)
    PROVE  /\ disk' \in [Word -> Seq(Word) \union {NULL}]
           /\ disk'[filename] # NULL
           /\ faults' \in 0..MaxFaults
  <1>1. PICK n \in 0..Len(rbuf) :
            /\ \/ n = Len(rbuf) /\ UNCHANGED faults
               \/ n < Len(rbuf) /\ DiskFull /\ Fault
            /\ disk' = [disk EXCEPT ![filename] = @ \o SubSeq(rbuf, 1, n)]
    BY DEF fwrite
  <1>2. rbuf \in Seq(Word) /\ filename \in Word /\ disk[filename] \in Seq(Word)
    BY DEF TypeOK, ServTypeOK
  <1>3. SubSeq(rbuf, 1, n) \in Seq(Word)
    BY <1>2, Split
  <1>4. disk[filename] \o SubSeq(rbuf, 1, n) \in Seq(Word)
    BY <1>2, <1>3, ConcatProperties
  <1>5. faults' \in 0..MaxFaults
    BY <1>1, FaultType DEF TypeOK, LinkTypeOK
  <1> QED
    BY <1>1, <1>2, <1>4, <1>5, LinkAssumption DEF TypeOK, ServTypeOK

\* read_some moves the front of what is on its way behind what has been collected.
LEMMA ReadSome ==
    ASSUME TypeOK, NEW k, read_some(k)
    PROVE  LET a == SubSeq(up[peer], 1, k)
               b == SubSeq(up[peer], k + 1, Len(up[peer]))
           IN  /\ a \in Seq(Word) /\ b \in Seq(Word)
               /\ up[peer] = a \o b
               /\ rbuf' = rbuf \o a
               /\ up' = [up EXCEPT ![peer] = b]
               /\ peer \in Client
               /\ Len(rbuf') <= Wanted
               /\ Len(b) <= Window
  <1>1. /\ peer \in Client /\ up[peer] \in Seq(Word) /\ Len(up[peer]) <= Window
        /\ rbuf \in Seq(Word)
    BY DEF read_some, TypeOK, LinkTypeOK, ServTypeOK
  <1>2. Len(up[peer]) \in Nat /\ k \in 0..Len(up[peer]) /\ Len(rbuf) + k <= Wanted
    BY <1>1, LenProperties DEF read_some
  <1> DEFINE a == SubSeq(up[peer], 1, k)
             b == SubSeq(up[peer], k + 1, Len(up[peer]))
  <1>3. /\ a \in Seq(Word) /\ b \in Seq(Word) /\ up[peer] = a \o b
        /\ Len(a) = k /\ Len(b) = Len(up[peer]) - k
    BY <1>1, <1>2, Split
  <1>4. Len(rbuf \o a) = Len(rbuf) + k
    BY <1>1, <1>3, ConcatProperties
  <1>5. rbuf' = rbuf \o a /\ up' = [up EXCEPT ![peer] = b]
    BY DEF read_some
  <1>6. Len(b) <= Window
    BY <1>1, <1>2, <1>3, LinkAssumption
  <1> QED
    BY <1>1, <1>2, <1>3, <1>4, <1>5, <1>6

\* write_some takes the front of what is pending; it is on its way, or lost.
LEMMA WriteSome ==
    ASSUME TypeOK, NEW c \in Client, NEW k, write_some(c, k)
    PROVE  LET a == SubSeq(pend[c], 1, k)
               b == SubSeq(pend[c], k + 1, Len(pend[c]))
           IN  /\ a \in Seq(Word) /\ b \in Seq(Word)
               /\ pend[c] = a \o b
               /\ pend' = [pend EXCEPT ![c] = b]
               /\ Len(b) <= Len(pend[c])
               /\ up' \in [Client -> Seq(Word)]
               /\ \A d \in Client : Len(up'[d]) <= Window
               /\ \/ up' = [up EXCEPT ![c] = @ \o a]
                  \/ conn[c] = "gone" /\ up' = up
  <1>1. pend[c] \in Seq(Word) /\ up[c] \in Seq(Word)
    BY DEF TypeOK, LinkTypeOK, CliTypeOK
  <1>2. Len(pend[c]) \in Nat /\ k \in 0..Len(pend[c])
    BY <1>1, LenProperties DEF write_some
  <1> DEFINE a == SubSeq(pend[c], 1, k)
             b == SubSeq(pend[c], k + 1, Len(pend[c]))
  <1>3. /\ a \in Seq(Word) /\ b \in Seq(Word) /\ pend[c] = a \o b
        /\ Len(b) = Len(pend[c]) - k
    BY <1>1, <1>2, Split
  <1>4. up[c] \o a \in Seq(Word) /\ Len(up[c] \o a) = Len(up[c]) + Len(a)
    BY <1>1, <1>3, ConcatProperties
  <1>5. pend' = [pend EXCEPT ![c] = b] /\ Accepted(c, a)
    BY DEF write_some
  <1> HIDE DEF a, b
  <1>6. /\ up' \in [Client -> Seq(Word)]
        /\ \A d \in Client : Len(up'[d]) <= Window
        /\ \/ up' = [up EXCEPT ![c] = @ \o a]
           \/ conn[c] = "gone" /\ up' = up
    BY <1>4, <1>5 DEF Accepted, TypeOK, LinkTypeOK
  <1>7. Len(b) <= Len(pend[c])
    BY <1>2, <1>3
  <1> QED
    BY <1>3, <1>5, <1>6, <1>7 DEF a, b

\* The next block: the front of what has not been read of the file.
LEMMA ReadBlock ==
    ASSUME TypeOK, NEW c \in Client, handle_read_file(c)
    PROVE  \E a, b \in Seq(Word) :
               /\ rest[c] = a \o b
               /\ Len(a) <= BUFSIZ
               /\ pend' = [pend EXCEPT ![c] = a]
               /\ rest' = [rest EXCEPT ![c] = b]
  <1> DEFINE n == IF Len(rest[c]) < BUFSIZ THEN Len(rest[c]) ELSE BUFSIZ
  <1>1. rest[c] \in Seq(Word) /\ Len(rest[c]) \in Nat
    BY LenProperties DEF TypeOK, CliTypeOK
  <1>2. n \in 0..Len(rest[c]) /\ n <= BUFSIZ
    BY <1>1, LinkAssumption
  <1>3. /\ pend' = [pend EXCEPT ![c] = SubSeq(rest[c], 1, n)]
        /\ rest' = [rest EXCEPT ![c] = SubSeq(rest[c], n + 1, Len(rest[c]))]
    BY DEF handle_read_file
  <1> HIDE DEF n
  <1>4. /\ SubSeq(rest[c], 1, n) \in Seq(Word) /\ Len(SubSeq(rest[c], 1, n)) = n
        /\ SubSeq(rest[c], n + 1, Len(rest[c])) \in Seq(Word)
        /\ SubSeq(rest[c], 1, n) \o SubSeq(rest[c], n + 1, Len(rest[c])) = rest[c]
    BY <1>1, <1>2, Split
  <1> QED
    BY <1>2, <1>3, <1>4

LEMMA ServTypeStep ==
    ASSUME TypeOK,
           ServRuns \/ ServAcceptErr \/ ServError \/ ServKilled \/ ServMain
    PROVE  TypeOK'
  <1> USE DEF TypeOK, LinkTypeOK, ServTypeOK, CliTypeOK, cliVars
  <1>0. <<>> \in Seq(Word) /\ Len(<<>>) = 0 /\ HeadLen \in Nat /\ BUFSIZ \in Nat
    BY EmptySeq, LinkAssumption DEF HeadLen
  <1>1. ASSUME NEW c \in Client, ServAccept(c)
        PROVE  TypeOK'
    BY <1>0, <1>1 DEF ServAccept, handle_accept, ConnState, Stage, Wanted
  <1>2. CASE ServAcceptErr
    BY <1>2, FaultType DEF ServAcceptErr, handle_accept_err, Stage
  <1>3. CASE ServReads
    <2>1. PICK k : read_some(k)
      BY <1>3 DEF ServReads
    <2> DEFINE a == SubSeq(up[peer], 1, k)
               b == SubSeq(up[peer], k + 1, Len(up[peer]))
    <2>2. /\ a \in Seq(Word) /\ b \in Seq(Word) /\ peer \in Client
          /\ rbuf' = rbuf \o a /\ up' = [up EXCEPT ![peer] = b]
          /\ Len(rbuf') <= Wanted /\ Len(b) <= Window
      BY <2>1, ReadSome
    <2> HIDE DEF a, b
    <2>3. rbuf' \in Seq(Word)
      BY <2>2, ConcatProperties
    <2>4. /\ UNCHANGED <<stage, peer, filename, disk, closed, cli, ep, pend, rest>>
          /\ UNCHANGED <<listening, conn, shut, faults>>
      BY ONLY <1>3, <2>1 DEF ServReads, read_some, cliVars
    <2>5. ServTypeOK'
      BY <2>2, <2>3, <2>4 DEF Wanted
    <2>6. LinkTypeOK' /\ CliTypeOK'
      BY <2>2, <2>4
    <2> QED
      BY <2>5, <2>6
  <1>4. CASE ServRequest
    <2>1. decode_fileinfo(rbuf) \in Word
      BY <1>4, ServerAssumption DEF ServRequest, handle_read_request
    <2>2. NULL \notin Seq(Word)
      BY LinkAssumption
    <2>3. disk' \in [Word -> Seq(Word) \union {NULL}] /\ disk'[filename'] # NULL
      BY <1>0, <1>4, <2>1, <2>2 DEF ServRequest, handle_read_request
    <2>4. stage' = "file" /\ peer \in Client /\ Len(rbuf') <= Wanted'
      BY <1>0, <1>4, LinkAssumption
      DEF ServRequest, handle_read_request, Wanted, Reading
    <2>5. LinkTypeOK' /\ CliTypeOK'
      BY <1>4 DEF ServRequest, handle_read_request, linkVars
    <2> QED
      BY <1>0, <1>4, <2>1, <2>3, <2>4, <2>5
      DEF ServRequest, handle_read_request, Stage
  <1>5. CASE ServUnopened
    <2>1. decode_fileinfo(rbuf) \in Word
      <3>1. rbuf \in Seq(Word) /\ 1 \in 1..Len(rbuf)
        BY <1>5 DEF ServUnopened, handle_read_request_unopened, HeadLen
      <3> QED
        BY <3>1, ElementOfSeq DEF decode_fileinfo
    <2>2. peer \in Client
      BY <1>5 DEF ServUnopened, handle_read_request_unopened, Reading
    <2> QED
      BY <1>5, <2>1, <2>2, ClosedType
      DEF ServUnopened, handle_read_request_unopened, Stage
  <1>6. CASE ServNoHeader
    <2>1. peer \in Client
      BY <1>6 DEF ServNoHeader, handle_read_request_eof, Reading
    <2> QED
      BY <1>6, <2>1, ClosedType DEF ServNoHeader, handle_read_request_eof, Stage
  <1>7. CASE ServBlock
    <2>1. stage = "file" /\ fwrite(rbuf)
      BY <1>7 DEF ServBlock, handle_write_file, Reading
    <2>2. Len(rbuf') <= Wanted'
      BY <1>0, <1>7, <2>1, LinkAssumption DEF ServBlock, handle_write_file, Wanted
    <2> QED
      BY <1>0, <1>7, <2>1, <2>2, FwriteType DEF ServBlock, handle_write_file
  <1>8. CASE ServEof
    <2>1. stage = "file" /\ fwrite(rbuf) /\ peer \in Client
      BY <1>8 DEF ServEof, handle_write_file_eof, Reading
    <2> QED
      BY <1>8, <2>1, FwriteType, ClosedType
      DEF ServEof, handle_write_file_eof, Stage
  <1>9. CASE ServError
    <2>1. peer \in Client
      BY <1>9 DEF ServError, handle_error
    <2> QED
      BY <1>9, <2>1, ClosedType, FaultType DEF ServError, handle_error, Stage
  <1>10. CASE ServReturns
    BY <1>10, ProcessEndsType DEF ServReturns, run_returns, servVars, Reading
  <1>11. CASE ServKilled
    <2>1. disk' \in [Word -> Seq(Word) \union {NULL}]
      <3>1. CASE stage # "file"
        BY <1>11, <3>1 DEF ServKilled, ServerKilled
      <3>2. CASE stage = "file"
        <4>1. PICK n \in 0..Len(disk[filename]) :
                  disk' = [disk EXCEPT ![filename] = SubSeq(@, 1, n)]
          BY <1>11, <3>2 DEF ServKilled, ServerKilled
        <4>2. disk[filename] \in Seq(Word)
          BY <3>2
        <4>3. SubSeq(disk[filename], 1, n) \in Seq(Word)
          BY <4>2, Split
        <4> QED
          BY <4>1, <4>3
      <3> QED
        BY <3>1, <3>2
    <2> QED
      BY <1>11, <2>1, ProcessEndsType, FaultType
      DEF ServKilled, ServerKilled, Stage
  <1>12. CASE ServMain
    BY <1>0, <1>12 DEF ServMain, main, Stage
  <1> QED
    BY <1>1, <1>2, <1>3, <1>4, <1>5, <1>6, <1>7, <1>8, <1>9, <1>10, <1>11, <1>12
    DEF ServRuns

LEMMA CliTypeStep ==
    ASSUME TypeOK, NEW c \in Client,
           CliRuns(c) \/ CliStart(c) \/ CliKilled(c)
    PROVE  TypeOK'
  <1> USE DEF TypeOK, LinkTypeOK, ServTypeOK, CliTypeOK, servVars, Running, Ended
  <1>0. HeadLen \in Nat /\ BUFSIZ \in Nat /\ \A d \in Client : Len(pend[d]) \in Nat
    BY LenProperties, LinkAssumption DEF HeadLen
  <1>1. CASE CliStart(c)
    <2>1. File[c] \in Seq(Word)
      BY LinkAssumption
    <2> QED
      BY <1>1, <2>1 DEF CliStart, AsyncTcpClient, Ends, Wanted
  <1>2. CASE CliResolve(c)
    <2>1. 1 \in 1..Len(Endpoint[c])
      <3>1. Endpoint[c] \in Seq(BOOLEAN) /\ Endpoint[c] # <<>>
        BY ClientAssumption
      <3> QED
        BY <3>1, EmptySeq
    <2>2. faults' \in 0..MaxFaults
      BY <1>2, FaultType DEF CliResolve, handle_resolve
    <2>3. ServTypeOK'
      BY <1>2 DEF CliResolve, handle_resolve, Wanted
    <2>4. CliTypeOK'
      <3>1. cli' \in [Client -> {"idle"} \union Running \union Ended]
        BY <1>2 DEF CliResolve, handle_resolve, Ends
      <3>2. ep' \in [Client -> Nat]
        <4>1. ep \in [Client -> Nat]
          OBVIOUS
        <4>2. ep' = ep \/ ep' = [ep EXCEPT ![c] = 1]
          BY ONLY <1>2 DEF CliResolve, handle_resolve
        <4> QED
          BY ONLY <4>1, <4>2
      <3>3. ASSUME NEW d \in Client, cli'[d] = "connect"
            PROVE  ep'[d] \in 1..Len(Endpoint[d])
        <4>1. CASE d = c
          BY <1>2, <2>1, <3>3, <4>1 DEF CliResolve, handle_resolve, Ends
        <4>2. CASE d # c
          <5>1. cli'[d] = cli[d] /\ ep'[d] = ep[d]
            BY <1>2, <4>2 DEF CliResolve, handle_resolve, Ends
          <5> QED
            BY <3>3, <5>1
        <4> QED
          BY <4>1, <4>2
      <3> QED
        BY <1>2, <3>1, <3>2, <3>3 DEF CliResolve, handle_resolve
    <2> QED
      BY <1>2, <2>1, <2>2, <2>3, <2>4 DEF CliResolve, handle_resolve, Ends
  <1>3. CASE CliConnect(c)
    <2>1. /\ encode_fileinfo(Out[c]) \in Seq(Word)
          /\ Len(encode_fileinfo(Out[c])) <= HeadLen
      BY <1>0, StreamType
    <2>2. ServTypeOK' /\ LinkTypeOK'
      BY <1>3 DEF CliConnect, handle_connect, ConnState, Wanted
    <2>3. CliTypeOK'
      BY <1>3, <2>1 DEF CliConnect, handle_connect
    <2> QED
      BY <2>2, <2>3
  <1>4. CASE CliConnectErr(c)
    <2>1. ep[c] < Len(Endpoint[c]) => ep[c] + 1 \in 1..Len(Endpoint[c])
      <3>1. Len(Endpoint[c]) \in Nat /\ ep[c] \in Nat
        BY ClientAssumption, LenProperties
      <3> QED
        BY <3>1
    <2>2. ServTypeOK' /\ LinkTypeOK'
      BY <1>4 DEF CliConnectErr, handle_connect_err, Ends, Wanted
    <2>3. CliTypeOK'
      <3>1. cli' \in [Client -> {"idle"} \union Running \union Ended]
        BY <1>4 DEF CliConnectErr, handle_connect_err, Ends
      <3>2. ep' \in [Client -> Nat]
        <4>1. ep \in [Client -> Nat] /\ ep[c] + 1 \in Nat
          OBVIOUS
        <4>2. ep' = ep \/ ep' = [ep EXCEPT ![c] = ep[c] + 1]
          BY ONLY <1>4 DEF CliConnectErr, handle_connect_err
        <4> QED
          BY ONLY <4>1, <4>2
      <3>3. ASSUME NEW d \in Client, cli'[d] = "connect"
            PROVE  ep'[d] \in 1..Len(Endpoint[d])
        <4>1. CASE d = c
          BY <1>4, <2>1, <3>3, <4>1 DEF CliConnectErr, handle_connect_err, Ends
        <4>2. CASE d # c
          <5>1. cli'[d] = cli[d] /\ ep'[d] = ep[d]
            BY <1>4, <4>2 DEF CliConnectErr, handle_connect_err, Ends
          <5> QED
            BY <3>3, <5>1
        <4> QED
          BY <4>1, <4>2
      <3> QED
        BY <1>4, <3>1, <3>2, <3>3 DEF CliConnectErr, handle_connect_err
    <2> QED
      BY <2>2, <2>3
  <1>5. CASE CliWrites(c)
    <2>1. PICK k : write_some(c, k)
      BY <1>5 DEF CliWrites
    <2>2. /\ up' \in [Client -> Seq(Word)]
          /\ \A d \in Client : Len(up'[d]) <= Window
          /\ \E b \in Seq(Word) : /\ pend' = [pend EXCEPT ![c] = b]
                                  /\ Len(b) <= Len(pend[c])
      BY <2>1, WriteSome
    <2>3. PICK b \in Seq(Word) : /\ pend' = [pend EXCEPT ![c] = b]
                                 /\ Len(b) <= Len(pend[c])
      BY <2>2
    <2>4. Len(b) <= HeadLen \/ Len(b) <= BUFSIZ
      <3>1. Len(b) \in Nat /\ (Len(pend[c]) <= HeadLen \/ Len(pend[c]) <= BUFSIZ)
        BY LenProperties
      <3> QED
        BY <1>0, <2>3, <3>1
    <2>5. UNCHANGED <<listening, conn, shut, faults, cli, ep, rest>> /\ UNCHANGED servVars
      BY ONLY <1>5, <2>1 DEF CliWrites, write_some
    <2>6. ServTypeOK' /\ LinkTypeOK'
      BY <2>2, <2>5 DEF Wanted
    <2>7. CliTypeOK'
      BY <2>3, <2>4, <2>5
    <2> QED
      BY <2>6, <2>7
  <1>6. CASE CliBlock(c)
    <2>1. handle_read_file(c)
      BY <1>6 DEF CliBlock
    <2>2. PICK a, b \in Seq(Word) : /\ Len(a) <= BUFSIZ
                                    /\ pend' = [pend EXCEPT ![c] = a]
                                    /\ rest' = [rest EXCEPT ![c] = b]
      BY <2>1, ReadBlock
    <2>3. UNCHANGED <<linkVars, cli, ep>> /\ UNCHANGED servVars
      BY ONLY <1>6 DEF CliBlock, handle_read_file
    <2>4. ServTypeOK' /\ LinkTypeOK'
      BY <2>3 DEF linkVars, Wanted
    <2>5. CliTypeOK'
      BY <2>2, <2>3
    <2> QED
      BY <2>4, <2>5
  <1>7. CASE CliEnd(c)
    <2>1. faults' \in 0..MaxFaults
      BY <1>7, FaultType DEF CliEnd, handle_read_file_end
    <2> QED
      BY <1>7, <2>1 DEF CliEnd, handle_read_file_end, Ends, Wanted
  <1>8. CASE CliErr(c)
    BY <1>8 DEF CliErr, handle_read_file_err, Ends, Wanted
  <1>9. CASE CliKilled(c)
    BY <1>9, FaultType DEF CliKilled, ClientKilled, Ends, Wanted
  <1> QED
    BY <1>1, <1>2, <1>3, <1>4, <1>5, <1>6, <1>7, <1>8, <1>9 DEF CliRuns

LEMMA TypeStep == TypeOK /\ [Next]_vars => TypeOK'
  <1> SUFFICES ASSUME TypeOK, [Next]_vars PROVE TypeOK'
    OBVIOUS
  <1>1. CASE UNCHANGED vars
    BY <1>1 DEF vars, linkVars, servVars, cliVars, TypeOK, LinkTypeOK, ServTypeOK,
                CliTypeOK, Wanted
  <1>2. CASE Next
    BY <1>2, ServTypeStep, CliTypeStep DEF Next
  <1> QED
    BY <1>1, <1>2

\* Every variable keeps its type: a buffer holds no more than its size, a connection
\* no more than the window, and a file that is being written exists.
THEOREM TypeCorrect == Spec => []TypeOK
  <1> QED
    BY TypeInit, TypeStep, PTL DEF Spec

-------------------------------------------------------------------------------
(* Which connection the server serves, and what a client's stage says of it. *)

ConnectionOf(c) ==
    /\ conn[c] = "none" => up[c] = <<>>
    /\ cli[c] \in {"idle", "resolve", "connect"} => conn[c] = "none"
    /\ cli[c] \in {"resolve", "connect"} => rest[c] = File[c]
    /\ conn[c] \in {"backlog", "open"} => listening
    /\ conn[c] = "open" => stage \in {"head", "file"} /\ peer = c
    /\ c \in shut => cli[c] \in Ended
    /\ cli[c] = "sent" /\ ~ReadError => pend[c] = <<>> /\ rest[c] = <<>>
    /\ c \in closed => c \in shut /\ conn[c] = "gone"

Serving == stage \in {"head", "file"} => listening /\ conn[peer] = "open"

ConnInv == Serving /\ \A c \in Client : ConnectionOf(c)

LEMMA ConnInit == Init => ConnInv
  BY DEF Init, LinkInit, ServInit, CliInit, ConnInv, Serving, ConnectionOf

LEMMA ServConnStep ==
    ASSUME TypeOK, ConnInv,
           ServRuns \/ ServAcceptErr \/ ServError \/ ServKilled \/ ServMain
    PROVE  ConnInv'
  <1> USE DEF ConnInv, Serving, ConnectionOf, cliVars, Ended
  <1>0. /\ conn \in [Client -> ConnState] /\ up \in [Client -> Seq(Word)]
        /\ stage \in {"head", "file"} => peer \in Client
    BY DEF TypeOK, LinkTypeOK, ServTypeOK
  <1>1. ASSUME NEW c \in Client, ServAccept(c)
        PROVE  ConnInv'
    BY <1>0, <1>1 DEF ServAccept, handle_accept
  <1>2. CASE ServAcceptErr
    BY <1>0, <1>2 DEF ServAcceptErr, handle_accept_err
  <1>3. CASE ServReads
    <2>1. PICK k : read_some(k)
      BY <1>3 DEF ServReads
    <2> QED
      BY <1>0, <1>3, <2>1 DEF ServReads, read_some
  <1>4. CASE ServRequest
    BY <1>0, <1>4 DEF ServRequest, handle_read_request, linkVars, Reading
  <1>5. CASE ServUnopened
    BY <1>0, <1>5 DEF ServUnopened, handle_read_request_unopened, Closed, Reading
  <1>6. CASE ServNoHeader
    BY <1>0, <1>6 DEF ServNoHeader, handle_read_request_eof, Closed, Reading
  <1>7. CASE ServBlock
    BY <1>0, <1>7 DEF ServBlock, handle_write_file, Reading
  <1>8. CASE ServEof
    BY <1>0, <1>8 DEF ServEof, handle_write_file_eof, Closed, Reading, EndOfFile
  <1>9. CASE ServError
    BY <1>0, <1>9 DEF ServError, handle_error, Closed
  <1>10. CASE ServReturns
    BY <1>0, <1>10 DEF ServReturns, run_returns, ProcessEnds, servVars, Reading
  <1>11. CASE ServKilled
    BY <1>0, <1>11 DEF ServKilled, ServerKilled, ProcessEnds
  <1>12. CASE ServMain
    BY <1>0, <1>12 DEF ServMain, main
  <1> QED
    BY <1>1, <1>2, <1>3, <1>4, <1>5, <1>6, <1>7, <1>8, <1>9, <1>10, <1>11, <1>12
    DEF ServRuns

LEMMA CliConnStep ==
    ASSUME TypeOK, ConnInv, NEW c \in Client,
           CliRuns(c) \/ CliStart(c) \/ CliKilled(c)
    PROVE  ConnInv'
  <1> USE DEF ConnInv, Serving, ConnectionOf, servVars, Ended, Running
  <1>0. /\ conn \in [Client -> ConnState] /\ up \in [Client -> Seq(Word)]
        /\ stage \in {"head", "file"} => peer \in Client
        /\ cli \in [Client -> {"idle"} \union Running \union Ended]
        /\ pend \in [Client -> Seq(Word)] /\ rest \in [Client -> Seq(Word)]
    BY DEF TypeOK, LinkTypeOK, ServTypeOK, CliTypeOK
  <1>1. CASE CliStart(c)
    BY <1>0, <1>1 DEF CliStart, AsyncTcpClient, Ends
  <1>2. CASE CliResolve(c)
    BY <1>0, <1>2 DEF CliResolve, handle_resolve, Ends
  <1>3. CASE CliConnect(c)
    BY <1>0, <1>3 DEF CliConnect, handle_connect, Reachable
  <1>4. CASE CliConnectErr(c)
    BY <1>0, <1>4 DEF CliConnectErr, handle_connect_err, Ends
  <1>5. CASE CliWrites(c)
    <2>1. PICK k : write_some(c, k)
      BY <1>5 DEF CliWrites
    <2> QED
      BY <1>0, <1>5, <2>1 DEF CliWrites, write_some, Accepted
  <1>6. CASE CliBlock(c)
    BY <1>0, <1>6 DEF CliBlock, handle_read_file, linkVars, Written
  <1>7. CASE CliEnd(c)
    BY <1>0, <1>7 DEF CliEnd, handle_read_file_end, Ends, Written
  <1>8. CASE CliErr(c)
    BY <1>0, <1>8 DEF CliErr, handle_read_file_err, Ends
  <1>9. CASE CliKilled(c)
    BY <1>0, <1>9 DEF CliKilled, ClientKilled, Ends
  <1> QED
    BY <1>1, <1>2, <1>3, <1>4, <1>5, <1>6, <1>7, <1>8, <1>9 DEF CliRuns

LEMMA ConnStep == TypeOK /\ ConnInv /\ [Next]_vars => ConnInv'
  <1> SUFFICES ASSUME TypeOK, ConnInv, [Next]_vars PROVE ConnInv'
    OBVIOUS
  <1>1. CASE UNCHANGED vars
    BY <1>1 DEF vars, linkVars, servVars, cliVars, ConnInv, Serving, ConnectionOf
  <1>2. CASE Next
    BY <1>2, ServConnStep, CliConnStep DEF Next
  <1> QED
    BY <1>1, <1>2

-------------------------------------------------------------------------------
(* Nothing is lost on a connection that stands. *)

WholeOf(c) ==
    conn[c] \in {"backlog", "open"}
        => Received(c) \o up[c] \o pend[c] \o rest[c] = Stream(c)

FileNamed == stage = "file" => filename = Out[peer]

WholeInv == FileNamed /\ NothingLost

LEMMA WholeInit == Init => WholeInv
  BY DEF Init, LinkInit, ServInit, WholeInv, FileNamed, NothingLost

\* A step that leaves alone c's stream and, if c is served, what the server has of it.
LEMMA Untouched ==
    ASSUME NEW c \in Client, WholeOf(c), conn'[c] = conn[c],
           up'[c] = up[c], pend'[c] = pend[c], rest'[c] = rest[c],
           conn[c] = "open" => /\ stage' = stage /\ rbuf' = rbuf
                               /\ filename' = filename /\ disk' = disk
    PROVE  WholeOf(c)'
  BY DEF WholeOf, Received, Stream

\* The types of all that a connection's words are in.
LEMMA PartTypes ==
    ASSUME TypeOK, ConnInv, NEW c \in Client
    PROVE  /\ up[c] \in Seq(Word) /\ pend[c] \in Seq(Word) /\ rest[c] \in Seq(Word)
           /\ rbuf \in Seq(Word) /\ filename \in Word
           /\ encode_fileinfo(filename) \in Seq(Word)
           /\ stage = "file" => disk[filename] \in Seq(Word)
           /\ conn[c] = "open" => stage \in {"head", "file"} /\ peer = c
           /\ conn[c] \in {"backlog", "open"} => Received(c) \in Seq(Word)
  <1>1. /\ up[c] \in Seq(Word) /\ pend[c] \in Seq(Word) /\ rest[c] \in Seq(Word)
        /\ rbuf \in Seq(Word) /\ filename \in Word
        /\ stage = "file" => disk[filename] \in Seq(Word)
    BY DEF TypeOK, LinkTypeOK, ServTypeOK, CliTypeOK
  <1>2. encode_fileinfo(filename) \in Seq(Word)
    BY <1>1, LinkAssumption DEF encode_fileinfo
  <1>3. conn[c] = "open" => stage \in {"head", "file"} /\ peer = c
    BY DEF ConnInv, ConnectionOf
  <1>4. stage = "file" =>
            (encode_fileinfo(filename) \o disk[filename]) \o rbuf \in Seq(Word)
    BY <1>1, <1>2, ConcatProperties
  <1>5. <<>> \in Seq(Word)
    BY EmptySeq
  <1> QED
    BY <1>1, <1>2, <1>3, <1>4, <1>5 DEF Received

\* Without a full disk fwrite takes everything.
LEMMA FwriteAll ==
    ASSUME TypeOK, ~DiskFull, fwrite(rbuf)
    PROVE  disk' = [disk EXCEPT ![filename] = @ \o rbuf] /\ UNCHANGED faults
  <1>1. PICK n \in 0..Len(rbuf) :
            /\ \/ n = Len(rbuf) /\ UNCHANGED faults
               \/ n < Len(rbuf) /\ DiskFull /\ Fault
            /\ disk' = [disk EXCEPT ![filename] = @ \o SubSeq(rbuf, 1, n)]
    BY DEF fwrite
  <1>2. rbuf \in Seq(Word)
    BY DEF TypeOK, ServTypeOK
  <1>3. SubSeq(rbuf, 1, Len(rbuf)) = rbuf
    BY <1>2, SubSeqFull
  <1> QED
    BY <1>1, <1>3

\* A whole header is the one that the client on the connection has sent.
LEMMA HeaderIsPeers ==
    ASSUME TypeOK, ConnInv, NothingLost, Reading("head"), Len(rbuf) = HeadLen
    PROVE  /\ peer \in Client /\ conn[peer] = "open"
           /\ decode_fileinfo(rbuf) = Out[peer]
           /\ rbuf = encode_fileinfo(Out[peer])
  <1>1. stage = "head" /\ peer \in Client
    BY DEF Reading, TypeOK, ServTypeOK
  <1>2. conn[peer] = "open"
    BY <1>1 DEF ConnInv, Serving
  <1> DEFINE tail == up[peer] \o (pend[peer] \o rest[peer])
             head == encode_fileinfo(Out[peer])
  <1>3. /\ rbuf \in Seq(Word) /\ tail \in Seq(Word)
        /\ head \in Seq(Word) /\ File[peer] \in Seq(Word)
        /\ Len(head) = HeadLen
    BY <1>1, PartTypes, StreamType, ConcatProperties
  <1>4. rbuf \o tail = head \o File[peer]
    <2>1. rbuf \o up[peer] \o pend[peer] \o rest[peer] = head \o File[peer]
      BY <1>1, <1>2 DEF NothingLost, Received, Stream
    <2>2. /\ up[peer] \in Seq(Word) /\ pend[peer] \in Seq(Word)
          /\ rest[peer] \in Seq(Word)
      BY <1>1, PartTypes
    <2> DEFINE u == up[peer]
               p == pend[peer]
               r == rest[peer]
               ru == rbuf \o u
               pr == p \o r
    <2>3. /\ rbuf \in Seq(Word) /\ u \in Seq(Word) /\ p \in Seq(Word) /\ r \in Seq(Word)
          /\ ru \in Seq(Word) /\ pr \in Seq(Word)
      BY <1>3, <2>2, ConcatProperties
    <2> HIDE DEF u, p, r
    <2>4. rbuf \o (u \o pr) = ru \o pr
      <3> HIDE DEF pr
      <3>1. rbuf \in Seq(Word) /\ u \in Seq(Word) /\ pr \in Seq(Word)
        BY <2>3
      <3> QED
        BY ONLY <3>1, Regroup
    <2> HIDE DEF ru
    <2>5. ru \o pr = (ru \o p) \o r
      <3>1. ru \in Seq(Word) /\ p \in Seq(Word) /\ r \in Seq(Word)
        BY <2>3
      <3> QED
        BY ONLY <3>1, Regroup
    <2> QED
      BY <2>1, <2>4, <2>5 DEF u, p, r, ru
  <1> HIDE DEF tail, head
  <1>5. SubSeq(rbuf \o tail, 1, HeadLen) = rbuf
    BY <1>3, FirstPart
  <1>6. SubSeq(head \o File[peer], 1, HeadLen) = head
    BY <1>3, FirstPart
  <1>7. rbuf = head
    BY <1>4, <1>5, <1>6
  <1> QED
    BY <1>1, <1>2, <1>7 DEF head, encode_fileinfo, decode_fileinfo

LEMMA ReadsKeepWhole ==
    ASSUME TypeOK, ConnInv, WholeInv, ServReads
    PROVE  WholeInv'
  <1>1. PICK k : read_some(k)
    BY DEF ServReads
  <1> DEFINE a == SubSeq(up[peer], 1, k)
             b == SubSeq(up[peer], k + 1, Len(up[peer]))
  <1>2. /\ a \in Seq(Word) /\ b \in Seq(Word) /\ up[peer] = a \o b
        /\ rbuf' = rbuf \o a /\ up' = [up EXCEPT ![peer] = b] /\ peer \in Client
    BY <1>1, ReadSome
  <1> HIDE DEF a, b
  <1>3. /\ stage \in {"head", "file"}
        /\ UNCHANGED <<conn, stage, peer, filename, disk, pend, rest>>
    BY <1>1 DEF read_some, ServReads, cliVars
  <1>4. conn[peer] = "open" /\ up \in [Client -> Seq(Word)]
    BY <1>3 DEF ConnInv, Serving, TypeOK, LinkTypeOK
  <1>5. Received(peer) \in Seq(Word) /\ Received(peer)' = Received(peer) \o a
    <2>1. CASE stage = "head"
      BY <1>2, <1>3, <1>4, <2>1, PartTypes DEF Received
    <2>2. CASE stage = "file"
      <3> DEFINE e == encode_fileinfo(filename) \o disk[filename]
      <3>1. e \in Seq(Word) /\ rbuf \in Seq(Word)
        BY <1>2, <2>2, PartTypes, ConcatProperties
      <3>2. Received(peer) = e \o rbuf
        BY <1>4, <2>2 DEF Received
      <3>3. Received(peer)' = e \o (rbuf \o a)
        BY <1>2, <1>3, <1>4, <2>2 DEF Received, encode_fileinfo
      <3> HIDE DEF e
      <3>4. e \in Seq(Word) /\ rbuf \in Seq(Word) /\ a \in Seq(Word)
        BY <1>2, <3>1
      <3>5. e \o (rbuf \o a) = (e \o rbuf) \o a
        BY <3>4, Regroup
      <3>6. e \o rbuf \in Seq(Word)
        BY <3>4, ConcatProperties
      <3> QED
        BY <3>2, <3>3, <3>5, <3>6
    <2> QED
      BY <1>3, <2>1, <2>2
  <1>6. (Received(peer) \o a) \o b = Received(peer) \o up[peer]
    <2> DEFINE r == Received(peer)
    <2>1. r \in Seq(Word) /\ a \in Seq(Word) /\ b \in Seq(Word)
      BY <1>2, <1>5
    <2>2. r \o up[peer] = r \o (a \o b)
      BY <1>2
    <2> HIDE DEF r
    <2>3. (r \o a) \o b = r \o (a \o b)
      BY ONLY <2>1, Regroup
    <2> QED
      BY <2>2, <2>3 DEF r
  <1>7. ASSUME NEW c \in Client PROVE WholeOf(c)'
    <2>0. WholeOf(c)
      BY DEF WholeInv, NothingLost, WholeOf
    <2>1. CASE c = peer
      <3>1. Received(c) \o up[c] \o pend[c] \o rest[c] = Stream(c)
        BY <1>4, <2>0, <2>1 DEF WholeOf
      <3>2. Received(c)' \o up'[c] = Received(c) \o up[c]
        <4>1. up'[c] = b
          BY <1>2, <1>4, <2>1
        <4>2. Received(c)' = Received(c) \o a
          BY <1>3, <1>5, <2>1
        <4> QED
          BY <1>6, <2>1, <4>1, <4>2
      <3>3. pend'[c] = pend[c] /\ rest'[c] = rest[c]
        BY <1>3
      <3> QED
        BY <3>1, <3>2, <3>3 DEF WholeOf, Stream
    <2>2. CASE c # peer
      <3>1. conn[c] # "open"
        BY <2>2 DEF ConnInv, ConnectionOf
      <3>2. up'[c] = up[c]
        BY <1>2, <1>4, <2>2
      <3> QED
        BY <1>3, <2>0, <3>1, <3>2, Untouched
    <2> QED
      BY <2>1, <2>2
  <1>8. FileNamed'
    BY <1>3 DEF WholeInv, FileNamed
  <1> QED
    BY <1>7, <1>8 DEF WholeInv, NothingLost, WholeOf

LEMMA RequestKeepsWhole ==
    ASSUME TypeOK, ConnInv, WholeInv, ServRequest
    PROVE  WholeInv'
  <1>1. Reading("head") /\ Len(rbuf) = HeadLen
    BY DEF ServRequest, handle_read_request
  <1>2. /\ peer \in Client /\ conn[peer] = "open"
        /\ decode_fileinfo(rbuf) = Out[peer]
        /\ rbuf = encode_fileinfo(Out[peer])
    BY <1>1, HeaderIsPeers DEF WholeInv
  <1>3. /\ stage' = "file" /\ rbuf' = <<>> /\ filename' = Out[peer]
        /\ disk' = [disk EXCEPT ![Out[peer]] = <<>>]
        /\ UNCHANGED <<conn, up, peer, pend, rest>>
    BY <1>2 DEF ServRequest, handle_read_request, linkVars, cliVars
  <1>4. Received(peer) = rbuf
    BY <1>1, <1>2 DEF Received, Reading
  <1>5. Received(peer)' = rbuf
    <2>1. disk'[Out[peer]] = <<>>
      BY <1>2, <1>3, StreamType DEF TypeOK, ServTypeOK
    <2>2. Received(peer)' = (encode_fileinfo(Out[peer]) \o <<>>) \o <<>>
      BY <1>2, <1>3, <2>1 DEF Received, encode_fileinfo
    <2> QED
      BY <1>2, <2>2, StreamType, ConcatEmptySeq
  <1>6. ASSUME NEW c \in Client PROVE WholeOf(c)'
    <2>0. WholeOf(c)
      BY DEF WholeInv, NothingLost, WholeOf
    <2>1. CASE c = peer
      BY <1>2, <1>3, <1>4, <1>5, <2>0, <2>1 DEF WholeOf, Stream
    <2>2. CASE c # peer
      <3>1. conn[c] # "open"
        BY <2>2 DEF ConnInv, ConnectionOf
      <3> QED
        BY <1>3, <2>0, <3>1, Untouched
    <2> QED
      BY <2>1, <2>2
  <1>7. FileNamed'
    BY <1>3 DEF FileNamed
  <1> QED
    BY <1>6, <1>7 DEF WholeInv, NothingLost, WholeOf

LEMMA BlockKeepsWhole ==
    ASSUME TypeOK, ConnInv, WholeInv, ~DiskFull, ServBlock
    PROVE  WholeInv'
  <1>1. stage = "file" /\ listening /\ fwrite(rbuf)
    BY DEF ServBlock, handle_write_file, Reading
  <1>2. peer \in Client /\ conn[peer] = "open" /\ filename = Out[peer]
    BY <1>1 DEF ConnInv, Serving, TypeOK, ServTypeOK, WholeInv, FileNamed
  <1>3. /\ rbuf' = <<>> /\ disk' = [disk EXCEPT ![filename] = @ \o rbuf]
        /\ UNCHANGED <<conn, up, stage, peer, filename, pend, rest>>
    BY <1>1, FwriteAll DEF ServBlock, handle_write_file, cliVars
  <1>4. Received(peer)' = Received(peer)
    <2> DEFINE e == encode_fileinfo(filename)
    <2>1. /\ e \in Seq(Word) /\ disk[filename] \in Seq(Word) /\ rbuf \in Seq(Word)
          /\ filename \in Word
      BY <1>1, <1>2, PartTypes
    <2>2. disk'[filename] = disk[filename] \o rbuf
      BY <1>3, <2>1 DEF TypeOK, ServTypeOK
    <2>3. Received(peer) = (e \o disk[filename]) \o rbuf
      BY <1>1, <1>2 DEF Received
    <2>4. Received(peer)' = (e \o (disk[filename] \o rbuf)) \o <<>>
      BY <1>1, <1>2, <1>3, <2>2 DEF Received, encode_fileinfo
    <2> DEFINE d == disk[filename]
    <2> HIDE DEF e
    <2>5. d \in Seq(Word)
      BY <2>1
    <2>6. e \o (d \o rbuf) = (e \o d) \o rbuf /\ e \o (d \o rbuf) \in Seq(Word)
      <3> HIDE DEF d
      <3>1. e \in Seq(Word) /\ d \in Seq(Word) /\ rbuf \in Seq(Word)
        BY <2>1, <2>5
      <3>2. e \o (d \o rbuf) = (e \o d) \o rbuf
        BY ONLY <3>1, Regroup
      <3>3. d \o rbuf \in Seq(Word)
        BY <3>1, ConcatProperties
      <3>4. e \o (d \o rbuf) \in Seq(Word)
        BY <3>1, <3>3, ConcatProperties
      <3> QED
        BY <3>2, <3>4
    <2> QED
      BY <2>3, <2>4, <2>6, ConcatEmptySeq
  <1>5. ASSUME NEW c \in Client PROVE WholeOf(c)'
    <2>0. WholeOf(c)
      BY DEF WholeInv, NothingLost, WholeOf
    <2>1. CASE c = peer
      BY <1>2, <1>3, <1>4, <2>0, <2>1 DEF WholeOf, Stream
    <2>2. CASE c # peer
      <3>1. conn[c] # "open"
        BY <2>2 DEF ConnInv, ConnectionOf
      <3> QED
        BY <1>3, <2>0, <3>1, Untouched
    <2> QED
      BY <2>1, <2>2
  <1>6. FileNamed'
    BY <1>3 DEF WholeInv, FileNamed
  <1> QED
    BY <1>5, <1>6 DEF WholeInv, NothingLost, WholeOf

\* The connection that was served is closed, and the server serves no other.
LEMMA ClosingKeepsWhole ==
    ASSUME TypeOK, ConnInv, WholeInv, stage \in {"head", "file"},
           Closed(peer), stage' = "done", UNCHANGED <<pend, rest>>
    PROVE  WholeInv'
  <1>1. peer \in Client /\ conn \in [Client -> ConnState] /\ up \in [Client -> Seq(Word)]
    BY DEF TypeOK, LinkTypeOK, ServTypeOK
  <1>2. ASSUME NEW c \in Client PROVE WholeOf(c)'
    <2>1. CASE c = peer
      BY <1>1, <2>1 DEF WholeOf, Closed
    <2>2. CASE c # peer
      <3>1. WholeOf(c) /\ conn[c] # "open"
        BY <2>2 DEF WholeInv, NothingLost, WholeOf, ConnInv, ConnectionOf
      <3>2. conn'[c] = conn[c] /\ up'[c] = up[c]
        BY <1>1, <2>2 DEF Closed
      <3> QED
        BY <3>1, <3>2, Untouched
    <2> QED
      BY <2>1, <2>2
  <1> QED
    BY <1>2 DEF WholeInv, FileNamed, NothingLost, WholeOf

\* No connection stands after the server's process has ended.
LEMMA EndingKeepsWhole ==
    ASSUME ProcessEnds, stage' = "done"
    PROVE  WholeInv'
  BY DEF ProcessEnds, WholeInv, FileNamed, NothingLost

\* The server waits for a client, or no longer: nothing that stands is served.
LEMMA WaitingKeepsWhole ==
    ASSUME TypeOK, ConnInv, WholeInv, ServAcceptErr \/ ServMain
    PROVE  WholeInv'
  <1>1. /\ stage \notin {"head", "file"} \/ ~listening
        /\ stage' # "file"
        /\ UNCHANGED <<conn, up, pend, rest>>
    BY DEF ServAcceptErr, handle_accept_err, ServMain, main, cliVars
  <1>2. ASSUME NEW c \in Client PROVE WholeOf(c)'
    <2>1. WholeOf(c) /\ conn[c] # "open"
      BY <1>1 DEF WholeInv, NothingLost, WholeOf, ConnInv, ConnectionOf
    <2> QED
      BY <1>1, <2>1, Untouched
  <1> QED
    BY <1>1, <1>2 DEF WholeInv, FileNamed, NothingLost, WholeOf

LEMMA AcceptKeepsWhole ==
    ASSUME TypeOK, ConnInv, WholeInv, NEW c \in Client, ServAccept(c)
    PROVE  WholeInv'
  <1>1. /\ conn[c] = "backlog" /\ conn' = [conn EXCEPT ![c] = "open"]
        /\ stage = "accept" /\ stage' = "head" /\ rbuf' = <<>>
        /\ UNCHANGED <<up, pend, rest>>
    BY DEF ServAccept, handle_accept, cliVars
  <1>2. conn \in [Client -> ConnState]
    BY DEF TypeOK, LinkTypeOK
  <1>3. ASSUME NEW d \in Client PROVE WholeOf(d)'
    <2>1. WholeOf(d)
      BY DEF WholeInv, NothingLost, WholeOf
    <2>2. CASE d = c
      <3>1. Received(d) = <<>> /\ Received(d)' = <<>>
        BY <1>1, <1>2, <2>2 DEF Received
      <3> QED
        BY <1>1, <1>2, <2>1, <2>2, <3>1 DEF WholeOf, Stream
    <2>3. CASE d # c
      <3>1. conn[d] # "open" /\ conn'[d] = conn[d]
        BY <1>1, <1>2, <2>3 DEF ConnInv, ConnectionOf
      <3> QED
        BY <1>1, <2>1, <3>1, Untouched
    <2> QED
      BY <2>2, <2>3
  <1> QED
    BY <1>1, <1>3 DEF WholeInv, FileNamed, NothingLost, WholeOf

LEMMA ServWholeStep ==
    ASSUME TypeOK, ConnInv, WholeInv, ~DiskFull,
           ServRuns \/ ServAcceptErr \/ ServError \/ ServKilled \/ ServMain
    PROVE  WholeInv'
  <1>1. CASE ServUnopened \/ ServNoHeader \/ ServEof \/ ServError
    <2>1. /\ stage \in {"head", "file"} /\ stage' = "done" /\ Closed(peer)
          /\ UNCHANGED <<pend, rest>>
      BY <1>1 DEF ServUnopened, handle_read_request_unopened, ServNoHeader,
                  handle_read_request_eof, ServEof, handle_write_file_eof, ServError,
                  handle_error, Reading, cliVars
    <2> QED
      BY <2>1, ClosingKeepsWhole
  <1>2. CASE ServReturns \/ ServKilled
    <2>1. ProcessEnds /\ stage' = "done"
      BY <1>2 DEF ServReturns, run_returns, Reading, servVars, ServKilled, ServerKilled
    <2> QED
      BY <2>1, EndingKeepsWhole
  <1> QED
    BY <1>1, <1>2, WaitingKeepsWhole, AcceptKeepsWhole, ReadsKeepWhole,
       RequestKeepsWhole, BlockKeepsWhole DEF ServRuns

\* A client connects: all of its stream is still to be written.
LEMMA ConnectKeepsWhole ==
    ASSUME TypeOK, ConnInv, WholeInv, NEW c \in Client, CliConnect(c)
    PROVE  WholeInv'
  <1>1. /\ cli[c] = "connect" /\ conn' = [conn EXCEPT ![c] = "backlog"]
        /\ pend' = [pend EXCEPT ![c] = encode_fileinfo(Out[c])]
        /\ UNCHANGED <<up, rest, stage, peer, rbuf, filename, disk>>
    BY DEF CliConnect, handle_connect, servVars
  <1>2. /\ conn \in [Client -> ConnState] /\ pend \in [Client -> Seq(Word)]
    BY DEF TypeOK, LinkTypeOK, CliTypeOK
  <1>3. up[c] = <<>> /\ rest[c] = File[c]
    BY <1>1 DEF ConnInv, ConnectionOf
  <1>4. ASSUME NEW d \in Client PROVE WholeOf(d)'
    <2>1. CASE d = c
      <3>1. Received(d)' = <<>> /\ up'[d] = <<>> /\ rest'[d] = File[d]
        BY <1>1, <1>2, <1>3, <2>1 DEF Received
      <3>2. pend'[d] = encode_fileinfo(Out[d])
        BY <1>1, <1>2, <2>1
      <3>3. (<<>> \o <<>>) \o encode_fileinfo(Out[d]) = encode_fileinfo(Out[d])
        BY StreamType, EmptySeq, ConcatEmptySeq
      <3> QED
        BY <3>1, <3>2, <3>3 DEF WholeOf, Stream, encode_fileinfo
    <2>2. CASE d # c
      <3>1. conn'[d] = conn[d] /\ pend'[d] = pend[d]
        BY <1>1, <1>2, <2>2
      <3>2. WholeOf(d)
        BY DEF WholeInv, NothingLost, WholeOf
      <3> QED
        BY <1>1, <3>1, <3>2, Untouched
    <2> QED
      BY <2>1, <2>2
  <1> QED
    BY <1>1, <1>4 DEF WholeInv, FileNamed, NothingLost, WholeOf

\* Words that the kernel takes come behind those that are on their way.
LEMMA WritesKeepWhole ==
    ASSUME TypeOK, ConnInv, WholeInv, NEW c \in Client, CliWrites(c)
    PROVE  WholeInv'
  <1>1. PICK k : write_some(c, k)
    BY DEF CliWrites
  <1> DEFINE a == SubSeq(pend[c], 1, k)
             b == SubSeq(pend[c], k + 1, Len(pend[c]))
  <1>2. /\ a \in Seq(Word) /\ b \in Seq(Word) /\ pend[c] = a \o b
        /\ pend' = [pend EXCEPT ![c] = b]
        /\ \/ up' = [up EXCEPT ![c] = @ \o a]
           \/ conn[c] = "gone" /\ up' = up
    BY <1>1, WriteSome
  <1> HIDE DEF a, b
  <1>3. UNCHANGED <<conn, rest, stage, peer, rbuf, filename, disk>>
    BY <1>1 DEF CliWrites, write_some, servVars
  <1>4. pend \in [Client -> Seq(Word)] /\ up \in [Client -> Seq(Word)]
    BY DEF TypeOK, LinkTypeOK, CliTypeOK
  <1>5. ASSUME NEW d \in Client PROVE WholeOf(d)'
    <2>0. WholeOf(d)
      BY DEF WholeInv, NothingLost, WholeOf
    <2>1. CASE d # c
      <3>1. up'[d] = up[d] /\ pend'[d] = pend[d]
        BY <1>2, <1>4, <2>1
      <3> QED
        BY <1>3, <2>0, <3>1, Untouched
    <2>2. CASE d = c /\ conn[c] = "gone"
      BY <1>3, <2>2 DEF WholeOf
    <2>3. CASE d = c /\ conn[c] # "gone"
      <3> SUFFICES ASSUME conn[c] \in {"backlog", "open"}
                   PROVE  Received(c)' \o up'[c] \o pend'[c] \o rest'[c] = Stream(c)
        BY <1>3, <2>3 DEF WholeOf, Stream, encode_fileinfo
      <3> DEFINE r == Received(c)
                 u == up[c]
      <3>1. r \in Seq(Word) /\ u \in Seq(Word)
        BY <1>4, PartTypes
      <3>2. Received(c)' = r
        BY <1>3 DEF Received, encode_fileinfo
      <3>3. up'[c] = u \o a /\ pend'[c] = b /\ rest'[c] = rest[c]
        BY <1>2, <1>3, <1>4, <2>3
      <3>4. ((r \o u) \o (a \o b)) \o rest[c] = Stream(c)
        BY <1>2, <2>0, <2>3 DEF WholeOf
      <3> DEFINE ru == r \o u
      <3>5. ru \in Seq(Word)
        BY <3>1, ConcatProperties
      <3> HIDE DEF r, u
      <3>6. r \o (u \o a) = ru \o a
        <4>1. r \in Seq(Word) /\ u \in Seq(Word) /\ a \in Seq(Word)
          BY <1>2, <3>1
        <4> QED
          BY <4>1, Regroup
      <3> HIDE DEF ru
      <3>7. (ru \o a) \o b = ru \o (a \o b)
        <4>1. ru \in Seq(Word) /\ a \in Seq(Word) /\ b \in Seq(Word)
          BY <1>2, <3>5
        <4> QED
          BY <4>1, Regroup
      <3> QED
        BY <3>2, <3>3, <3>4, <3>6, <3>7 DEF ru
    <2> QED
      BY <2>1, <2>2, <2>3
  <1> QED
    BY <1>3, <1>5 DEF WholeInv, FileNamed, NothingLost, WholeOf

LEMMA NextBlockKeepsWhole ==
    ASSUME TypeOK, ConnInv, WholeInv, NEW c \in Client, CliBlock(c)
    PROVE  WholeInv'
  <1>1. PICK a, b \in Seq(Word) : /\ rest[c] = a \o b
                                  /\ pend' = [pend EXCEPT ![c] = a]
                                  /\ rest' = [rest EXCEPT ![c] = b]
    BY ReadBlock DEF CliBlock
  <1>2. /\ pend[c] = <<>>
        /\ UNCHANGED <<conn, up, stage, peer, rbuf, filename, disk>>
    BY DEF CliBlock, handle_read_file, Written, linkVars, servVars
  <1>3. pend \in [Client -> Seq(Word)] /\ rest \in [Client -> Seq(Word)]
    BY DEF TypeOK, CliTypeOK
  <1>4. ASSUME NEW d \in Client PROVE WholeOf(d)'
    <2>0. WholeOf(d)
      BY DEF WholeInv, NothingLost, WholeOf
    <2>1. CASE d # c
      <3>1. pend'[d] = pend[d] /\ rest'[d] = rest[d]
        BY <1>1, <1>3, <2>1
      <3> QED
        BY <1>2, <2>0, <3>1, Untouched
    <2>2. CASE d = c
      <3> SUFFICES ASSUME conn[c] \in {"backlog", "open"}
                   PROVE  Received(c)' \o up'[c] \o pend'[c] \o rest'[c] = Stream(c)
        BY <1>2, <2>2 DEF WholeOf, Stream, encode_fileinfo
      <3> DEFINE r == Received(c)
                 u == up[c]
                 ru == r \o u
      <3>1. ru \in Seq(Word)
        BY PartTypes, ConcatProperties
      <3>2. Received(c)' = r
        BY <1>2 DEF Received, encode_fileinfo
      <3>3. up'[c] = u /\ pend'[c] = a /\ rest'[c] = b
        BY <1>1, <1>2, <1>3
      <3>4. (ru \o <<>>) \o (a \o b) = Stream(c)
        BY <1>1, <1>2, <2>0, <2>2 DEF WholeOf
      <3> HIDE DEF ru
      <3>5. ru \o <<>> = ru
        BY <3>1, ConcatEmptySeq
      <3>6. ru \o (a \o b) = (ru \o a) \o b
        <4>1. ru \in Seq(Word) /\ a \in Seq(Word) /\ b \in Seq(Word)
          BY <3>1
        <4> QED
          BY <4>1, Regroup
      <3> QED
        BY <3>2, <3>3, <3>4, <3>5, <3>6 DEF ru
    <2> QED
      BY <2>1, <2>2
  <1> QED
    BY <1>2, <1>4 DEF WholeInv, FileNamed, NothingLost, WholeOf

\* All the rest of what a client does leaves words where they are.
LEMMA CliWholeStep ==
    ASSUME TypeOK, ConnInv, WholeInv, NEW c \in Client,
           CliRuns(c) \/ CliStart(c) \/ CliKilled(c)
    PROVE  WholeInv'
  <1>1. CASE \/ CliResolve(c) \/ CliConnectErr(c) \/ CliEnd(c) \/ CliErr(c)
             \/ CliStart(c) \/ CliKilled(c)
    <2>1. UNCHANGED <<conn, up, pend, stage, peer, rbuf, filename, disk>>
      BY <1>1 DEF CliResolve, handle_resolve, CliConnectErr, handle_connect_err, CliEnd,
                  handle_read_file_end, CliErr, handle_read_file_err, CliStart,
                  AsyncTcpClient, CliKilled, ClientKilled, servVars
    <2>2. \/ UNCHANGED rest
          \/ cli[c] = "idle" /\ rest' = [rest EXCEPT ![c] = File[c]]
      BY <1>1 DEF CliResolve, handle_resolve, CliConnectErr, handle_connect_err, CliEnd,
                  handle_read_file_end, CliErr, handle_read_file_err, CliStart,
                  AsyncTcpClient, CliKilled, ClientKilled
    <2>3. ASSUME NEW d \in Client PROVE WholeOf(d)'
      <3>1. WholeOf(d)
        BY DEF WholeInv, NothingLost, WholeOf
      <3>2. CASE rest'[d] = rest[d]
        BY <2>1, <3>1, <3>2, Untouched
      <3>3. CASE rest'[d] # rest[d]
        <4>1. d = c /\ cli[c] = "idle"
          BY <2>2, <3>3 DEF TypeOK, CliTypeOK
        <4>2. conn[d] = "none"
          BY <4>1 DEF ConnInv, ConnectionOf
        <4> QED
          BY <2>1, <4>2 DEF WholeOf
      <3> QED
        BY <3>2, <3>3
    <2> QED
      BY <2>1, <2>3 DEF WholeInv, FileNamed, NothingLost, WholeOf
  <1> QED
    BY <1>1, ConnectKeepsWhole, WritesKeepWhole, NextBlockKeepsWhole DEF CliRuns

LEMMA WholeStep == TypeOK /\ ConnInv /\ WholeInv /\ ~DiskFull /\ [Next]_vars => WholeInv'
  <1> SUFFICES ASSUME TypeOK, ConnInv, WholeInv, ~DiskFull, [Next]_vars PROVE WholeInv'
    OBVIOUS
  <1>1. CASE UNCHANGED vars
    BY <1>1 DEF vars, linkVars, servVars, cliVars, WholeInv, FileNamed, NothingLost,
                Received, Stream, encode_fileinfo
  <1>2. CASE Next
    BY <1>2, ServWholeStep, CliWholeStep DEF Next
  <1> QED
    BY <1>1, <1>2

\* With disks that take what is written to them: as long as a connection stands,
\* server.cc and client.cc between them have every word of it exactly once and in
\* order, however the kernels and the library cut it up.
THEOREM NothingIsLost == Spec => [](~DiskFull => NothingLost)
  <1>1. CASE DiskFull
    <2>1. ~DiskFull => NothingLost
      BY <1>1
    <2> QED
      BY <2>1, PTL
  <1>2. CASE ~DiskFull
    <2>1. TypeOK /\ ConnInv /\ WholeInv /\ [Next]_vars => WholeInv'
      BY <1>2, WholeStep
    <2>2. WholeInv => (~DiskFull => NothingLost)
      BY DEF WholeInv
    <2> QED
      BY <2>1, <2>2, TypeInit, TypeStep, ConnInit, ConnStep, WholeInit, PTL DEF Spec
  <1> QED
    BY <1>1, <1>2

-------------------------------------------------------------------------------
(* What lies on the server's disk is the beginning of a file, and at eof all of it. *)

\* What the server has of the file that it writes is how the peer's file begins.
LEMMA Landed ==
    ASSUME TypeOK, ConnInv, WholeInv, stage = "file"
    PROVE  /\ peer \in Client /\ conn[peer] = "open" /\ filename = Out[peer]
           /\ disk[filename] \in Seq(Word) /\ rbuf \in Seq(Word)
           /\ disk[filename] \o rbuf \in Seq(Word)
           /\ \E t \in Seq(Word) :
                  /\ (disk[filename] \o rbuf) \o t = File[peer]
                  /\ (up[peer] = <<>> /\ pend[peer] = <<>> /\ rest[peer] = <<>>) => t = <<>>
  <1>1. peer \in Client /\ conn[peer] = "open" /\ filename = Out[peer]
    BY DEF TypeOK, ServTypeOK, ConnInv, Serving, WholeInv, FileNamed
  <1> DEFINE e == encode_fileinfo(Out[peer])
             d == disk[filename]
             u == up[peer]
             p == pend[peer]
             r == rest[peer]
             dr == d \o rbuf
             pr == p \o r
             t == u \o pr
             f == File[peer]
  <1>2. /\ e \in Seq(Word) /\ d \in Seq(Word) /\ rbuf \in Seq(Word) /\ u \in Seq(Word)
        /\ p \in Seq(Word) /\ r \in Seq(Word) /\ f \in Seq(Word)
    BY <1>1, PartTypes, StreamType
  <1>3. ((((e \o d) \o rbuf) \o u) \o p) \o r = e \o f
    BY <1>1 DEF WholeInv, NothingLost, Received, Stream
  <1>4. (u = <<>> /\ p = <<>> /\ r = <<>>) => t = <<>>
    BY <1>2, ConcatEmptySeq
  <1> HIDE DEF e, d, u, p, r, f
  <1>5. dr \in Seq(Word) /\ pr \in Seq(Word)
    BY <1>2, ConcatProperties
  <1>6. (e \o d) \o rbuf = e \o dr
    <2>1. e \in Seq(Word) /\ d \in Seq(Word) /\ rbuf \in Seq(Word)
      BY <1>2
    <2> QED
      BY ONLY <2>1, Regroup
  <1> HIDE DEF dr
  <1> DEFINE edr == e \o dr
             edru == edr \o u
  <1>7. edr \in Seq(Word) /\ edru \in Seq(Word)
    BY <1>2, <1>5, ConcatProperties
  <1>8. (edru \o p) \o r = e \o f
    BY <1>3, <1>6
  <1> HIDE DEF edru
  <1>9. (edru \o p) \o r = edru \o pr
    <2>1. edru \in Seq(Word) /\ p \in Seq(Word) /\ r \in Seq(Word)
      BY <1>2, <1>7
    <2> QED
      BY ONLY <2>1, Regroup
  <1> HIDE DEF pr, edr
  <1>10. edru = edr \o u
    BY DEF edru
  <1>11. (edr \o u) \o pr = edr \o t
    <2>1. edr \in Seq(Word) /\ u \in Seq(Word) /\ pr \in Seq(Word)
      BY <1>2, <1>5, <1>7
    <2> QED
      BY ONLY <2>1, Regroup
  <1>12. t \in Seq(Word)
    BY <1>2, <1>5, ConcatProperties
  <1> HIDE DEF t
  <1>13. edr \o t = e \o (dr \o t)
    <2>1. e \in Seq(Word) /\ dr \in Seq(Word) /\ t \in Seq(Word)
      BY <1>2, <1>5, <1>12
    <2> QED
      BY ONLY <2>1, Regroup DEF edr
  <1>14. dr \o t \in Seq(Word)
    BY <1>5, <1>12, ConcatProperties
  <1>15. e \o (dr \o t) = e \o f
    BY <1>8, <1>9, <1>10, <1>11, <1>13
  <1>16. dr \o t = f
    BY <1>2, <1>14, <1>15, SameEnd
  <1> QED
    BY <1>1, <1>2, <1>4, <1>5, <1>12, <1>16 DEF d, u, p, r, f, dr

\* c is the only client that sends a file of this name.
Alone(c) == \A d \in Client \ {c} : Out[d] # Out[c]

StoredOf(c) == c \in closed /\ cli[c] = "sent" /\ Alone(c) => disk[Out[c]] = File[c]

Stored == \A c \in Client : StoredOf(c)

\* The server writes the file of the client that it serves: another's stays as it was.
LEMMA OthersFile ==
    ASSUME TypeOK, ConnInv, WholeInv, Stored, stage \in {"head", "file"},
           \A n \in Word \ {Out[peer]} : disk'[n] = disk[n],
           closed' = closed, UNCHANGED cli
    PROVE  Stored'
  <1>1. peer \in Client /\ conn[peer] = "open"
    BY DEF TypeOK, ServTypeOK, ConnInv, Serving
  <1>2. ASSUME NEW c \in Client, c \in closed, cli[c] = "sent", Alone(c)
        PROVE  disk'[Out[c]] = File[c]
    <2>1. disk[Out[c]] = File[c] /\ Out[c] \in Word
      BY <1>2, StreamType DEF Stored, StoredOf
    <2>2. c # peer
      BY <1>1, <1>2 DEF ConnInv, ConnectionOf
    <2>3. Out[peer] # Out[c]
      BY <1>1, <1>2, <2>2 DEF Alone
    <2> QED
      BY <2>1, <2>3
  <1> QED
    BY <1>2 DEF Stored, StoredOf, Alone

\* At eof the last words are written, and the file is whole if its client has sent
\* all of it, and the beginning of it if not.
LEMMA EofWrites ==
    ASSUME TypeOK, ConnInv, WholeInv, DisksWork, ServEof
    PROVE  /\ peer \in Client /\ conn[peer] = "open" /\ closed' = closed \union {peer}
           /\ \E n \in 0..Len(File[peer]) :
                  disk' = [disk EXCEPT ![Out[peer]] = SubSeq(File[peer], 1, n)]
           /\ cli[peer] = "sent" => disk' = [disk EXCEPT ![Out[peer]] = File[peer]]
           /\ UNCHANGED cliVars
  <1>1. /\ stage = "file" /\ fwrite(rbuf) /\ closed' = closed \union {peer}
        /\ up[peer] = <<>> /\ UNCHANGED cliVars
    BY DEF ServEof, handle_write_file_eof, Reading, EndOfFile
  <1>2. PICK t \in Seq(Word) :
            /\ (disk[filename] \o rbuf) \o t = File[peer]
            /\ (up[peer] = <<>> /\ pend[peer] = <<>> /\ rest[peer] = <<>>) => t = <<>>
    BY <1>1, Landed
  <1>3. /\ peer \in Client /\ conn[peer] = "open" /\ filename = Out[peer]
        /\ disk[filename] \o rbuf \in Seq(Word)
    BY <1>1, Landed
  <1>4. disk' = [disk EXCEPT ![filename] = @ \o rbuf]
    BY <1>1, FwriteAll DEF DisksWork
  <1> DEFINE d == disk[filename] \o rbuf
  <1>5. disk' = [disk EXCEPT ![Out[peer]] = d]
    BY <1>3, <1>4
  <1> HIDE DEF d
  <1>6. d \in Seq(Word) /\ d \o t = File[peer]
    BY <1>2, <1>3 DEF d
  <1>7. Len(d) \in 0..Len(File[peer]) /\ SubSeq(File[peer], 1, Len(d)) = d
    BY <1>6, FirstPart
  <1>8. cli[peer] = "sent" => d = File[peer]
    <2>1. cli[peer] = "sent" => pend[peer] = <<>> /\ rest[peer] = <<>>
      BY <1>3 DEF ConnInv, ConnectionOf, DisksWork
    <2> QED
      BY <1>1, <1>2, <1>6, <2>1, ConcatEmptySeq
  <1> QED
    BY <1>1, <1>3, <1>5, <1>7, <1>8

\* A full buffer is written: more of the file, but from its beginning.
LEMMA BlockWrites ==
    ASSUME TypeOK, ConnInv, WholeInv, DisksWork, ServBlock
    PROVE  /\ peer \in Client /\ conn[peer] = "open" /\ stage = "file"
           /\ \E n \in 0..Len(File[peer]) :
                  disk' = [disk EXCEPT ![Out[peer]] = SubSeq(File[peer], 1, n)]
           /\ UNCHANGED <<closed, cli>>
  <1>1. stage = "file" /\ fwrite(rbuf) /\ UNCHANGED <<closed, cli>>
    BY DEF ServBlock, handle_write_file, Reading, cliVars
  <1>2. PICK t \in Seq(Word) : (disk[filename] \o rbuf) \o t = File[peer]
    BY <1>1, Landed
  <1>3. /\ peer \in Client /\ conn[peer] = "open" /\ filename = Out[peer]
        /\ disk[filename] \o rbuf \in Seq(Word)
    BY <1>1, Landed
  <1>4. disk' = [disk EXCEPT ![filename] = @ \o rbuf]
    BY <1>1, FwriteAll DEF DisksWork
  <1> DEFINE d == disk[filename] \o rbuf
  <1>5. disk' = [disk EXCEPT ![Out[peer]] = d]
    BY <1>3, <1>4
  <1> HIDE DEF d
  <1>6. d \in Seq(Word) /\ d \o t = File[peer]
    BY <1>2, <1>3 DEF d
  <1>7. Len(d) \in 0..Len(File[peer]) /\ SubSeq(File[peer], 1, Len(d)) = d
    BY <1>6, FirstPart
  <1> QED
    BY <1>1, <1>3, <1>5, <1>7

\* The request of the client on the connection empties the file of its name.
LEMMA RequestEmpties ==
    ASSUME TypeOK, ConnInv, WholeInv, ServRequest
    PROVE  /\ peer \in Client /\ conn[peer] = "open" /\ stage = "head"
           /\ 0 \in 0..Len(File[peer])
           /\ disk' = [disk EXCEPT ![Out[peer]] = SubSeq(File[peer], 1, 0)]
           /\ UNCHANGED <<closed, cli>>
  <1>1. Reading("head") /\ Len(rbuf) = HeadLen /\ UNCHANGED <<closed, cli>>
    BY DEF ServRequest, handle_read_request, cliVars
  <1>2. /\ peer \in Client /\ conn[peer] = "open" /\ decode_fileinfo(rbuf) = Out[peer]
    BY <1>1, HeaderIsPeers DEF WholeInv
  <1>3. disk' = [disk EXCEPT ![Out[peer]] = <<>>]
    BY <1>2 DEF ServRequest, handle_read_request
  <1>4. File[peer] \in Seq(Word) /\ Len(File[peer]) \in Nat
    BY <1>2, StreamType, LenProperties
  <1>5. SubSeq(File[peer], 1, 0) = <<>>
    BY <1>4, SubSeqEmpty
  <1> DEFINE d == SubSeq(File[peer], 1, 0)
  <1>6. disk' = [disk EXCEPT ![Out[peer]] = d]
    BY <1>3, <1>5
  <1>7. 0 \in 0..Len(File[peer])
    BY <1>4
  <1> HIDE DEF d
  <1>8. stage = "head" /\ UNCHANGED <<closed, cli>>
    BY <1>1 DEF Reading
  <1> QED
    BY <1>2, <1>6, <1>7, <1>8 DEF d

\* A killed server leaves the beginning of what it had written.
LEMMA KillLeaves ==
    ASSUME TypeOK, ConnInv, WholeInv, ServKilled, stage = "file"
    PROVE  /\ peer \in Client /\ conn[peer] = "open"
           /\ \E n \in 0..Len(File[peer]) :
                  disk' = [disk EXCEPT ![Out[peer]] = SubSeq(File[peer], 1, n)]
           /\ UNCHANGED <<closed, cli>>
  <1>1. PICK n \in 0..Len(disk[filename]) :
            disk' = [disk EXCEPT ![filename] = SubSeq(disk[filename], 1, n)]
    BY DEF ServKilled, ServerKilled
  <1>2. UNCHANGED <<closed, cli>>
    BY DEF ServKilled, ServerKilled, cliVars
  <1>3. PICK t \in Seq(Word) : (disk[filename] \o rbuf) \o t = File[peer]
    BY Landed
  <1>4. /\ peer \in Client /\ conn[peer] = "open" /\ filename = Out[peer]
        /\ disk[filename] \in Seq(Word) /\ rbuf \in Seq(Word)
        /\ disk[filename] \o rbuf \in Seq(Word)
    BY Landed
  <1> DEFINE d == disk[filename]
             dr == d \o rbuf
  <1>5. d \in Seq(Word) /\ rbuf \in Seq(Word) /\ n \in 0..Len(d)
    BY <1>4
  <1>6. dr \in Seq(Word) /\ dr \o t = File[peer]
    BY <1>3, <1>4
  <1> HIDE DEF d
  <1>7. n \in 0..Len(dr) /\ SubSeq(dr, 1, n) = SubSeq(d, 1, n)
    BY <1>5, FirstOfFirst
  <1> HIDE DEF dr
  <1>8. n \in 0..Len(File[peer]) /\ SubSeq(File[peer], 1, n) = SubSeq(dr, 1, n)
    BY <1>6, <1>7, FirstOfFirst
  <1> QED
    BY <1>1, <1>2, <1>4, <1>7, <1>8 DEF d

LEMMA StoredInit == Init => Stored
  BY DEF Init, ServInit, Stored, StoredOf

\* What is not among the lemmas above leaves the disk and the closed connections.
LEMMA ServRestSame ==
    ASSUME \/ \E c \in Client : ServAccept(c)
           \/ ServReads \/ ServUnopened \/ ServNoHeader \/ ServReturns
           \/ ServAcceptErr \/ ServError \/ ServMain
           \/ ServKilled /\ stage # "file"
    PROVE  UNCHANGED <<disk, closed, cli>>
  <1>1. ASSUME NEW c \in Client, ServAccept(c) PROVE UNCHANGED <<disk, closed, cli>>
    BY <1>1 DEF ServAccept, handle_accept, cliVars
  <1>2. CASE ServReads
    BY <1>2 DEF ServReads, read_some, cliVars
  <1>3. CASE ServUnopened
    BY <1>3 DEF ServUnopened, handle_read_request_unopened, cliVars
  <1>4. CASE ServNoHeader
    BY <1>4 DEF ServNoHeader, handle_read_request_eof, cliVars
  <1>5. CASE ServReturns
    BY <1>5 DEF ServReturns, run_returns, servVars, cliVars
  <1>6. CASE ServAcceptErr
    BY <1>6 DEF ServAcceptErr, handle_accept_err, cliVars
  <1>7. CASE ServError
    BY <1>7 DEF ServError, handle_error, cliVars
  <1>8. CASE ServMain
    BY <1>8 DEF ServMain, main, cliVars
  <1>9. CASE ServKilled /\ stage # "file"
    BY <1>9 DEF ServKilled, ServerKilled, cliVars
  <1> QED
    BY <1>1, <1>2, <1>3, <1>4, <1>5, <1>6, <1>7, <1>8, <1>9

\* A client that is done with its file has not been closed before.
LEMMA CliSame ==
    ASSUME TypeOK, ConnInv, NEW c \in Client,
           CliRuns(c) \/ CliStart(c) \/ CliKilled(c)
    PROVE  /\ UNCHANGED <<disk, closed>>
           /\ c \notin closed \/ cli'[c] = cli[c]
           /\ \A d \in Client \ {c} : cli'[d] = cli[d]
           /\ cli[c] = "idle" <=> CliStart(c)
           /\ cli'[c] # "idle"
  <1> USE DEF Running, Ended, Ends, servVars
  <1>1. cli \in [Client -> {"idle"} \union Running \union Ended]
    BY DEF TypeOK, CliTypeOK
  <1>2. c \in closed => cli[c] \in Ended
    BY DEF ConnInv, ConnectionOf
  <1>3. CASE CliStart(c)
    BY <1>1, <1>2, <1>3 DEF CliStart, AsyncTcpClient
  <1>4. CASE CliResolve(c)
    BY <1>1, <1>2, <1>4 DEF CliResolve, handle_resolve, CliStart, AsyncTcpClient
  <1>5. CASE CliConnect(c)
    BY <1>1, <1>2, <1>5 DEF CliConnect, handle_connect, CliStart, AsyncTcpClient
  <1>6. CASE CliConnectErr(c)
    BY <1>1, <1>2, <1>6 DEF CliConnectErr, handle_connect_err, CliStart, AsyncTcpClient
  <1>7. CASE CliWrites(c)
    BY <1>1, <1>2, <1>7 DEF CliWrites, write_some, CliStart, AsyncTcpClient
  <1>8. CASE CliBlock(c)
    BY <1>1, <1>2, <1>8 DEF CliBlock, handle_read_file, Written, CliStart, AsyncTcpClient
  <1>9. CASE CliEnd(c)
    BY <1>1, <1>2, <1>9 DEF CliEnd, handle_read_file_end, Written, CliStart, AsyncTcpClient
  <1>10. CASE CliErr(c)
    BY <1>1, <1>2, <1>10 DEF CliErr, handle_read_file_err, CliStart, AsyncTcpClient
  <1>11. CASE CliKilled(c)
    BY <1>1, <1>2, <1>11 DEF CliKilled, ClientKilled, CliStart, AsyncTcpClient
  <1> QED
    BY <1>3, <1>4, <1>5, <1>6, <1>7, <1>8, <1>9, <1>10, <1>11 DEF CliRuns

LEMMA StoredStep ==
    TypeOK /\ ConnInv /\ WholeInv /\ Stored /\ DisksWork /\ [Next]_vars => Stored'
  <1> SUFFICES ASSUME TypeOK, ConnInv, WholeInv, Stored, DisksWork, [Next]_vars
               PROVE  Stored'
    OBVIOUS
  <1>0. disk \in [Word -> Seq(Word) \union {NULL}]
    BY DEF TypeOK, ServTypeOK
  <1>1. CASE UNCHANGED <<disk, closed, cli>>
    BY <1>1 DEF Stored, StoredOf, Alone
  <1>2. CASE ServBlock
    <2>1. /\ stage = "file" /\ UNCHANGED <<closed, cli>>
          /\ \E n \in 0..Len(File[peer]) :
                  disk' = [disk EXCEPT ![Out[peer]] = SubSeq(File[peer], 1, n)]
      BY <1>2, BlockWrites
    <2> QED
      BY <1>0, <2>1, OthersFile
  <1>3. CASE ServRequest
    <2>1. /\ stage = "head" /\ UNCHANGED <<closed, cli>>
          /\ disk' = [disk EXCEPT ![Out[peer]] = SubSeq(File[peer], 1, 0)]
      BY <1>3, RequestEmpties
    <2> QED
      BY <1>0, <2>1, OthersFile
  <1>4. CASE ServKilled /\ stage = "file"
    <2>1. /\ UNCHANGED <<closed, cli>>
          /\ \E n \in 0..Len(File[peer]) :
                  disk' = [disk EXCEPT ![Out[peer]] = SubSeq(File[peer], 1, n)]
      BY <1>4, KillLeaves
    <2> QED
      BY <1>0, <1>4, <2>1, OthersFile
  <1>5. CASE ServEof
    <2>1. /\ peer \in Client /\ conn[peer] = "open" /\ closed' = closed \union {peer}
          /\ \E n \in 0..Len(File[peer]) :
                  disk' = [disk EXCEPT ![Out[peer]] = SubSeq(File[peer], 1, n)]
          /\ cli[peer] = "sent" => disk' = [disk EXCEPT ![Out[peer]] = File[peer]]
          /\ UNCHANGED cli
      BY <1>5, EofWrites DEF cliVars
    <2>2. ASSUME NEW c \in Client, c \in closed', cli[c] = "sent", Alone(c)
          PROVE  disk'[Out[c]] = File[c]
      <3>1. Out[c] \in Word
        BY StreamType
      <3>2. CASE c = peer
        BY <1>0, <2>1, <2>2, <3>1, <3>2
      <3>3. CASE c # peer
        <4>1. Out[peer] # Out[c]
          BY <2>1, <2>2, <3>3 DEF Alone
        <4>2. disk[Out[c]] = File[c]
          BY <2>1, <2>2, <3>3 DEF Stored, StoredOf
        <4> QED
          BY <1>0, <2>1, <3>1, <4>1, <4>2
      <3> QED
        BY <3>2, <3>3
    <2> QED
      BY <2>1, <2>2 DEF Stored, StoredOf, Alone
  <1>6. ASSUME NEW c \in Client, CliRuns(c) \/ CliStart(c) \/ CliKilled(c)
        PROVE  Stored'
    BY <1>6, CliSame DEF Stored, StoredOf, Alone
  <1>7. CASE UNCHANGED vars
    BY <1>1, <1>7 DEF vars, servVars, cliVars
  <1>8. CASE Next
    BY <1>1, <1>2, <1>3, <1>4, <1>5, <1>6, <1>8, ServRestSame DEF Next, ServRuns
  <1> QED
    BY <1>7, <1>8

\* If both disks work, a file whose client has read it to its end and whose
\* connection the server has closed at eof lies whole on the server's disk, and
\* stays there as long as nobody sends another of that name.
THEOREM EofStored == Spec => [](DisksWork => EofMeansStored)
  <1>1. CASE ~DisksWork
    <2>1. DisksWork => EofMeansStored
      BY <1>1
    <2> QED
      BY <2>1, PTL
  <1>2. CASE DisksWork
    <2>1. TypeOK /\ ConnInv /\ WholeInv /\ Stored /\ [Next]_vars => WholeInv' /\ Stored'
      BY <1>2, WholeStep, StoredStep DEF DisksWork
    <2>2. TypeOK /\ Stored => (DisksWork => EofMeansStored)
      BY DEF Stored, StoredOf, Alone, EofMeansStored, TypeOK, ServTypeOK
    <2> QED
      BY <2>1, <2>2, TypeInit, TypeStep, ConnInit, ConnStep, WholeInit, StoredInit, PTL
      DEF Spec
  <1> QED
    BY <1>1, <1>2

-------------------------------------------------------------------------------
(* The programs implement the transfer. *)

\* What begun and written stand for.
Begun == {c \in Client : cli[c] # "idle"}

Whole == {c \in closed : cli[c] = "sent"}

LEMMA TransferInit == Init => FT!Init
  BY DEF Init, ServInit, CliInit, FT!Init

\* The beginnings of a file are among what a failed write can leave of it, and the
\* whole file is what another one stores.
LEMMA Beginnings ==
    ASSUME NEW c \in Client
    PROVE  /\ \A n \in 0..Len(File[c]) : SubSeq(File[c], 1, n) \in FT!Remains(c)
           /\ Len(File[c]) \in 0..Len(File[c])
           /\ SubSeq(File[c], 1, Len(File[c])) = File[c]
  <1>1. File[c] \in Seq(Word) /\ Len(File[c]) \in Nat
    BY LinkAssumption, LenProperties
  <1>2. \A n \in 0..Len(File[c]) : SubSeq(File[c], 1, n) \in FT!Remains(c)
    BY DEF FT!Remains
  <1> QED
    BY <1>1, <1>2, SubSeqFull

\* A part of the file of the client that is served.
LEMMA PartSpoils ==
    ASSUME TypeOK, ConnInv, peer \in Client, conn[peer] = "open",
           NEW n \in 0..Len(File[peer]),
           disk' = [disk EXCEPT ![Out[peer]] = SubSeq(File[peer], 1, n)],
           Whole' = Whole, UNCHANGED cli
    PROVE  FT!Next
  <1>1. peer \in Begun \ Whole
    BY DEF ConnInv, ConnectionOf, Begun, Whole
  <1>2. Begun' = Begun
    BY DEF Begun
  <1>3. FT!Spoil(peer)
    BY <1>1, <1>2, Beginnings DEF FT!Spoil, Begun, Whole
  <1> QED
    BY <1>3 DEF FT!Next

\* A step that FileTransfer does not see.
Same == Begun' = Begun /\ Whole' = Whole /\ UNCHANGED disk

LEMMA TransferStep ==
    TypeOK /\ ConnInv /\ WholeInv /\ DisksWork /\ [Next]_vars => [FT!Next]_(FT!ftVars)
  <1> SUFFICES ASSUME TypeOK, ConnInv, WholeInv, DisksWork, [Next]_vars
               PROVE  FT!Next \/ Same
    BY DEF Same, FT!ftVars, Begun, Whole
  <1>1. CASE UNCHANGED <<disk, closed, cli>>
    BY <1>1 DEF Same, Begun, Whole
  <1>2. CASE ServBlock
    <2>1. /\ peer \in Client /\ conn[peer] = "open" /\ UNCHANGED <<closed, cli>>
          /\ \E n \in 0..Len(File[peer]) :
                  disk' = [disk EXCEPT ![Out[peer]] = SubSeq(File[peer], 1, n)]
      BY <1>2, BlockWrites
    <2> QED
      BY <2>1, PartSpoils DEF Whole
  <1>3. CASE ServRequest
    <2>1. /\ peer \in Client /\ conn[peer] = "open" /\ UNCHANGED <<closed, cli>>
          /\ 0 \in 0..Len(File[peer])
          /\ disk' = [disk EXCEPT ![Out[peer]] = SubSeq(File[peer], 1, 0)]
      BY <1>3, RequestEmpties
    <2> QED
      BY <2>1, PartSpoils DEF Whole
  <1>4. CASE ServKilled /\ stage = "file"
    <2>1. /\ peer \in Client /\ conn[peer] = "open" /\ UNCHANGED <<closed, cli>>
          /\ \E n \in 0..Len(File[peer]) :
                  disk' = [disk EXCEPT ![Out[peer]] = SubSeq(File[peer], 1, n)]
      BY <1>4, KillLeaves
    <2> QED
      BY <2>1, PartSpoils DEF Whole
  <1>5. CASE ServEof
    <2>1. /\ peer \in Client /\ conn[peer] = "open" /\ closed' = closed \union {peer}
          /\ \E n \in 0..Len(File[peer]) :
                  disk' = [disk EXCEPT ![Out[peer]] = SubSeq(File[peer], 1, n)]
          /\ cli[peer] = "sent" => disk' = [disk EXCEPT ![Out[peer]] = File[peer]]
          /\ UNCHANGED cli
      BY <1>5, EofWrites DEF cliVars
    <2>2. CASE cli[peer] = "sent"
      <3>1. Whole' = Whole \union {peer} /\ Begun' = Begun
        BY <2>1, <2>2 DEF Whole, Begun
      <3>2. peer \in Begun \ Whole
        BY <2>1 DEF ConnInv, ConnectionOf, Begun, Whole
      <3>3. PICK c \in Client : c = peer
        BY <2>1
      <3>4. FT!Write(c)
        BY <2>1, <2>2, <3>1, <3>2, <3>3, Beginnings DEF FT!Write, Begun, Whole
      <3> QED
        BY <3>4 DEF FT!Next
    <2>3. CASE cli[peer] # "sent"
      <3>1. Whole' = Whole
        BY <2>1, <2>3 DEF Whole
      <3> QED
        BY <2>1, <3>1, PartSpoils
    <2> QED
      BY <2>2, <2>3
  <1>6. ASSUME NEW c \in Client, CliRuns(c) \/ CliStart(c) \/ CliKilled(c)
        PROVE  FT!Next \/ Same
    <2>1. /\ UNCHANGED <<disk, closed>>
          /\ c \notin closed \/ cli'[c] = cli[c]
          /\ \A d \in Client \ {c} : cli'[d] = cli[d]
          /\ cli[c] = "idle" <=> CliStart(c)
          /\ cli'[c] # "idle"
      BY <1>6, CliSame
    <2>2. Whole' = Whole
      BY <2>1 DEF Whole, TypeOK, ServTypeOK
    <2>3. CASE CliStart(c)
      <3>1. c \notin Begun /\ Begun' = Begun \union {c}
        BY <2>1, <2>3 DEF Begun
      <3>2. FT!Begin(c)
        BY <2>1, <2>2, <3>1 DEF FT!Begin, Begun, Whole
      <3> QED
        BY <3>2 DEF FT!Next
    <2>4. CASE ~CliStart(c)
      <3>1. Begun' = Begun
        BY <2>1, <2>4 DEF Begun
      <3> QED
        BY <2>1, <2>2, <3>1 DEF Same
    <2> QED
      BY <2>3, <2>4
  <1>7. CASE UNCHANGED vars
    BY <1>1, <1>7 DEF vars, servVars, cliVars
  <1>8. CASE Next
    BY <1>1, <1>2, <1>3, <1>4, <1>5, <1>6, <1>8, ServRestSame DEF Next, ServRuns
  <1> QED
    BY <1>7, <1>8

\* If both disks work, every behaviour of the two programs, with their partial reads
\* and writes, kills and restarts, is one of FileTransfer's.
THEOREM AsioImplements == Spec => (DisksWork => Transfer)
  <1>1. CASE ~DisksWork
    BY <1>1
  <1>2. CASE DisksWork
    <2>1. TypeOK /\ ConnInv /\ WholeInv /\ [Next]_vars => WholeInv'
      BY <1>2, WholeStep DEF DisksWork
    <2>2. TypeOK /\ ConnInv /\ WholeInv /\ [Next]_vars => [FT!Next]_(FT!ftVars)
      BY <1>2, TransferStep
    <2> QED
      BY <2>1, <2>2, TypeInit, TypeStep, ConnInit, ConnStep, WholeInit, TransferInit, PTL
      DEF Spec, Transfer, FT!Spec
  <1> QED
    BY <1>1, <1>2

===============================================================================
