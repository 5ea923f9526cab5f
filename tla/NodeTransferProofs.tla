-------------------------- MODULE NodeTransferProofs --------------------------
(***************************************************************************)
(* Theorems about NodeTransfer, for every set of clients, files of any     *)
(* length and any number of faults.                                        *)
(***************************************************************************)
EXTENDS NodeTransfer, SequenceFacts, FiniteSetTheorems

-------------------------------------------------------------------------------
(* The connections. *)

\* What the server's side of c's connection says of c and of the words sent to it.
ConnOf(c) ==
    /\ cli[c] = "idle" => conn[c] = "none"
    /\ conn[c] \in {"none", "open", "read", "readfin"} => size[c] = 0 /\ down[c] = 0
    /\ conn[c] = "readfin" => cli[c] = "dead"
    /\ c \in ended => conn[c] \in {"wrote", "closed", "gone"}
    /\ conn[c] = "wrote" => Size[c] \in Nat /\ size[c] + down[c] = Size[c]
    /\ conn[c] = "closed" /\ cli[c] # "dead" =>
           Size[c] \in Nat /\ size[c] + down[c] = Size[c]
    /\ cli[c] \in {"closed", "exit"} =>
           conn[c] = "gone" \/ (conn[c] = "closed" /\ down[c] = 0)
    /\ cli[c] = "exit" => pending[c] = {}

ConnInv == \A c \in Client : ConnOf(c)

Inv == TypeOK /\ ConnInv /\ ThrownForBadClients

LEMMA InitConn == Init => Inv
  BY NodeAssumption
  DEF Init, Inv, TypeOK, ConnInv, ConnOf, ThrownForBadClients, CliStage, ConnStage

\* The client's steps, one by one.
LEMMA CliKeepsConn ==
    ASSUME Inv, NEW c \in Client,
           \/ Connect(c) \/ Refused(c) \/ on_connect(c) \/ on_end(c) \/ Exit(c)
           \/ Reset(c) \/ CliKilled(c)
    PROVE  Inv'
  <1> USE NodeAssumption DEF Inv, TypeOK, ConnInv, ConnOf, ThrownForBadClients, CliStage,
          ConnStage, fileVars, Fault
  <1>1. CASE Connect(c)
    BY <1>1 DEF Connect
  <1>2. CASE Refused(c)
    BY <1>2 DEF Refused
  <1>3. CASE on_connect(c)
    BY <1>3 DEF on_connect
  <1>4. CASE on_end(c)
    BY <1>4 DEF on_end
  <1>5. CASE Exit(c)
    BY <1>5 DEF Exit
  <1>6. CASE Reset(c)
    BY <1>6 DEF Reset
  <1>7. CASE CliKilled(c)
    BY <1>7 DEF CliKilled
  <1> QED
    BY <1>1, <1>2, <1>3, <1>4, <1>5, <1>6, <1>7

\* The server's steps: a connection that is not "none" never becomes so again.
LEMMA ServKeepsConn ==
    ASSUME Inv, NEW c \in Client,
           on_data(c) \/ on_file(c) \/ on_file_throws(c) \/ on_end_serv(c) \/ on_error(c)
    PROVE  Inv'
  <1> USE NodeAssumption DEF Inv, TypeOK, ConnInv, ConnOf, ThrownForBadClients, CliStage,
          ConnStage, fileVars, ProcessEnds
  <1>1. CASE on_data(c)
    BY <1>1 DEF on_data
  <1>2. CASE on_file(c)
    BY <1>2 DEF on_file
  <1>3. CASE on_file_throws(c)
    BY <1>3 DEF on_file_throws
  <1>4. CASE on_end_serv(c)
    <2>1. CASE conn[c] = "read"
      BY <1>4, <2>1, ZenonT(40) DEF on_end_serv
    <2>2. CASE conn[c] # "read"
      <3>1. /\ conn[c] = "wrote" \/ (conn[c] = "open" /\ cli[c] = "dead")
            /\ conn' = [conn EXCEPT ![c] = "closed"]
            /\ UNCHANGED <<serv, cli, ended, down, fileVars, faults>>
        BY <1>4, <2>2 DEF on_end_serv
      <3>2. TypeOK'
        BY <3>1
      <3>3. ConnInv'
        BY <3>1
      <3>4. ThrownForBadClients'
        BY <3>1
      <3> QED
        BY <3>2, <3>3, <3>4
    <2> QED
      BY <2>1, <2>2
  <1>5. CASE on_error(c)
    BY <1>5 DEF on_error
  <1> QED
    BY <1>1, <1>2, <1>3, <1>4, <1>5

LEMMA ProcessKeepsConn ==
    ASSUME Inv, ServKilled \/ main \/ UNCHANGED vars
    PROVE  Inv'
  <1> USE NodeAssumption DEF Inv, TypeOK, ConnInv, ConnOf, ThrownForBadClients, CliStage,
          ConnStage, fileVars, Fault, ProcessEnds
  <1>1. CASE ServKilled
    BY <1>1 DEF ServKilled
  <1>2. CASE main
    BY <1>2 DEF main
  <1>3. CASE UNCHANGED vars
    BY <1>3 DEF vars
  <1> QED
    BY <1>1, <1>2, <1>3

\* What a data event with n words changes.
LEMMA DataEvent ==
    ASSUME Inv, NEW c \in Client, NEW n \in 1..down[c],
           on_data_cli(c),
           down' = [down EXCEPT ![c] = @ - n],
           size' = [size EXCEPT ![c] = @ + n],
           pending' = [pending EXCEPT ![c] = @ \union {[a |-> size[c] + 1, b |-> size[c] + n]}]
    PROVE  Inv'
  <1>1. /\ down[c] \in Nat /\ size[c] \in Nat /\ n \in Nat \ {0} /\ n <= down[c]
        /\ pending[c] \in SUBSET Chunk
    BY DEF Inv, TypeOK
  <1>2. /\ cli[c] = "open"
        /\ raced' \in {raced, raced \union {c}}
        /\ ended' = ended \union {c}
        /\ UNCHANGED <<serv, cli, conn, out, faults>>
    BY DEF on_data_cli
  <1>3. pending[c] \union {[a |-> size[c] + 1, b |-> size[c] + n]} \in SUBSET Chunk
    BY <1>1 DEF Chunk
  <1>4. conn[c] \in {"wrote", "closed", "gone"}
    <2>1. down[c] # 0
      BY <1>1
    <2>2. conn[c] \in ConnStage
      BY DEF Inv, TypeOK
    <2>3. ConnOf(c)
      BY DEF Inv, ConnInv
    <2> QED
      BY <2>1, <2>2, <2>3 DEF ConnOf, ConnStage
  <1>5. TypeOK'
    BY <1>1, <1>2, <1>3 DEF Inv, TypeOK
  <1>6. ConnInv'
    BY <1>1, <1>2, <1>4 DEF Inv, TypeOK, ConnInv, ConnOf
  <1>7. ThrownForBadClients'
    BY <1>2 DEF Inv, ThrownForBadClients
  <1> QED
    BY <1>5, <1>6, <1>7 DEF Inv

LEMMA WordsIsSeq ==
    ASSUME NEW ch \in Chunk
    PROVE  /\ Words(ch) \in Seq(Nat)
           /\ ch.a <= ch.b => Len(Words(ch)) = ch.b - ch.a + 1
           /\ \A i \in 1..(ch.b - ch.a + 1) : Words(ch)[i] = ch.a + i - 1
  <1>1. ch.a \in Nat \ {0} /\ ch.b \in Nat
    BY DEF Chunk
  <1>2. CASE ch.a <= ch.b
    <2> DEFINE n == ch.b - ch.a + 1
    <2>1. n \in Nat
      BY <1>1, <1>2
    <2>2. \A i \in 1..n : ch.a + i - 1 \in Nat
      BY <1>1, <1>2
    <2>3. Words(ch) \in [1..n -> Nat]
      BY <2>2 DEF Words
    <2> QED
      BY <2>1, <2>3, SMT DEF Words
  <1>3. CASE ~(ch.a <= ch.b)
    <2>1. 1..(ch.b - ch.a + 1) = 1..0
      BY <1>1, <1>3
    <2>2. Words(ch) \in [1..0 -> Nat]
      BY <2>1 DEF Words
    <2>3. Words(ch) \in Seq(Nat)
      BY <2>2
    <2> QED
      BY <1>1, <1>3, <2>1, <2>3
  <1> QED
    BY <1>2, <1>3, <1>1

\* appendFile adds the words of its call behind those that are there.
LEMMA AppendFacts ==
    ASSUME NEW s \in Seq(Nat), NEW ch \in Chunk
    PROVE  /\ AppendTo(s, ch) \in Seq(Nat)
           /\ Len(s) \in Nat
           /\ ch.a <= ch.b => Len(AppendTo(s, ch)) = Len(s) + (ch.b - ch.a + 1)
           /\ \A i \in 1..Len(s) : AppendTo(s, ch)[i] = s[i]
           /\ ch.a <= ch.b => \A i \in 1..(ch.b - ch.a + 1) :
                  AppendTo(s, ch)[Len(s) + i] = ch.a + i - 1
  <1>1. Words(ch) \in Seq(Nat)
    BY WordsIsSeq
  <1>2. /\ s \o Words(ch) \in Seq(Nat)
        /\ Len(s \o Words(ch)) = Len(s) + Len(Words(ch))
        /\ Len(s) \in Nat
        /\ \A i \in 1..Len(s) : (s \o Words(ch))[i] = s[i]
        /\ \A i \in 1..Len(Words(ch)) : (s \o Words(ch))[Len(s) + i] = Words(ch)[i]
    BY <1>1, ConcatParts
  <1> DEFINE w == Words(ch)
             u == s \o w
  <1>3. /\ ch.a <= ch.b => Len(w) = ch.b - ch.a + 1
        /\ \A i \in 1..(ch.b - ch.a + 1) : w[i] = ch.a + i - 1
    BY WordsIsSeq
  <1>4. /\ u \in Seq(Nat) /\ Len(u) = Len(s) + Len(w) /\ Len(s) \in Nat
        /\ \A i \in 1..Len(s) : u[i] = s[i]
        /\ \A i \in 1..Len(w) : u[Len(s) + i] = w[i]
    BY <1>2
  <1>5. AppendTo(s, ch) = u
    BY DEF AppendTo
  <1> HIDE DEF w, u
  <1> QED
    BY <1>3, <1>4, <1>5

\* A call of appendFile is carried out.
LEMMA AppendKeepsConn ==
    ASSUME Inv, NEW c \in Client, appendFile(c)
    PROVE  Inv'
  <1>1. PICK ch \in pending[c] :
            /\ out' = [out EXCEPT ![c] = AppendTo(@, ch)]
            /\ pending' = [pending EXCEPT ![c] = @ \ {ch}]
    BY DEF appendFile
  <1>2. /\ cli[c] \in {"open", "closed"}
        /\ UNCHANGED <<serv, cli, ended, conn, down, size, raced, faults>>
    BY DEF appendFile
  <1>3. ch \in Chunk /\ out[c] \in Seq(Nat)
    BY DEF Inv, TypeOK
  <1>4. AppendTo(out[c], ch) \in Seq(Nat)
    BY <1>3, AppendFacts
  <1>5. TypeOK'
    BY <1>1, <1>2, <1>4 DEF Inv, TypeOK
  <1>6. ConnInv'
    BY <1>1, <1>2 DEF Inv, TypeOK, ConnInv, ConnOf
  <1>7. ThrownForBadClients'
    BY <1>2 DEF Inv, ThrownForBadClients
  <1> QED
    BY <1>5, <1>6, <1>7 DEF Inv

LEMMA StepKeepsConn == Inv /\ [Next]_vars => Inv'
  <1> SUFFICES ASSUME Inv, [Next]_vars
               PROVE  Inv'
    OBVIOUS
  <1>1. CASE ServKilled \/ main \/ UNCHANGED vars
    BY <1>1, ProcessKeepsConn
  <1>2. ASSUME NEW c \in Client,
               \/ Connect(c) \/ Refused(c) \/ CliStep(c) \/ appendFile(c) \/ CliKilled(c)
               \/ ServStep(c) \/ on_error(c)
        PROVE  Inv'
    <2>1. CASE on_data_cli(c)
      <3>1. PICK n \in 1..down[c] :
                /\ down' = [down EXCEPT ![c] = @ - n]
                /\ size' = [size EXCEPT ![c] = @ + n]
                /\ pending' = [pending EXCEPT ![c] =
                                  @ \union {[a |-> size[c] + 1, b |-> size[c] + n]}]
        BY <2>1 DEF on_data_cli
      <3> QED
        BY <2>1, <3>1, DataEvent
    <2>2. CASE appendFile(c)
      BY <2>2, AppendKeepsConn
    <2> QED
      BY <1>2, <2>1, <2>2, CliKeepsConn, ServKeepsConn DEF CliStep, ServStep
  <1> QED
    BY <1>1, <1>2 DEF Next

LEMMA ConnInvariant == Spec => []Inv
  BY InitConn, StepKeepsConn, PTL DEF Spec

\* Every variable keeps its type, and no connection carries more words than the file has.
THEOREM TypeCorrect == Spec => []TypeOK
  <1>1. Inv => TypeOK
    BY DEF Inv
  <1> QED
    BY <1>1, ConnInvariant, PTL

\* The server's process ends by an error only for a client that asks for a file which is
\* not there, or that has died.  A client ends its side when the first chunk is there:
\* the server has then written the file, and its callback has nothing left to throw.
THEOREM OnlyBadClientsThrow == Spec => []ThrownForBadClients
  <1>1. Inv => ThrownForBadClients
    BY DEF Inv
  <1> QED
    BY <1>1, ConnInvariant, PTL

-------------------------------------------------------------------------------
(* The words of a file. *)

\* The calls under way have words that data events have brought, each word in one call.
CallsOf(c) ==
    /\ \A ch \in pending[c] : ch.a <= ch.b /\ ch.b <= size[c]
    /\ \A ch1, ch2 \in pending[c] : ch1 = ch2 \/ ch1.b < ch2.a \/ ch2.b < ch1.a

OnceOf(c) ==
    /\ Len(out[c]) = Cardinality(InFile(c))
    /\ InFile(c) \intersect OnTheWay(c) = {}
    /\ InFile(c) \union OnTheWay(c) = 1..size[c]

\* As long as there was never more than one call, it is that of the last data event, and
\* the file has all before it.
OrderOf(c) ==
    c \notin raced =>
        /\ \A i \in 1..Len(out[c]) : out[c][i] = i
        /\ \/ pending[c] = {} /\ Len(out[c]) = size[c]
           \/ pending[c] = {[a |-> Len(out[c]) + 1, b |-> size[c]]}

WordsOf(c) == CallsOf(c) /\ OnceOf(c) /\ OrderOf(c)

WordsInv == \A c \in Client : WordsOf(c)

LEMMA InitWords == Init => WordsInv
  <1> SUFFICES ASSUME Init, NEW c \in Client
               PROVE  WordsOf(c)
    BY DEF WordsInv
  <1>1. out[c] = <<>> /\ pending[c] = {} /\ size[c] = 0
    BY DEF Init
  <1>2. Len(out[c]) = 0
    BY <1>1
  <1>3. InFile(c) = {}
    BY <1>2 DEF InFile
  <1>4. OnTheWay(c) = {}
    BY <1>1 DEF OnTheWay
  <1>5. Cardinality({}) = 0
    BY FS_EmptySet
  <1> QED
    BY <1>1, <1>2, <1>3, <1>4, <1>5 DEF WordsOf, CallsOf, OnceOf, OrderOf

\* Steps that leave a client's file alone.
LEMMA FileUntouched ==
    ASSUME WordsInv, NEW c \in Client,
           /\ size'[c] = size[c] /\ pending'[c] = pending[c] /\ out'[c] = out[c]
           /\ c \in raced' <=> c \in raced
    PROVE  WordsOf(c)'
  <1>1. InFile(c)' = InFile(c) /\ OnTheWay(c)' = OnTheWay(c)
    BY DEF InFile, OnTheWay
  <1>2. WordsOf(c)
    BY DEF WordsInv
  <1>3. CallsOf(c)'
    BY <1>2 DEF WordsOf, CallsOf
  <1>4. OnceOf(c)'
    BY <1>1, <1>2 DEF WordsOf, OnceOf
  <1>5. OrderOf(c)'
    BY <1>2 DEF WordsOf, OrderOf
  <1> QED
    BY <1>3, <1>4, <1>5 DEF WordsOf

\* A data event starts a call with words that are new.
LEMMA DataEventWords ==
    ASSUME TypeOK, WordsInv, NEW c \in Client, NEW n \in 1..down[c],
           on_data_cli(c),
           size' = [size EXCEPT ![c] = @ + n],
           pending' = [pending EXCEPT ![c] = @ \union {[a |-> size[c] + 1, b |-> size[c] + n]}]
    PROVE  WordsInv'
  <1> DEFINE new == [a |-> size[c] + 1, b |-> size[c] + n]
  <1>1. /\ size[c] \in Nat /\ n \in Nat \ {0}
        /\ pending[c] \in SUBSET Chunk
        /\ out[c] \in Seq(Nat)
        /\ Len(out[c]) \in Nat
        /\ WordsOf(c)
    BY LenProperties DEF TypeOK, WordsInv
  <1>2. /\ size'[c] = size[c] + n
        /\ pending'[c] = pending[c] \union {new}
        /\ out' = out
        /\ raced' = IF pending[c] = {} THEN raced ELSE raced \union {c}
    BY DEF on_data_cli, TypeOK
  <1>3. InFile(c)' = InFile(c)
    BY <1>2 DEF InFile
  <1>4. OnTheWay(c)' = OnTheWay(c) \union ((size[c] + 1)..(size[c] + n))
    <2>1. new.a..new.b = (size[c] + 1)..(size[c] + n)
      OBVIOUS
    <2> HIDE DEF new
    <2>2. OnTheWay(c)' = UNION {ch.a..ch.b : ch \in pending[c] \union {new}}
      BY <1>2 DEF OnTheWay
    <2>3. UNION {ch.a..ch.b : ch \in pending[c] \union {new}}
              = (UNION {ch.a..ch.b : ch \in pending[c]}) \union (new.a..new.b)
      OBVIOUS
    <2> QED
      BY <2>1, <2>2, <2>3 DEF OnTheWay
  <1>5. CallsOf(c)'
    <2>1. \A ch \in pending[c] : /\ ch.a \in Nat /\ ch.b \in Nat
                                 /\ ch.a <= ch.b /\ ch.b <= size[c]
      BY <1>1 DEF WordsOf, CallsOf, Chunk
    <2>2. new.a = size[c] + 1 /\ new.b = size[c] + n
      OBVIOUS
    <2>3. \A ch \in pending'[c] : ch.a <= ch.b /\ ch.b <= size'[c]
      BY <1>1, <1>2, <2>1, <2>2
    <2>4. \A ch \in pending[c] : ch.b < new.a
      BY <1>1, <2>1, <2>2
    <2>5. \A ch1, ch2 \in pending[c] : ch1 = ch2 \/ ch1.b < ch2.a \/ ch2.b < ch1.a
      BY <1>1 DEF WordsOf, CallsOf
    <2> HIDE DEF new
    <2>6. \A ch1, ch2 \in pending'[c] : ch1 = ch2 \/ ch1.b < ch2.a \/ ch2.b < ch1.a
      BY <1>2, <2>4, <2>5
    <2> QED
      BY <2>3, <2>6 DEF CallsOf
  <1>6. OnceOf(c)'
    <2>1. /\ Len(out[c]) = Cardinality(InFile(c))
          /\ InFile(c) \intersect OnTheWay(c) = {}
          /\ InFile(c) \union OnTheWay(c) = 1..size[c]
      BY <1>1 DEF WordsOf, OnceOf
    <2>2. 1..(size[c] + n) = (1..size[c]) \union ((size[c] + 1)..(size[c] + n))
      BY <1>1
    <2>3. (1..size[c]) \intersect ((size[c] + 1)..(size[c] + n)) = {}
      BY <1>1
    <2> QED
      BY <1>2, <1>3, <1>4, <2>1, <2>2, <2>3 DEF OnceOf
  <1>7. OrderOf(c)'
    <2>1. CASE pending[c] = {}
      <3>1. c \in raced' <=> c \in raced
        BY <1>2, <2>1
      <3>2. c \notin raced => /\ \A i \in 1..Len(out[c]) : out[c][i] = i
                             /\ Len(out[c]) = size[c]
        BY <1>1, <2>1 DEF WordsOf, OrderOf
      <3>3. c \notin raced => new = [a |-> Len(out[c]) + 1, b |-> size'[c]]
        BY <1>2, <3>2
      <3>4. pending'[c] = {new}
        BY <1>2, <2>1
      <3> QED
        BY <1>2, <3>1, <3>2, <3>3, <3>4 DEF OrderOf
    <2>2. CASE pending[c] # {}
      BY <1>2, <2>2 DEF OrderOf
    <2> QED
      BY <2>1, <2>2
  <1>8. ASSUME NEW d \in Client, d # c
        PROVE  WordsOf(d)'
    <2>1. /\ size'[d] = size[d] /\ pending'[d] = pending[d] /\ out'[d] = out[d]
          /\ d \in raced' <=> d \in raced
      BY <1>2, <1>8 DEF TypeOK
    <2> QED
      BY <2>1, FileUntouched
  <1> QED
    BY <1>5, <1>6, <1>7, <1>8 DEF WordsInv, WordsOf

\* A call moves its words from those that are under way to those in the file.
LEMMA AppendWords ==
    ASSUME TypeOK, WordsInv, NEW c \in Client, NEW ch \in pending[c],
           out' = [out EXCEPT ![c] = AppendTo(@, ch)],
           pending' = [pending EXCEPT ![c] = @ \ {ch}],
           UNCHANGED <<size, raced>>
    PROVE  WordsInv'
  <1> DEFINE new == AppendTo(out[c], ch)
             k == ch.b - ch.a + 1
  <1>1. /\ ch \in Chunk /\ out[c] \in Seq(Nat)
        /\ pending[c] \in SUBSET Chunk
        /\ size[c] \in Nat
        /\ WordsOf(c)
    BY DEF TypeOK, WordsInv
  <1>2. /\ ch.a \in Nat \ {0} /\ ch.b \in Nat
        /\ ch.a <= ch.b /\ ch.b <= size[c]
    BY <1>1 DEF Chunk, WordsOf, CallsOf
  <1>3. /\ out'[c] = new
        /\ pending'[c] = pending[c] \ {ch}
        /\ size'[c] = size[c]
    BY DEF TypeOK
  <1>4. /\ new \in Seq(Nat)
        /\ Len(out[c]) \in Nat
        /\ Len(new) = Len(out[c]) + k
        /\ \A i \in 1..Len(out[c]) : new[i] = out[c][i]
        /\ \A i \in 1..k : new[Len(out[c]) + i] = ch.a + i - 1
    BY <1>1, <1>2, AppendFacts
  <1> HIDE DEF new
  <1>5. k \in Nat \ {0}
    BY <1>2
  <1>6. InFile(c)' = InFile(c) \union (ch.a..ch.b)
    <2>1. InFile(c)' = {new[i] : i \in 1..Len(new)}
      BY <1>3 DEF InFile
    <2>2. ASSUME NEW x \in {new[i] : i \in 1..Len(new)}
          PROVE  x \in InFile(c) \union (ch.a..ch.b)
      <3>1. PICK i \in 1..Len(new) : x = new[i]
        OBVIOUS
      <3>2. CASE i <= Len(out[c])
        <4>1. i \in 1..Len(out[c])
          BY <1>4, <1>5, <3>1, <3>2
        <4> QED
          BY <1>4, <3>1, <4>1 DEF InFile
      <3>3. CASE ~(i <= Len(out[c]))
        <4>1. i - Len(out[c]) \in 1..k /\ Len(out[c]) + (i - Len(out[c])) = i
          BY <1>4, <1>5, <3>1, <3>3
        <4>2. x = ch.a + (i - Len(out[c])) - 1
          BY <1>4, <3>1, <4>1
        <4>3. \A j \in 1..k : ch.a + j - 1 \in ch.a..ch.b
          BY ONLY <1>2
        <4> QED
          BY ONLY <4>1, <4>2, <4>3
      <3> QED
        BY <3>2, <3>3
    <2>3. ASSUME NEW x \in InFile(c)
          PROVE  x \in {new[i] : i \in 1..Len(new)}
      <3>1. PICK i \in 1..Len(out[c]) : x = out[c][i]
        BY DEF InFile
      <3>2. i \in 1..Len(new)
        BY <1>4, <1>5
      <3> QED
        BY <1>4, <3>1, <3>2
    <2>4. ASSUME NEW x \in ch.a..ch.b
          PROVE  x \in {new[i] : i \in 1..Len(new)}
      <3>1. x - ch.a + 1 \in 1..k /\ ch.a + (x - ch.a + 1) - 1 = x
        BY <1>2
      <3>2. Len(out[c]) + (x - ch.a + 1) \in 1..Len(new)
        <4>1. Len(out[c]) \in Nat /\ Len(new) = Len(out[c]) + k
          BY <1>4
        <4> HIDE DEF k
        <4> QED
          BY ONLY <1>5, <3>1, <4>1
      <3>3. new[Len(out[c]) + (x - ch.a + 1)] = x
        BY <1>4, <3>1
      <3> QED
        BY <3>2, <3>3
    <2> QED
      BY <2>1, <2>2, <2>3, <2>4
  <1>7. /\ OnTheWay(c) = OnTheWay(c)' \union (ch.a..ch.b)
        /\ OnTheWay(c)' \intersect (ch.a..ch.b) = {}
    <2>1. OnTheWay(c)' = UNION {d.a..d.b : d \in pending[c] \ {ch}}
      BY <1>3 DEF OnTheWay
    <2>2. ASSUME NEW d \in pending[c] \ {ch}
          PROVE  (d.a..d.b) \intersect (ch.a..ch.b) = {}
      <3>1. d.a \in Nat /\ d.b \in Nat
        BY <1>1 DEF Chunk
      <3>2. d.b < ch.a \/ ch.b < d.a
        BY <1>1 DEF WordsOf, CallsOf
      <3> QED
        BY <1>2, <3>1, <3>2
    <2> QED
      BY <2>1, <2>2 DEF OnTheWay
  <1>8. OnceOf(c)'
    <2>1. /\ Len(out[c]) = Cardinality(InFile(c))
          /\ InFile(c) \intersect OnTheWay(c) = {}
          /\ InFile(c) \union OnTheWay(c) = 1..size[c]
      BY <1>1 DEF WordsOf, OnceOf
    <2>2. /\ InFile(c)' \intersect OnTheWay(c)' = {}
          /\ InFile(c)' \union OnTheWay(c)' = 1..size[c]
          /\ InFile(c) \intersect (ch.a..ch.b) = {}
      BY <1>6, <1>7, <2>1
    <2>3. IsFiniteSet(InFile(c))
      <3>1. IsFiniteSet(1..size[c])
        BY <1>1, FS_Interval
      <3>2. InFile(c) \in SUBSET (1..size[c])
        BY <2>1
      <3> QED
        BY <3>1, <3>2, FS_Subset
    <2>4. IsFiniteSet(ch.a..ch.b) /\ Cardinality(ch.a..ch.b) = k
      <3>1. ch.a \in Int /\ ch.b \in Int
        BY <1>2
      <3>2. /\ IsFiniteSet(ch.a..ch.b)
            /\ Cardinality(ch.a..ch.b) = IF ch.a > ch.b THEN 0 ELSE ch.b - ch.a + 1
        BY ONLY <3>1, FS_Interval
      <3> QED
        BY <1>2, <3>2
    <2>5. Cardinality(InFile(c) \union (ch.a..ch.b)) =
              Cardinality(InFile(c)) + Cardinality(ch.a..ch.b)
                  - Cardinality(InFile(c) \intersect (ch.a..ch.b))
      BY <2>3, <2>4, FS_Union
    <2>6. Cardinality(InFile(c) \intersect (ch.a..ch.b)) = 0
      BY <2>2, FS_EmptySet
    <2>7. Len(new) = Cardinality(InFile(c)')
      BY <1>4, <1>5, <1>6, <2>1, <2>4, <2>5, <2>6
    <2> QED
      BY <1>3, <2>2, <2>7 DEF OnceOf
  <1>9. CallsOf(c)'
    BY <1>1, <1>3 DEF WordsOf, CallsOf
  <1>10. OrderOf(c)'
    <2> SUFFICES ASSUME c \notin raced
                 PROVE  /\ \A i \in 1..Len(new) : new[i] = i
                        /\ pending[c] \ {ch} = {} /\ Len(new) = size[c]
      BY <1>3 DEF OrderOf
    <2>1. /\ \A i \in 1..Len(out[c]) : out[c][i] = i
          /\ pending[c] = {[a |-> Len(out[c]) + 1, b |-> size[c]]}
      BY <1>1 DEF WordsOf, OrderOf
    <2>2. ch = [a |-> Len(out[c]) + 1, b |-> size[c]]
      BY <2>1
    <2>3. ch.a = Len(out[c]) + 1 /\ ch.b = size[c]
      BY <2>2
    <2>4. Len(new) = size[c]
      BY <1>1, <1>2, <1>4, <2>3
    <2>5. ASSUME NEW i \in 1..Len(new)
          PROVE  new[i] = i
      <3>1. CASE i <= Len(out[c])
        <4>1. i \in 1..Len(out[c])
          BY <1>4, <1>5, <3>1
        <4> QED
          BY <1>4, <2>1, <4>1
      <3>2. CASE ~(i <= Len(out[c]))
        <4>1. i - Len(out[c]) \in 1..k /\ Len(out[c]) + (i - Len(out[c])) = i
          BY <1>4, <1>5, <3>2
        <4>2. new[i] = ch.a + (i - Len(out[c])) - 1
          BY <1>4, <4>1
        <4> QED
          BY <1>4, <2>3, <4>1, <4>2
      <3> QED
        BY <3>1, <3>2
    <2> QED
      BY <2>1, <2>2, <2>4, <2>5
  <1>11. ASSUME NEW d \in Client, d # c
         PROVE  WordsOf(d)'
    <2>1. /\ size'[d] = size[d] /\ pending'[d] = pending[d] /\ out'[d] = out[d]
          /\ d \in raced' <=> d \in raced
      BY <1>11 DEF TypeOK
    <2> QED
      BY <2>1, FileUntouched
  <1> QED
    BY <1>8, <1>9, <1>10, <1>11 DEF WordsInv, WordsOf

LEMMA StepKeepsWords == TypeOK /\ WordsInv /\ [Next]_vars => WordsInv'
  <1> SUFFICES ASSUME TypeOK, WordsInv, [Next]_vars
               PROVE  WordsInv'
    OBVIOUS
  <1>1. CASE UNCHANGED fileVars
    BY <1>1, FileUntouched DEF fileVars, WordsInv
  <1>2. CASE \E c \in Client : on_data_cli(c)
    <2>1. PICK c \in Client : on_data_cli(c)
      BY <1>2
    <2>2. PICK n \in 1..down[c] :
              /\ down' = [down EXCEPT ![c] = @ - n]
              /\ size' = [size EXCEPT ![c] = @ + n]
              /\ pending' = [pending EXCEPT ![c] =
                                @ \union {[a |-> size[c] + 1, b |-> size[c] + n]}]
      BY <2>1 DEF on_data_cli
    <2> QED
      BY <2>1, <2>2, DataEventWords
  <1>3. CASE \E c \in Client : appendFile(c)
    <2>1. PICK c \in Client : appendFile(c)
      BY <1>3
    <2>2. PICK ch \in pending[c] :
              /\ out' = [out EXCEPT ![c] = AppendTo(@, ch)]
              /\ pending' = [pending EXCEPT ![c] = @ \ {ch}]
      BY <2>1 DEF appendFile
    <2>3. UNCHANGED <<size, raced>>
      BY <2>1 DEF appendFile
    <2> QED
      BY <2>2, <2>3, AppendWords
  <1> QED
    BY <1>1, <1>2, <1>3
    DEF Next, vars, CliStep, ServStep, Connect, Refused, on_connect, on_end, Exit, Reset,
        CliKilled, on_data, on_file, on_file_throws, on_end_serv, on_error, ServKilled, main

LEMMA WordsInvariant == Spec => []WordsInv
  BY InitWords, StepKeepsWords, TypeCorrect, PTL DEF Spec

\* Whatever the order in which the pool carries the calls of appendFile out, each word
\* that a data event has brought is in the file once or in one call.
THEOREM WordsOnce == Spec => []EachWordOnce
  <1>1. WordsInv => EachWordOnce
    BY DEF WordsInv, WordsOf, OnceOf, EachWordOnce
  <1> QED
    BY <1>1, WordsInvariant, PTL

\* A client that never had two calls of appendFile under way has the beginning of the
\* file, in order.
THEOREM InOrder == Spec => []InOrderUnlessRaced
  <1>1. WordsInv => InOrderUnlessRaced
    BY DEF WordsInv, WordsOf, OrderOf, InOrderUnlessRaced
  <1> QED
    BY <1>1, WordsInvariant, PTL

\* A client that ends well, while the server's process is the one that served it, has as
\* many words as the file.
THEOREM ExitComplete == Spec => []ExitMeansComplete
  <1>1. Inv /\ WordsInv => ExitMeansComplete
    <2> SUFFICES ASSUME Inv, WordsInv, NEW c \in Client,
                        cli[c] = "exit", conn[c] = "closed"
                 PROVE  Len(out[c]) = Size[c]
      BY DEF ExitMeansComplete
    <2>1. /\ pending[c] = {} /\ down[c] = 0
          /\ Size[c] \in Nat /\ size[c] + down[c] = Size[c]
          /\ size[c] \in Nat
      BY DEF Inv, TypeOK, ConnInv, ConnOf
    <2>2. size[c] = Size[c]
      BY <2>1
    <2>3. OnTheWay(c) = {}
      BY <2>1 DEF OnTheWay
    <2>4. /\ Len(out[c]) = Cardinality(InFile(c))
          /\ InFile(c) = 1..size[c]
      BY <2>3 DEF WordsInv, WordsOf, OnceOf
    <2>5. Cardinality(1..size[c]) = size[c]
      <3>1. 1 \in Int /\ size[c] \in Int
        BY <2>1
      <3>2. Cardinality(1..size[c]) = IF 1 > size[c] THEN 0 ELSE size[c] - 1 + 1
        BY ONLY <3>1, FS_Interval
      <3> QED
        BY <2>1, <3>2
    <2> QED
      BY <2>2, <2>4, <2>5
  <1> QED
    BY <1>1, ConnInvariant, WordsInvariant, PTL

===============================================================================
