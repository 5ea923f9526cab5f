--------------------------- MODULE GoTransferProofs ---------------------------
(***************************************************************************)
(* Theorems about GoTransfer, for every set of clients, files and names,   *)
(* every length of headers, chunks and buffers, and every number of faults *)
(* and restarts.                                                           *)
(***************************************************************************)
EXTENDS GoTransfer, SequenceFacts

-------------------------------------------------------------------------------
(* What the operators on slices and files do, word by word. *)

LEMMA SizeOfFile ==
    ASSUME NEW c \in Client
    PROVE  /\ File[c] \in Seq(Word) /\ Len(File[c]) \in Nat
           /\ \A i \in 1..Len(File[c]) : File[c][i] \in Word
           /\ Out[c] \in Name /\ HeadLen[c] \in Nat \ {0}
           /\ Total(c) = HeadLen[c] + Len(File[c]) /\ Total(c) \in Nat
  <1>1. /\ File[c] \in Seq(Word) /\ Out[c] \in Name /\ HeadLen[c] \in Nat \ {0}
    BY GoAssumption
  <1>2. /\ Len(File[c]) \in Nat
        /\ \A i \in 1..Len(File[c]) : File[c][i] \in Word
    BY <1>1, LenProperties, ElementOfSeq
  <1> QED
    BY <1>1, <1>2 DEF Total

\* The parts of s and of what is behind it.
LEMMA PartsOf ==
    ASSUME NEW s \in Seq(Word), NEW m \in Nat, NEW n \in Nat, n = Len(s), m <= n
    PROVE  /\ SubSeq(s, 1, m) \in Seq(Word) /\ Len(SubSeq(s, 1, m)) = m
           /\ \A i \in 1..m : SubSeq(s, 1, m)[i] = s[i]
           /\ SubSeq(s, m + 1, n) \in Seq(Word) /\ Len(SubSeq(s, m + 1, n)) = n - m
           /\ \A i \in 1..(n - m) : SubSeq(s, m + 1, n)[i] = s[m + i]
  <1>1. /\ SubSeq(s, 1, m) \in Seq(Word) /\ Len(SubSeq(s, 1, m)) = m
        /\ \A i \in 1..m : SubSeq(s, 1, m)[i] = s[i]
    BY SubSeqIsSeq
  <1>2. m + 1 \in Nat \ {0} /\ n \in Int
    OBVIOUS
  <1>3. /\ SubSeq(s, m + 1, n) \in Seq(Word)
        /\ Len(SubSeq(s, m + 1, n)) = IF m + 1 <= n THEN n - (m + 1) + 1 ELSE 0
        /\ \A i \in 1..(n - (m + 1) + 1) : SubSeq(s, m + 1, n)[i] = s[(m + 1) + i - 1]
    BY <1>2, SubSeqIsSeq
  <1> DEFINE t == SubSeq(s, m + 1, n)
  <1> HIDE DEF t
  <1>4. t \in Seq(Word) /\ Len(t) = n - m
    BY ONLY <1>3, m \in Nat, n \in Nat, m <= n DEF t
  <1>5. ASSUME NEW i \in 1..(n - m) PROVE t[i] = s[m + i]
    <2>1. i \in 1..(n - (m + 1) + 1) /\ (m + 1) + i - 1 = m + i
      BY ONLY m \in Nat, n \in Nat, i \in 1..(n - m)
    <2> QED
      BY ONLY <1>3, <2>1 DEF t
  <1> QED
    BY ONLY <1>1, <1>4, <1>5 DEF t

LEMMA TwoParts ==
    ASSUME NEW a \in Seq(Word), NEW b \in Seq(Word)
    PROVE  /\ a \o b \in Seq(Word) /\ Len(a) \in Nat /\ Len(b) \in Nat
           /\ Len(a \o b) = Len(a) + Len(b)
           /\ \A i \in 1..Len(a \o b) :
                  (a \o b)[i] = IF i <= Len(a) THEN a[i] ELSE b[i - Len(a)]
  <1>1. /\ a \o b \in Seq(Word) /\ Len(a) \in Nat /\ Len(b) \in Nat
        /\ Len(a \o b) = Len(a) + Len(b)
        /\ \A i \in 1..Len(a) : (a \o b)[i] = a[i]
        /\ \A i \in 1..Len(b) : (a \o b)[Len(a) + i] = b[i]
    BY ConcatParts
  <1>2. ASSUME NEW i \in 1..Len(a \o b), i > Len(a)
        PROVE  (a \o b)[i] = b[i - Len(a)]
    <2>1. i - Len(a) \in 1..Len(b) /\ Len(a) + (i - Len(a)) = i
      BY <1>1, <1>2
    <2> QED
      BY <1>1, <2>1
  <1> QED
    BY <1>1, <1>2

\* A part of s is replaced, and nothing else.
LEMMA CopyAtFacts ==
    ASSUME NEW s \in Seq(Word), NEW words \in Seq(Word), NEW k \in Nat,
           k + Len(words) <= Len(s)
    PROVE  /\ CopyAt(s, k, words) \in Seq(Word)
           /\ Len(CopyAt(s, k, words)) = Len(s)
           /\ \A i \in 1..Len(s) :
                  CopyAt(s, k, words)[i] =
                      IF i <= k THEN s[i]
                      ELSE IF i <= k + Len(words) THEN words[i - k] ELSE s[i]
  <1> DEFINE n == Len(words)
             m == Len(s)
             a == SubSeq(s, 1, k)
             b == SubSeq(s, k + n + 1, m)
             u == a \o words
             v == u \o b
  <1>1. n \in Nat /\ m \in Nat /\ m = Len(s) /\ n = Len(words) /\ k + n <= m
    BY LenProperties
  <1>2. CopyAt(s, k, words) = v
    BY DEF CopyAt
  <1> HIDE DEF n, m
  <1>3. /\ a \in Seq(Word) /\ Len(a) = k
        /\ \A i \in 1..k : a[i] = s[i]
    <2>1. k \in Nat /\ k <= m
      BY <1>1
    <2> QED
      BY ONLY <1>1, <2>1, PartsOf, s \in Seq(Word)
  <1>4. /\ b \in Seq(Word) /\ Len(b) = m - (k + n)
        /\ \A i \in 1..(m - (k + n)) : b[i] = s[(k + n) + i]
    <2>1. k + n \in Nat /\ k + n <= m
      BY <1>1
    <2> QED
      BY ONLY <1>1, <2>1, PartsOf, s \in Seq(Word)
  <1> HIDE DEF a, b
  <1>5. /\ u \in Seq(Word) /\ Len(u) = Len(a) + Len(words)
        /\ \A i \in 1..Len(u) : u[i] = IF i <= Len(a) THEN a[i] ELSE words[i - Len(a)]
    BY ONLY <1>3, TwoParts, words \in Seq(Word)
  <1> HIDE DEF u
  <1>6. /\ v \in Seq(Word) /\ Len(v) = Len(u) + Len(b)
        /\ \A i \in 1..Len(v) : v[i] = IF i <= Len(u) THEN u[i] ELSE b[i - Len(u)]
    BY ONLY <1>4, <1>5, TwoParts
  <1> HIDE DEF v
  <1>7. Len(u) = k + n /\ Len(v) = m
    BY ONLY <1>1, <1>3, <1>4, <1>5, <1>6, k \in Nat
  <1>8. ASSUME NEW i \in 1..m
        PROVE  v[i] = IF i <= k THEN s[i] ELSE IF i <= k + n THEN words[i - k] ELSE s[i]
    <2>1. CASE i <= k
      <3>1. i \in 1..k /\ i \in 1..Len(u) /\ i \in 1..Len(v) /\ i <= Len(u) /\ i <= Len(a)
        BY <1>1, <1>3, <1>7, <2>1
      <3> QED
        BY ONLY <2>1, <3>1, <1>3, <1>5, <1>6
    <2>2. CASE i > k /\ i <= k + n
      <3>1. i \in 1..Len(u) /\ i \in 1..Len(v) /\ i <= Len(u) /\ ~(i <= Len(a)) /\ ~(i <= k)
        BY <1>1, <1>3, <1>7, <2>2
      <3>2. v[i] = u[i] /\ u[i] = words[i - Len(a)]
        BY ONLY <3>1, <1>5, <1>6
      <3> QED
        BY ONLY <1>3, <2>2, <3>1, <3>2
    <2>3. CASE i > k + n
      <3>1. /\ i \in 1..Len(v) /\ ~(i <= Len(u)) /\ ~(i <= k) /\ ~(i <= k + n)
            /\ i - (k + n) \in 1..(m - (k + n)) /\ (k + n) + (i - (k + n)) = i
        BY <1>1, <1>7, <2>3
      <3>2. v[i] = b[i - (k + n)]
        BY ONLY <3>1, <1>6, <1>7
      <3>3. b[i - (k + n)] = s[i]
        BY ONLY <3>1, <1>4
      <3> QED
        BY ONLY <3>1, <3>2, <3>3
    <2> QED
      BY <1>1, <2>1, <2>2, <2>3
  <1> QED
    BY <1>1, <1>2, <1>6, <1>7, <1>8

\* The words of s, and behind them those of old that s does not reach.
Over(s, n, old) == SubSeq(s, 1, n) \o SubSeq(old, n + 1, Len(old))

LEMMA OverFacts ==
    ASSUME NEW s \in Seq(Word), NEW old \in Seq(Word), NEW n \in Nat, n <= Len(s)
    PROVE  /\ Over(s, n, old) \in Seq(Word)
           /\ \A i \in 1..Len(Over(s, n, old)) :
                  \/ i <= Len(s) /\ Over(s, n, old)[i] = s[i]
                  \/ i <= Len(old) /\ Over(s, n, old)[i] = old[i]
  <1> DEFINE m == Len(s)
             l == Len(old)
             a == SubSeq(s, 1, n)
             b == SubSeq(old, n + 1, l)
             u == a \o b
  <1>1. m \in Nat /\ l \in Nat /\ m = Len(s) /\ l = Len(old) /\ n \in Nat /\ n <= m
    BY LenProperties
  <1> SUFFICES /\ u \in Seq(Word)
               /\ \A i \in 1..Len(u) : \/ i <= m /\ u[i] = s[i]
                                       \/ i <= l /\ u[i] = old[i]
    BY DEF Over
  <1> HIDE DEF m, l
  <1>2. /\ a \in Seq(Word) /\ Len(a) = n
        /\ \A i \in 1..n : a[i] = s[i]
    BY ONLY <1>1, PartsOf, s \in Seq(Word)
  <1>3. /\ b \in Seq(Word)
        /\ Len(b) = IF n <= l THEN l - n ELSE 0
        /\ \A i \in 1..(l - n) : b[i] = old[n + i]
    <2>1. CASE n <= l
      <3>1. /\ b \in Seq(Word) /\ Len(b) = l - n
            /\ \A i \in 1..(l - n) : b[i] = old[n + i]
        BY ONLY <1>1, <2>1, PartsOf, old \in Seq(Word)
      <3> QED
        BY ONLY <2>1, <3>1
    <2>2. CASE ~(n <= l)
      <3>1. n + 1 \in Nat \ {0} /\ l \in Int /\ ~(n + 1 <= l) /\ l <= Len(old)
        BY <1>1, <2>2
      <3>2. b \in Seq(Word) /\ Len(b) = IF n + 1 <= l THEN l - (n + 1) + 1 ELSE 0
        BY ONLY <3>1, SubSeqIsSeq, old \in Seq(Word)
      <3>3. 1..(l - n) = {}
        BY <1>1, <2>2
      <3> QED
        BY ONLY <2>2, <3>1, <3>2, <3>3
    <2> QED
      BY <2>1, <2>2
  <1> HIDE DEF a, b
  <1>4. /\ u \in Seq(Word) /\ Len(u) = Len(a) + Len(b)
        /\ \A i \in 1..Len(u) : u[i] = IF i <= Len(a) THEN a[i] ELSE b[i - Len(a)]
    BY ONLY <1>2, <1>3, TwoParts
  <1> HIDE DEF u
  <1>5. ASSUME NEW i \in 1..Len(u)
        PROVE  \/ i <= m /\ u[i] = s[i]
               \/ i <= l /\ u[i] = old[i]
    <2>0. i \in Nat \ {0} /\ Len(u) = n + Len(b) /\ i <= Len(u)
      BY <1>1, <1>2, <1>3, <1>4
    <2>1. CASE i <= n
      <3>1. i \in 1..n /\ i <= m /\ i <= Len(a)
        BY <1>1, <1>2, <2>0, <2>1
      <3> QED
        BY ONLY <1>2, <1>4, <3>1, i \in 1..Len(u)
    <2>2. CASE ~(i <= n)
      <3>1. n <= l
        BY ONLY <1>1, <1>3, <2>0, <2>2
      <3>2. i - n \in 1..(l - n) /\ n + (i - n) = i /\ i <= l
        BY ONLY <1>1, <1>3, <2>0, <2>2, <3>1
      <3>3. u[i] = b[i - n]
        BY ONLY <1>2, <1>4, <2>2, i \in 1..Len(u)
      <3>4. b[i - n] = old[i]
        BY ONLY <1>3, <3>2
      <3> QED
        BY ONLY <3>2, <3>3, <3>4
    <2> QED
      BY <2>1, <2>2
  <1> QED
    BY <1>4, <1>5

-------------------------------------------------------------------------------
(* Types. *)

\* What the stages of a client and of its goroutine mean for what has been sent, read
\* and created.
GoOf(c) ==
    /\ cli[c] = "idle" => go[c] = "none"
    /\ cli[c] \in {"idle", "file"} => sent[c] = 0
    /\ go[c] \in {"none", "backlog", "head"} => got[c] = 0 /\ cnt[c] = 0
    /\ go[c] \in {"create", "write"} => data[c] = File[c]
    /\ go[c] = "write" => disk[Out[c]] # NULL

GoInv == \A c \in Client : GoOf(c)

Inv == TypeOK /\ GoInv

LEMMA InitType == Init => Inv
  <1> SUFFICES ASSUME Init PROVE Inv
    OBVIOUS
  <1>1. \A c \in Client : Total(c) \in Nat
    BY SizeOfFile
  <1>2. <<>> \in Seq(Word)
    OBVIOUS
  <1> QED
    BY <1>1, <1>2, GoAssumption DEF Init, Inv, TypeOK, GoInv, GoOf, CliStage, GoStage

LEMMA FaultType ==
    ASSUME Inv, Fault
    PROVE  faults' \in 0..MaxFaults
  <1>1. MaxFaults \in Nat /\ faults \in 0..MaxFaults
    BY GoAssumption DEF Inv, TypeOK
  <1> QED
    BY <1>1 DEF Fault

LEMMA CliKeepsType ==
    ASSUME Inv, NEW c \in Client,
           \/ Dial(c) \/ Refused(c) \/ NoFile(c) \/ Close(c) \/ SendErr(c) \/ CliKilled(c)
           \/ SendHeader(c) \/ SendChunk(c)
    PROVE  Inv'
  <1>0. HeadLen[c] \in Nat /\ Total(c) \in Nat /\ HeadLen[c] <= Total(c)
    <2>1. /\ HeadLen[c] \in Nat /\ Total(c) = HeadLen[c] + Len(File[c])
          /\ Len(File[c]) \in Nat
      BY SizeOfFile
    <2> QED
      BY ONLY <2>1
  <1> USE DEF Inv, TypeOK, GoInv, GoOf, CliStage, GoStage, recvVars, fileVars, cliVars
  <1>1. CASE Dial(c)
    BY <1>1 DEF Dial
  <1>2. CASE Refused(c)
    BY <1>2 DEF Refused
  <1>3. CASE NoFile(c)
    BY <1>3, FaultType DEF NoFile
  <1>4. CASE Close(c)
    BY <1>4 DEF Close
  <1>5. CASE SendErr(c)
    BY <1>5 DEF SendErr
  <1>6. CASE CliKilled(c)
    BY <1>6, FaultType DEF CliKilled
  <1>7. CASE SendHeader(c)
    BY <1>0, <1>7 DEF SendHeader
  <1>8. CASE SendChunk(c)
    <2>1. PICK n \in 1..VARSIZE : /\ sent[c] + n <= Total(c)
                                  /\ sent' = [sent EXCEPT ![c] = @ + n]
      BY <1>8 DEF SendChunk
    <2>2. n \in Nat
      OBVIOUS
    <2> QED
      BY <1>0, <1>8, <2>1, <2>2 DEF SendChunk
  <1> QED
    BY <1>1, <1>2, <1>3, <1>4, <1>5, <1>6, <1>7, <1>8

\* The server's process ends, whatever was read or written before that.
LEMMA EndKeepsType ==
    ASSUME Inv, ProcessEnds, UNCHANGED <<cliVars, data, cnt, stored>>,
           got' \in [Client -> Nat],
           \A c \in Client : got'[c] <= sent[c] /\ (go[c] = "none" => got'[c] = got[c]),
           disk' \in [Name -> Seq(Word) \union {NULL}],
           faults' \in 0..MaxFaults
    PROVE  Inv'
  <1>1. /\ listening' \in BOOLEAN
        /\ go' \in [Client -> GoStage]
        /\ \A c \in Client : go'[c] = IF go[c] = "none" THEN "none" ELSE "gone"
    BY DEF ProcessEnds, GoStage
  <1>2. TypeOK'
    BY <1>1 DEF Inv, TypeOK, cliVars
  <1>3. GoInv'
    BY <1>1 DEF Inv, GoInv, GoOf, cliVars
  <1> QED
    BY <1>2, <1>3 DEF Inv

LEMMA FatalKeepsType ==
    ASSUME Inv, ProcessEnds, Fault, UNCHANGED <<cliVars, recvVars, fileVars>>
    PROVE  Inv'
  <1>1. faults' \in 0..MaxFaults
    BY FaultType
  <1>2. /\ got \in [Client -> Nat] /\ \A c \in Client : got[c] <= sent[c]
        /\ disk \in [Name -> Seq(Word) \union {NULL}]
    BY DEF Inv, TypeOK
  <1> QED
    BY <1>1, <1>2, EndKeepsType DEF recvVars, fileVars

\* The server's steps that move no words of the file.
LEMMA ServKeepsType ==
    ASSUME Inv, NEW c \in Client,
           \/ Accept(c) \/ HeadEof(c) \/ RecvEof(c) \/ ReadErr(c) \/ CreateErr(c)
           \/ Create(c) \/ ReadHeadFatal(c)
    PROVE  Inv'
  <1>1. CASE Accept(c)
    BY <1>1 DEF Accept, Inv, TypeOK, GoInv, GoOf, GoStage, recvVars, fileVars, cliVars
  <1>2. CASE HeadEof(c)
    BY <1>2 DEF HeadEof, Inv, TypeOK, GoInv, GoOf, GoStage, recvVars, fileVars, cliVars
  <1>3. CASE RecvEof(c)
    BY <1>3 DEF RecvEof, IsDataError, Inv, TypeOK, GoInv, GoOf, GoStage, recvVars, fileVars,
                cliVars
  <1>4. CASE ReadErr(c)
    BY <1>4, FatalKeepsType DEF ReadErr
  <1>5. CASE CreateErr(c)
    BY <1>5, FatalKeepsType DEF CreateErr
  <1>6. CASE Create(c)
    <2>1. /\ <<>> \in Seq(Word) /\ <<>> # NULL /\ \A d \in Client : Out[d] \in Name
      <3>1. <<>> \in Seq(Word)
        OBVIOUS
      <3> QED
        BY <3>1, GoAssumption, SizeOfFile
    <2> QED
      BY <1>6, <2>1 DEF Create, Inv, TypeOK, GoInv, GoOf, GoStage, recvVars, cliVars
  <1>7. CASE ReadHeadFatal(c)
    <2>1. PICK n \in 1..ENCODE_SIZE : n <= sent[c] /\ got' = [got EXCEPT ![c] = n]
      BY <1>7 DEF ReadHeadFatal
    <2>2. n \in Nat
      OBVIOUS
    <2>3. /\ got \in [Client -> Nat] /\ \A d \in Client : got[d] <= sent[d]
          /\ disk \in [Name -> Seq(Word) \union {NULL}]
          /\ faults \in 0..MaxFaults
      BY DEF Inv, TypeOK
    <2>4. /\ go[c] = "head" /\ ProcessEnds /\ UNCHANGED <<cliVars, data, cnt, fileVars, faults>>
      BY <1>7 DEF ReadHeadFatal
    <2>5. /\ got' \in [Client -> Nat]
          /\ \A d \in Client : got'[d] <= sent[d] /\ (go[d] = "none" => got'[d] = got[d])
      BY <2>1, <2>2, <2>3, <2>4
    <2> QED
      BY <2>3, <2>4, <2>5, EndKeepsType DEF fileVars
  <1> QED
    BY <1>1, <1>2, <1>3, <1>4, <1>5, <1>6, <1>7

LEMMA ProcessKeepsType ==
    ASSUME Inv, ServKilled \/ main \/ UNCHANGED vars
    PROVE  Inv'
  <1>1. CASE ServKilled
    BY <1>1, FatalKeepsType DEF ServKilled
  <1>2. CASE main
    BY <1>2 DEF main, Inv, TypeOK, GoInv, GoOf, recvVars, fileVars, cliVars
  <1>3. CASE UNCHANGED vars
    BY <1>3 DEF vars, Inv, TypeOK, GoInv, GoOf, recvVars, fileVars, cliVars
  <1> QED
    BY <1>1, <1>2, <1>3

\* The slice is made as long as the file, of zeros.
LEMMA HeadKeepsType ==
    ASSUME Inv, NEW c \in Client, ReadHead(c)
    PROVE  Inv'
  <1>1. PICK n \in HeadLen[c]..ENCODE_SIZE : n <= sent[c] /\ got' = [got EXCEPT ![c] = n]
    BY DEF ReadHead
  <1>2. n \in Nat /\ n >= HeadLen[c] /\ HeadLen[c] \in Nat
    BY SizeOfFile, GoAssumption
  <1> DEFINE zeros == [i \in 1..Len(File[c]) |-> 0]
  <1>3. zeros \in Seq(Word) /\ Len(zeros) = Len(File[c])
    <2>1. Len(File[c]) \in Nat /\ 0 \in Word
      BY SizeOfFile, GoAssumption
    <2> QED
      BY <2>1
  <1>4. /\ data' = [data EXCEPT ![c] = zeros]
        /\ go[c] = "head"
        /\ go' = [go EXCEPT ![c] = "recv"]
        /\ UNCHANGED <<listening, cliVars, cnt, fileVars, faults>>
    BY DEF ReadHead
  <1> HIDE DEF zeros
  <1> QED
    BY <1>1, <1>2, <1>3, <1>4
    DEF Inv, TypeOK, GoInv, GoOf, CliStage, GoStage, fileVars, cliVars

\* What a read of n words takes of the file, and where it goes.
LEMMA RecvFacts ==
    ASSUME Inv, NEW c \in Client, go[c] = "recv", NEW n \in Nat, got[c] + n <= sent[c]
    PROVE  /\ Unread(c, n) \in Seq(Word) /\ Len(Unread(c, n)) = n
           /\ \A i \in 1..n : Unread(c, n)[i] = File[c][got[c] - HeadLen[c] + i]
           /\ cnt[c] + n <= Len(data[c])
           /\ cnt[c] \in Nat /\ got[c] \in Nat /\ HeadLen[c] \in Nat
           /\ data[c] \in Seq(Word) /\ Len(data[c]) = Len(File[c])
           /\ got[c] >= HeadLen[c] + cnt[c]
  <1>1. /\ cnt[c] \in Nat /\ got[c] \in Nat /\ sent[c] \in Nat
        /\ data[c] \in Seq(Word) /\ Len(data[c]) = Len(File[c])
        /\ got[c] >= HeadLen[c] + cnt[c] /\ sent[c] <= Total(c)
    BY DEF Inv, TypeOK
  <1>2. /\ File[c] \in Seq(Word) /\ Len(File[c]) \in Nat
        /\ HeadLen[c] \in Nat /\ Total(c) = HeadLen[c] + Len(File[c])
    BY SizeOfFile
  <1> DEFINE p == got[c] - HeadLen[c] + 1
             q == got[c] - HeadLen[c] + n
  <1>3. p \in Nat \ {0} /\ q \in Int /\ q <= Len(File[c]) /\ q - p + 1 = n
    <2>1. got[c] + n <= HeadLen[c] + Len(File[c])
      BY ONLY <1>1, <1>2, n \in Nat, got[c] + n <= sent[c]
    <2>2. \A g, h, l \in Nat : g >= h /\ g + n <= h + l =>
              /\ g - h + 1 \in Nat \ {0} /\ g - h + n \in Int /\ g - h + n <= l
              /\ (g - h + n) - (g - h + 1) + 1 = n
      BY ONLY n \in Nat
    <2>3. got[c] >= HeadLen[c]
      BY ONLY <1>1, <1>2
    <2> QED
      BY ONLY <1>1, <1>2, <2>1, <2>2, <2>3
  <1>4. Unread(c, n) = SubSeq(File[c], p, q)
    BY DEF Unread
  <1>5. \A i \in 1..n : p + i - 1 = got[c] - HeadLen[c] + i
    BY <1>1, <1>2
  <1>6. n = 0 <=> ~(p <= q)
    BY <1>1, <1>2
  <1> HIDE DEF p, q
  <1>7. /\ SubSeq(File[c], p, q) \in Seq(Word)
        /\ Len(SubSeq(File[c], p, q)) = IF p <= q THEN q - p + 1 ELSE 0
        /\ \A i \in 1..(q - p + 1) : SubSeq(File[c], p, q)[i] = File[c][p + i - 1]
    BY ONLY <1>2, <1>3, SubSeqIsSeq
  <1>8. cnt[c] + n <= Len(data[c])
    BY <1>1, <1>2
  <1> DEFINE u == SubSeq(File[c], p, q)
  <1> HIDE DEF u
  <1>9. u \in Seq(Word) /\ Len(u) = n
    BY ONLY <1>3, <1>6, <1>7, n \in Nat DEF u
  <1>10. ASSUME NEW i \in 1..n PROVE u[i] = File[c][got[c] - HeadLen[c] + i]
    BY ONLY <1>3, <1>5, <1>7, i \in 1..n DEF u
  <1>11. Unread(c, n) = u
    BY ONLY <1>4 DEF u
  <1> QED
    BY ONLY <1>1, <1>2, <1>8, <1>9, <1>10, <1>11

LEMMA RecvKeepsType ==
    ASSUME Inv, NEW c \in Client, NEW n \in Nat, RecvData(c),
           got[c] + n <= sent[c],
           data' = [data EXCEPT ![c] = CopyAt(@, cnt[c], Unread(c, n))],
           cnt' = [cnt EXCEPT ![c] = @ + n],
           got' = [got EXCEPT ![c] = @ + n]
    PROVE  Inv'
  <1>1. go[c] = "recv" /\ UNCHANGED <<listening, cliVars, go, fileVars, faults>>
    BY DEF RecvData
  <1> DEFINE new == CopyAt(data[c], cnt[c], Unread(c, n))
  <1>2. /\ cnt[c] \in Nat /\ got[c] \in Nat /\ HeadLen[c] \in Nat
        /\ Len(data[c]) = Len(File[c])
        /\ got[c] >= HeadLen[c] + cnt[c]
    BY <1>1, RecvFacts
  <1>3. new \in Seq(Word) /\ Len(new) = Len(data[c])
    BY <1>1, RecvFacts, CopyAtFacts
  <1>4. data' = [data EXCEPT ![c] = new]
    OBVIOUS
  <1> HIDE DEF new
  <1>5. /\ cnt[c] + n \in Nat /\ got[c] + n \in Nat
        /\ got[c] + n >= HeadLen[c] + (cnt[c] + n)
    BY ONLY <1>2, n \in Nat
  <1>6. TypeOK'
    BY <1>1, <1>2, <1>3, <1>4, <1>5 DEF Inv, TypeOK, fileVars, cliVars
  <1>7. GoInv'
    BY <1>1, <1>4 DEF Inv, TypeOK, GoInv, GoOf, fileVars, cliVars
  <1> QED
    BY <1>6, <1>7 DEF Inv

\* The file after n words of the slice have been written.
LEMMA WriteFacts ==
    ASSUME Inv, NEW c \in Client, go[c] = "write", NEW n \in 0..Len(data[c]), Overwrite(c, n)
    PROVE  \E f \in Seq(Word) :
               /\ disk' = [disk EXCEPT ![Out[c]] = f]
               /\ \A i \in 1..Len(f) :
                      \/ i <= Len(File[c]) /\ f[i] = File[c][i]
                      \/ i <= Len(disk[Out[c]]) /\ f[i] = disk[Out[c]][i]
  <1> DEFINE f == Over(data[c], n, disk[Out[c]])
  <1>1. /\ data[c] = File[c] /\ data[c] \in Seq(Word)
        /\ disk[Out[c]] \in Seq(Word) /\ Out[c] \in Name
    BY SizeOfFile DEF Inv, TypeOK, GoInv, GoOf
  <1>2. disk' = [disk EXCEPT ![Out[c]] = f]
    BY DEF Overwrite, Over
  <1>3. /\ f \in Seq(Word)
        /\ \A i \in 1..Len(f) : \/ i <= Len(data[c]) /\ f[i] = data[c][i]
                                \/ i <= Len(disk[Out[c]]) /\ f[i] = disk[Out[c]][i]
    <2>1. /\ data[c] \in Seq(Word) /\ disk[Out[c]] \in Seq(Word)
          /\ n \in Nat /\ n <= Len(data[c])
      BY <1>1, LenProperties
    <2> QED
      BY ONLY <2>1, OverFacts
  <1> HIDE DEF f
  <1> QED
    BY <1>1, <1>2, <1>3

LEMMA WriteKeepsType ==
    ASSUME Inv, NEW c \in Client, Write(c) \/ ShortWrite(c)
    PROVE  Inv'
  <1>1. go[c] = "write"
    BY DEF Write, ShortWrite
  <1>2. data[c] \in Seq(Word) /\ Len(data[c]) \in Nat
    BY LenProperties DEF Inv, TypeOK
  <1>3. PICK n \in 0..Len(data[c]) : Overwrite(c, n)
    BY <1>2 DEF Write, ShortWrite
  <1>4. PICK f \in Seq(Word) : disk' = [disk EXCEPT ![Out[c]] = f]
    BY <1>1, <1>3, WriteFacts
  <1>5. f # NULL /\ \A d \in Client : Out[d] \in Name
    BY GoAssumption, SizeOfFile
  <1>6. disk' \in [Name -> Seq(Word) \union {NULL}] /\ \A m \in Name : disk[m] # NULL => disk'[m] # NULL
    BY <1>4, <1>5 DEF Inv, TypeOK
  <1>7. ASSUME go' = [go EXCEPT ![c] = "spin"], faults' \in 0..MaxFaults,
               stored' \in SUBSET Client, UNCHANGED <<listening, cliVars, recvVars>>
        PROVE  Inv'
    <2>1. TypeOK'
      BY <1>6, <1>7 DEF Inv, TypeOK, GoStage, recvVars, cliVars
    <2>2. GoInv'
      BY <1>1, <1>5, <1>6, <1>7 DEF Inv, TypeOK, GoInv, GoOf, recvVars, cliVars
    <2> QED
      BY <2>1, <2>2 DEF Inv
  <1>8. CASE Write(c)
    <2>1. stored' \in SUBSET Client /\ faults' \in 0..MaxFaults
      BY <1>8 DEF Write, Inv, TypeOK
    <2> QED
      BY <1>7, <1>8, <2>1 DEF Write
  <1>9. CASE ShortWrite(c)
    <2>1. /\ faults' \in 0..MaxFaults
          /\ stored' \in SUBSET Client
          /\ UNCHANGED <<cliVars, recvVars, stored>>
      BY <1>9, FaultType DEF ShortWrite, Inv, TypeOK
    <2>2. CASE ProcessEnds
      <3>1. got \in [Client -> Nat] /\ \A d \in Client : got[d] <= sent[d]
        BY DEF Inv, TypeOK
      <3> QED
        BY <1>6, <2>1, <2>2, <3>1, EndKeepsType DEF recvVars
    <2>3. CASE ~ProcessEnds
      BY <1>7, <1>9, <2>1, <2>3 DEF ShortWrite
    <2> QED
      BY <2>2, <2>3
  <1> QED
    BY <1>8, <1>9

LEMMA StepKeepsType == Inv /\ [Next]_vars => Inv'
  <1> SUFFICES ASSUME Inv, [Next]_vars
               PROVE  Inv'
    OBVIOUS
  <1>1. CASE ServKilled \/ main \/ UNCHANGED vars
    BY <1>1, ProcessKeepsType
  <1>2. ASSUME NEW c \in Client,
               \/ Dial(c) \/ Refused(c) \/ CliStep(c) \/ NoFile(c) \/ CliKilled(c)
               \/ Accept(c) \/ HandleClient(c)
               \/ ReadErr(c) \/ CreateErr(c) \/ ShortWrite(c)
        PROVE  Inv'
    <2>1. CASE RecvData(c)
      <3>1. PICK n \in 1..2 * VARSIZE :
                /\ got[c] + n <= sent[c]
                /\ data' = [data EXCEPT ![c] = CopyAt(@, cnt[c], Unread(c, n))]
                /\ cnt' = [cnt EXCEPT ![c] = @ + n]
                /\ got' = [got EXCEPT ![c] = @ + n]
        BY <2>1 DEF RecvData
      <3>2. n \in Nat
        OBVIOUS
      <3> QED
        BY <2>1, <3>1, <3>2, RecvKeepsType
    <2> QED
      BY <1>2, <2>1, CliKeepsType, ServKeepsType, HeadKeepsType, WriteKeepsType
      DEF CliStep, HandleClient
  <1> QED
    BY <1>1, <1>2 DEF Next

LEMMA TypeInvariant == Spec => []Inv
  BY InitType, StepKeepsType, PTL DEF Spec

\* Every variable keeps its type; the goroutine has read no more than was sent, and its
\* slice keeps the length that the header said.
THEOREM TypeCorrect == Spec => []TypeOK
  <1>1. Inv => TypeOK
    BY DEF Inv
  <1> QED
    BY <1>1, TypeInvariant, PTL

-------------------------------------------------------------------------------
(* The slice of a goroutine. *)

PlaceOf(c) ==
    go[c] = "recv" =>
        \A i \in 1..Len(data[c]) :
            data[c][i] = IF i > cnt[c] THEN 0
                         ELSE File[c][got[c] - HeadLen[c] - cnt[c] + i]

LEMMA HeadKeepsPlace ==
    ASSUME Inv, NEW c \in Client, ReadHead(c)
    PROVE  PlaceOf(c)'
  <1>1. /\ data'[c] = [i \in 1..Len(File[c]) |-> 0]
        /\ cnt'[c] = 0
    BY DEF ReadHead, Inv, TypeOK, GoInv, GoOf
  <1>2. Len(File[c]) \in Nat
    BY SizeOfFile
  <1>3. Len(data'[c]) = Len(File[c])
    BY <1>1, <1>2
  <1> QED
    BY <1>1, <1>2, <1>3 DEF PlaceOf

LEMMA RecvKeepsPlace ==
    ASSUME Inv, NEW c \in Client, PlaceOf(c), RecvData(c)
    PROVE  PlaceOf(c)'
  <1>1. PICK n \in 1..2 * VARSIZE :
            /\ got[c] + n <= sent[c]
            /\ data' = [data EXCEPT ![c] = CopyAt(@, cnt[c], Unread(c, n))]
            /\ cnt' = [cnt EXCEPT ![c] = @ + n]
            /\ got' = [got EXCEPT ![c] = @ + n]
    BY DEF RecvData
  <1>2. n \in Nat /\ go[c] = "recv"
    BY DEF RecvData
  <1> DEFINE words == Unread(c, n)
             k == cnt[c]
             new == CopyAt(data[c], k, words)
             g == got[c] - HeadLen[c]
  <1>3. /\ words \in Seq(Word) /\ Len(words) = n
        /\ \A i \in 1..n : words[i] = File[c][g + i]
        /\ k + n <= Len(data[c])
        /\ k \in Nat /\ g \in Int /\ HeadLen[c] \in Nat /\ got[c] \in Nat
        /\ data[c] \in Seq(Word)
    <2>1. /\ words \in Seq(Word) /\ Len(words) = n
          /\ \A i \in 1..n : words[i] = File[c][g + i]
          /\ k + n <= Len(data[c])
          /\ k \in Nat /\ got[c] \in Nat /\ HeadLen[c] \in Nat
          /\ data[c] \in Seq(Word)
      BY <1>1, <1>2, RecvFacts, Zenon
    <2>2. g \in Int
      BY ONLY <2>1
    <2> QED
      BY ONLY <2>1, <2>2
  <1>4. data'[c] = new /\ cnt'[c] = k + n /\ got'[c] = got[c] + n
    <2>1. c \in DOMAIN data /\ c \in DOMAIN cnt /\ c \in DOMAIN got
      BY DEF Inv, TypeOK
    <2>2. /\ data' = [data EXCEPT ![c] = new]
          /\ cnt' = [cnt EXCEPT ![c] = k + n]
          /\ got' = [got EXCEPT ![c] = got[c] + n]
      BY <1>1
    <2> HIDE DEF new, k
    <2> QED
      BY ONLY <2>1, <2>2
  <1>5. \A i \in 1..Len(data[c]) : data[c][i] = IF i > k THEN 0 ELSE File[c][g - k + i]
    BY <1>2 DEF PlaceOf
  <1>6. got'[c] - HeadLen[c] - cnt'[c] = g - k
    BY <1>3, <1>4
  <1> HIDE DEF words, k, g
  <1>7. /\ Len(new) = Len(data[c])
        /\ \A i \in 1..Len(data[c]) :
               new[i] = IF i <= k THEN data[c][i]
                        ELSE IF i <= k + Len(words) THEN words[i - k] ELSE data[c][i]
    <2>1. k + Len(words) <= Len(data[c])
      BY <1>3
    <2>2. data[c] \in Seq(Word) /\ words \in Seq(Word) /\ k \in Nat
      BY <1>3
    <2> QED
      BY ONLY <2>1, <2>2, CopyAtFacts
  <1> HIDE DEF new
  <1>8. ASSUME NEW i \in 1..Len(new)
        PROVE  new[i] = IF i > k + n THEN 0 ELSE File[c][g - k + i]
    <2>0. i \in 1..Len(data[c]) /\ i \in Nat
      BY <1>7
    <2>1. CASE i <= k
      <3>1. ~(i > k) /\ ~(i > k + n)
        BY <1>2, <1>3, <2>0, <2>1
      <3>2. new[i] = data[c][i]
        BY ONLY <1>7, <2>0, <2>1
      <3>3. data[c][i] = File[c][g - k + i]
        BY ONLY <1>5, <2>0, <3>1
      <3> QED
        BY ONLY <3>1, <3>2, <3>3
    <2>2. CASE ~(i <= k) /\ i <= k + n
      <3>1. i - k \in 1..n /\ g + (i - k) = g - k + i /\ ~(i > k + n)
        BY <1>2, <1>3, <2>0, <2>2
      <3>2. new[i] = words[i - k]
        BY ONLY <1>3, <1>7, <2>0, <2>2
      <3>3. words[i - k] = File[c][g + (i - k)]
        BY ONLY <1>3, <3>1
      <3> QED
        BY ONLY <3>1, <3>2, <3>3
    <2>3. CASE ~(i <= k + n)
      <3>1. ~(i <= k) /\ i > k /\ i > k + n
        BY <1>2, <1>3, <2>0, <2>3
      <3>2. new[i] = data[c][i]
        BY ONLY <1>3, <1>7, <2>0, <2>3, <3>1
      <3>3. data[c][i] = 0
        BY ONLY <1>5, <2>0, <3>1
      <3> QED
        BY ONLY <3>1, <3>2, <3>3
    <2> QED
      BY <2>1, <2>2, <2>3
  <1>9. \A i \in 1..Len(data'[c]) :
            data'[c][i] = IF i > cnt'[c] THEN 0
                          ELSE File[c][got'[c] - HeadLen[c] - cnt'[c] + i]
    BY ONLY <1>4, <1>6, <1>8
  <1> QED
    BY <1>9 DEF PlaceOf

\* A step that leaves the goroutine's slice alone, or ends its reading.
LEMMA PlaceUntouched ==
    ASSUME NEW c \in Client, PlaceOf(c),
           \/ go'[c] # "recv"
           \/ go'[c] = go[c] /\ data'[c] = data[c] /\ cnt'[c] = cnt[c] /\ got'[c] = got[c]
    PROVE  PlaceOf(c)'
  BY DEF PlaceOf

LEMMA StepKeepsPlace == Inv /\ DataInPlace /\ [Next]_vars => DataInPlace'
  <1> SUFFICES ASSUME Inv, DataInPlace, [Next]_vars, NEW c \in Client
               PROVE  PlaceOf(c)'
    BY DEF DataInPlace, PlaceOf
  <1>1. PlaceOf(c)
    BY DEF DataInPlace, PlaceOf
  <1>2. CASE ReadHead(c)
    BY <1>2, HeadKeepsPlace
  <1>3. CASE RecvData(c)
    BY <1>1, <1>3, RecvKeepsPlace
  <1>4. CASE ~ReadHead(c) /\ ~RecvData(c)
    <2>1. \/ go'[c] # "recv"
          \/ go'[c] = go[c] /\ data'[c] = data[c] /\ cnt'[c] = cnt[c] /\ got'[c] = got[c]
      <3> USE DEF cliVars, recvVars, fileVars, ProcessEnds
      <3>0. /\ go \in [Client -> GoStage] /\ data \in [Client -> Seq(Word)]
            /\ cnt \in [Client -> Nat] /\ got \in [Client -> Nat]
        BY DEF Inv, TypeOK
      <3>1. CASE UNCHANGED <<go, recvVars>>
        BY <3>1
      <3>2. CASE ProcessEnds
        BY <3>0, <3>2
      <3>3. ASSUME NEW d \in Client,
                   \/ Dial(d) \/ Accept(d) \/ ReadHead(d) \/ HeadEof(d) \/ RecvData(d)
                   \/ RecvEof(d) \/ Create(d) \/ Write(d) \/ ShortWrite(d)
            PROVE  \/ go'[c] # "recv"
                   \/ /\ go'[c] = go[c] /\ data'[c] = data[c] /\ cnt'[c] = cnt[c]
                      /\ got'[c] = got[c]
        <4>1. CASE ReadHead(d)
          <5>1. d # c
            BY <1>4, <4>1
          <5>2. /\ \E n \in HeadLen[d]..ENCODE_SIZE : got' = [got EXCEPT ![d] = n]
                /\ data' = [data EXCEPT ![d] = [i \in 1..Len(File[d]) |-> 0]]
                /\ go' = [go EXCEPT ![d] = "recv"]
                /\ cnt' = cnt
            BY <4>1 DEF ReadHead
          <5> QED
            BY <3>0, <5>1, <5>2
        <4>2. CASE RecvData(d)
          <5>1. d # c
            BY <1>4, <4>2
          <5>2. PICK n \in 1..2 * VARSIZE :
                    /\ data' = [data EXCEPT ![d] = CopyAt(@, cnt[d], Unread(d, n))]
                    /\ cnt' = [cnt EXCEPT ![d] = @ + n]
                    /\ got' = [got EXCEPT ![d] = @ + n]
            BY <4>2 DEF RecvData
          <5>3. go' = go
            BY <4>2 DEF RecvData
          <5> QED
            BY <3>0, <5>1, <5>2, <5>3
        <4> QED
          BY <3>0, <3>2, <3>3, <4>1, <4>2
          DEF Dial, Accept, HeadEof, RecvEof, Create, Write, ShortWrite
      <3> QED
        BY <3>1, <3>2, <3>3
        DEF Next, CliStep, HandleClient, Refused, SendHeader, NoFile, SendChunk, Close, SendErr,
            CliKilled, ReadHeadFatal, ReadErr, CreateErr, ServKilled, main, vars
    <2> QED
      BY <1>1, <2>1, PlaceUntouched
  <1> QED
    BY <1>2, <1>3, <1>4

LEMMA InitPlace == Init => DataInPlace
  BY DEF Init, DataInPlace

\* While a file is received the slice has the last words that were read, in order and
\* without a gap, and zeros behind them, however the stream is cut into reads and
\* however much of it the read of the header has taken.
THEOREM SliceInPlace == Spec => []DataInPlace
  BY InitPlace, StepKeepsPlace, TypeInvariant, PTL DEF Spec

-------------------------------------------------------------------------------
(* The files. *)

\* Steps that write no file.
LEMMA DiskUntouched ==
    ASSUME WordsOfNamesakes, disk' = disk
    PROVE  WordsOfNamesakes'
  BY DEF WordsOfNamesakes

LEMMA WriteKeepsWords ==
    ASSUME Inv, WordsOfNamesakes, NEW c \in Client, Write(c) \/ ShortWrite(c)
    PROVE  WordsOfNamesakes'
  <1>1. go[c] = "write"
    BY DEF Write, ShortWrite
  <1>2. data[c] \in Seq(Word) /\ Len(data[c]) \in Nat
    BY LenProperties DEF Inv, TypeOK
  <1>3. PICK n \in 0..Len(data[c]) : Overwrite(c, n)
    BY <1>2 DEF Write, ShortWrite
  <1>4. PICK f \in Seq(Word) :
            /\ disk' = [disk EXCEPT ![Out[c]] = f]
            /\ \A i \in 1..Len(f) : \/ i <= Len(File[c]) /\ f[i] = File[c][i]
                                    \/ i <= Len(disk[Out[c]]) /\ f[i] = disk[Out[c]][i]
    BY <1>1, <1>3, WriteFacts
  <1>5. /\ disk[Out[c]] # NULL /\ Out[c] \in Name
        /\ disk \in [Name -> Seq(Word) \union {NULL}]
        /\ Len(disk[Out[c]]) \in Nat
    <2>1. disk[Out[c]] \in Seq(Word)
      BY <1>1, SizeOfFile DEF Inv, TypeOK, GoInv, GoOf
    <2> QED
      BY <1>1, <2>1, SizeOfFile, LenProperties DEF Inv, TypeOK, GoInv, GoOf
  <1>6. ASSUME NEW m \in Name, disk'[m] # NULL, NEW i \in 1..Len(disk'[m])
        PROVE  \E d \in Client : Out[d] = m /\ i <= Len(File[d]) /\ disk'[m][i] = File[d][i]
    <2>1. CASE m = Out[c]
      <3>1. disk'[m] = f
        BY <1>4, <1>5, <2>1
      <3>2. CASE i <= Len(File[c]) /\ f[i] = File[c][i]
        BY <2>1, <3>1, <3>2
      <3>3. CASE i <= Len(disk[m]) /\ f[i] = disk[m][i]
        <4>1. i \in 1..Len(disk[m])
          BY <1>5, <1>6, <2>1, <3>3
        <4> QED
          BY <1>5, <2>1, <3>1, <3>3, <4>1 DEF WordsOfNamesakes
      <3> QED
        BY <1>4, <1>6, <2>1, <3>1, <3>2, <3>3
    <2>2. CASE m # Out[c]
      <3>1. disk'[m] = disk[m]
        BY <1>4, <1>5, <2>2
      <3> QED
        BY <1>6, <3>1 DEF WordsOfNamesakes
    <2> QED
      BY <2>1, <2>2
  <1> QED
    BY <1>6 DEF WordsOfNamesakes

LEMMA StepKeepsWords == Inv /\ WordsOfNamesakes /\ [Next]_vars => WordsOfNamesakes'
  <1> SUFFICES ASSUME Inv, WordsOfNamesakes, [Next]_vars
               PROVE  WordsOfNamesakes'
    OBVIOUS
  <1>1. CASE disk' = disk
    BY <1>1, DiskUntouched
  <1>2. ASSUME NEW c \in Client, Write(c) \/ ShortWrite(c)
        PROVE  WordsOfNamesakes'
    BY <1>2, WriteKeepsWords
  <1>3. ASSUME NEW c \in Client, Create(c)
        PROVE  WordsOfNamesakes'
    <2>1. disk' = [disk EXCEPT ![Out[c]] = <<>>]
      BY <1>3 DEF Create
    <2>2. disk \in [Name -> Seq(Word) \union {NULL}]
      BY DEF Inv, TypeOK
    <2>3. ASSUME NEW m \in Name, disk'[m] # NULL, NEW i \in 1..Len(disk'[m])
          PROVE  \E d \in Client : Out[d] = m /\ i <= Len(File[d]) /\ disk'[m][i] = File[d][i]
      <3>1. CASE m = Out[c]
        <4>1. Len(disk'[m]) = 0
          BY <2>1, <2>2, <3>1
        <4> QED
          BY <2>3, <4>1
      <3>2. CASE m # Out[c]
        <4>1. disk'[m] = disk[m]
          BY <2>1, <2>2, <3>2
        <4> QED
          BY <2>3, <4>1 DEF WordsOfNamesakes
      <3> QED
        BY <3>1, <3>2
    <2> QED
      BY <2>3 DEF WordsOfNamesakes
  <1> QED
    BY <1>1, <1>2, <1>3
    DEF Next, CliStep, HandleClient, Dial, Refused, SendHeader, NoFile, SendChunk, Close,
        SendErr, CliKilled, Accept, ReadHead, ReadHeadFatal, HeadEof, RecvData, RecvEof,
        ReadErr, CreateErr, ServKilled, main, vars, fileVars

LEMMA InitWords == Init => WordsOfNamesakes
  <1> SUFFICES ASSUME Init, NEW n \in Name
               PROVE  disk[n] = NULL
    BY DEF WordsOfNamesakes
  <1> QED
    BY DEF Init

\* Whatever goroutines write one name at the same time and whatever fails: each word of
\* a file on the server is the word at this place of a file sent under the name.
THEOREM WordsFromNamesakes == Spec => []WordsOfNamesakes
  BY InitWords, StepKeepsWords, TypeInvariant, PTL DEF Spec

-------------------------------------------------------------------------------
(* The programs implement the transfer. *)

\* What is written once is not written again, and a file that only one client writes
\* is as os.Create left it until it is written.
LoneOf(c) ==
    /\ c \in stored => go[c] \in {"spin", "gone"}
    /\ c \in Lone /\ go[c] = "write" => disk[Out[c]] = <<>>

LoneInv == \A c \in Client : LoneOf(c)

\* What begun, written and store stand for.
Begun == {c \in Lone : cli[c] # "idle"}

Written == stored \intersect Lone

Store == [n \in {Out[c] : c \in Lone} |-> disk[n]]

\* A step that FileTransfer does not see.
Same == Begun' = Begun /\ Written' = Written /\ Store' = Store

LEMMA InitLone == Init => LoneInv
  BY DEF Init, LoneInv, LoneOf

LEMMA InitTransfer == Init => FT!Init
  <1> SUFFICES ASSUME Init PROVE FT!Init
    OBVIOUS
  <1>1. \A c \in Lone : Out[c] \in Name /\ cli[c] = "idle"
    BY SizeOfFile DEF Init, Lone
  <1>2. Store = [n \in {Out[c] : c \in Lone} |-> NULL]
    BY <1>1 DEF Init, Store
  <1> QED
    BY <1>1, <1>2 DEF Init, FT!Init, Store

\* A step that changes nothing of a client's that LoneOf speaks of.
LEMMA LoneUntouched ==
    ASSUME NEW c \in Client, LoneOf(c),
           go'[c] = go[c] \/ go'[c] \in {"spin", "gone"},
           c \in stored' <=> c \in stored,
           c \in Lone => disk'[Out[c]] = disk[Out[c]]
    PROVE  LoneOf(c)'
  BY DEF LoneOf, Lone

\* One client's file is written.
LEMMA OtherFiles ==
    ASSUME Inv, NEW c \in Client, NEW f, disk' = [disk EXCEPT ![Out[c]] = f]
    PROVE  /\ disk'[Out[c]] = f
           /\ \A d \in Lone \ {c} : disk'[Out[d]] = disk[Out[d]]
           /\ c \in Lone => Store' = [Store EXCEPT ![Out[c]] = f]
           /\ c \notin Lone => Store' = Store
  <1> DEFINE N == {Out[d] : d \in Lone}
  <1>1. /\ disk \in [Name -> Seq(Word) \union {NULL}]
        /\ \A d \in Client : Out[d] \in Name
        /\ Lone \subseteq Client
    BY SizeOfFile DEF Inv, TypeOK, Lone
  <1>2. \A d \in Lone \ {c} : Out[d] # Out[c]
    BY DEF Lone
  <1>3. N \subseteq Name
    BY <1>1
  <1>4. ASSUME c \in Lone PROVE Store' = [Store EXCEPT ![Out[c]] = f]
    <2>1. Out[c] \in N
      BY <1>4
    <2> QED
      BY <1>1, <1>3, <2>1 DEF Store, Lone
  <1>5. ASSUME c \notin Lone PROVE Store' = Store
    <2>1. Out[c] \notin N
      BY <1>2, <1>5
    <2> QED
      BY <1>1, <1>3, <2>1 DEF Store, Lone
  <1> QED
    BY <1>1, <1>2, <1>4, <1>5

\* A lone client's file, n words of which have been written.
LEMMA WriteLone ==
    ASSUME Inv, LoneInv, NEW c \in Client, go[c] = "write", c \in Lone,
           NEW n \in 0..Len(data[c]), Overwrite(c, n)
    PROVE  /\ disk' = [disk EXCEPT ![Out[c]] = SubSeq(File[c], 1, n)]
           /\ n \in 0..Len(File[c])
  <1>1. data[c] = File[c] /\ disk[Out[c]] = <<>> /\ File[c] \in Seq(Word)
        /\ Len(File[c]) \in Nat
    BY SizeOfFile DEF Inv, GoInv, GoOf, LoneInv, LoneOf
  <1>2. n \in 0..Len(File[c]) /\ n \in Nat
    BY <1>1
  <1>3. SubSeq(disk[Out[c]], n + 1, Len(disk[Out[c]])) = <<>>
    <2>1. <<>> \in Seq(Word) /\ Len(<<>>) = 0 /\ n + 1 > 0
      BY <1>2, EmptySeq
    <2>2. SubSeq(<<>>, n + 1, 0) = <<>>
      BY <1>2, <2>1, SubSeqEmpty
    <2> QED
      BY <1>1, <2>1, <2>2
  <1>4. SubSeq(data[c], 1, n) \in Seq(Word)
    BY <1>1, <1>2, PartsOf
  <1> DEFINE part == SubSeq(data[c], 1, n)
  <1>5. part \o <<>> = part
    BY <1>4, ConcatEmptySeq
  <1> QED
    BY <1>1, <1>2, <1>3, <1>5 DEF Overwrite

\* The beginnings of a file are among what a failed write can leave of it, and the
\* whole file is what another one stores.
LEMMA Beginnings ==
    ASSUME NEW c \in Client
    PROVE  /\ \A n \in 0..Len(File[c]) : SubSeq(File[c], 1, n) \in FT!Remains(c)
           /\ Len(File[c]) \in 0..Len(File[c])
           /\ SubSeq(File[c], 1, Len(File[c])) = File[c]
  <1>1. File[c] \in Seq(Word) /\ Len(File[c]) \in Nat
    BY SizeOfFile, LenProperties
  <1>2. \A n \in 0..Len(File[c]) : SubSeq(File[c], 1, n) \in FT!Remains(c)
    BY DEF FT!Remains
  <1> QED
    BY <1>1, <1>2, SubSeqFull

\* The steps that write to the disk.
LEMMA CreateTransfers ==
    ASSUME Inv, LoneInv, NEW c \in Client, Create(c)
    PROVE  LoneInv' /\ (FT!Next \/ Same)
  <1>1. /\ go[c] = "create" /\ disk' = [disk EXCEPT ![Out[c]] = <<>>]
        /\ go' = [go EXCEPT ![c] = "write"] /\ UNCHANGED <<cli, stored>>
    BY DEF Create, cliVars
  <1>2. /\ disk'[Out[c]] = <<>>
        /\ \A d \in Lone \ {c} : disk'[Out[d]] = disk[Out[d]]
        /\ c \in Lone => Store' = [Store EXCEPT ![Out[c]] = <<>>]
        /\ c \notin Lone => Store' = Store
    BY <1>1, OtherFiles
  <1>3. c \notin stored
    BY <1>1 DEF LoneInv, LoneOf
  <1>4. LoneOf(c)'
    BY <1>1, <1>2, <1>3 DEF LoneOf
  <1>5. ASSUME NEW d \in Client \ {c} PROVE LoneOf(d)'
    BY <1>1, <1>2, LoneUntouched DEF LoneInv, Inv, TypeOK
  <1>6. Begun' = Begun /\ Written' = Written
    BY <1>1 DEF Begun, Written, Lone
  <1>7. CASE c \in Lone
    <2>1. /\ c \in Begun \ Written /\ 0 \in 0..Len(File[c]) /\ SubSeq(File[c], 1, 0) = <<>>
      BY <1>1, <1>3, <1>7, SizeOfFile, SubSeqEmpty DEF Begun, Written, Inv, GoInv, GoOf
    <2>2. FT!Spoil(c)
      BY <1>2, <1>6, <1>7, <2>1, Beginnings DEF FT!Spoil, Begun, Written, Store
    <2> QED
      BY <1>4, <1>5, <1>7, <2>2 DEF LoneInv, FT!Next
  <1>8. CASE c \notin Lone
    BY <1>2, <1>4, <1>5, <1>6, <1>8 DEF LoneInv, Same
  <1> QED
    BY <1>7, <1>8

LEMMA WriteTransfers ==
    ASSUME Inv, LoneInv, NEW c \in Client, Write(c)
    PROVE  LoneInv' /\ (FT!Next \/ Same)
  <1>1. /\ go[c] = "write" /\ Overwrite(c, Len(data[c])) /\ stored' = stored \union {c}
        /\ go' = [go EXCEPT ![c] = "spin"] /\ UNCHANGED cli
    BY DEF Write, cliVars
  <1>2. data[c] = File[c] /\ data[c] \in Seq(Word) /\ Len(data[c]) \in Nat
    BY <1>1, SizeOfFile DEF Inv, GoInv, GoOf
  <1>3. PICK f : disk' = [disk EXCEPT ![Out[c]] = f]
    BY <1>1 DEF Overwrite
  <1>4. /\ \A d \in Lone \ {c} : disk'[Out[d]] = disk[Out[d]]
        /\ c \in Lone => Store' = [Store EXCEPT ![Out[c]] = f]
        /\ c \notin Lone => Store' = Store
    BY <1>3, OtherFiles
  <1>5. LoneOf(c)'
    BY <1>1 DEF LoneOf, Inv, TypeOK
  <1>6. ASSUME NEW d \in Client \ {c} PROVE LoneOf(d)'
    BY <1>1, <1>4, LoneUntouched DEF LoneInv, Inv, TypeOK
  <1>7. Begun' = Begun
    BY <1>1 DEF Begun, Lone
  <1>8. CASE c \in Lone
    <2>1. disk' = [disk EXCEPT ![Out[c]] = SubSeq(File[c], 1, Len(data[c]))]
      BY <1>1, <1>2, <1>8, WriteLone
    <2>2. disk' = [disk EXCEPT ![Out[c]] = File[c]]
      BY <1>2, <2>1, SubSeqFull
    <2>3. Store' = [Store EXCEPT ![Out[c]] = File[c]]
      BY <1>8, <2>2, OtherFiles
    <2>4. c \in Begun \ Written
      BY <1>1, <1>8 DEF Begun, Written, LoneInv, LoneOf, Inv, GoInv, GoOf
    <2>5. Written' = Written \union {c}
      BY <1>1, <1>8 DEF Written, Lone
    <2>6. FT!Write(c)
      BY <1>7, <2>3, <2>4, <2>5, Beginnings DEF FT!Write, Begun, Written, Store
    <2> QED
      BY <1>5, <1>6, <1>8, <2>6 DEF LoneInv, FT!Next
  <1>9. CASE c \notin Lone
    <2>1. Written' = Written
      BY <1>1, <1>9 DEF Written, Lone
    <2> QED
      BY <1>4, <1>5, <1>6, <1>7, <1>9, <2>1 DEF LoneInv, Same
  <1> QED
    BY <1>8, <1>9

LEMMA ShortTransfers ==
    ASSUME Inv, LoneInv, NEW c \in Client, ShortWrite(c)
    PROVE  LoneInv' /\ (FT!Next \/ Same)
  <1>1. /\ go[c] = "write"
        /\ ProcessEnds \/ go' = [go EXCEPT ![c] = "spin"]
        /\ UNCHANGED <<cli, stored>>
    BY DEF ShortWrite, cliVars
  <1>2. data[c] \in Seq(Word) /\ Len(data[c]) \in Nat
    BY LenProperties DEF Inv, TypeOK
  <1>3. PICK n \in 0..Len(data[c]) : Overwrite(c, n)
    BY <1>2 DEF ShortWrite
  <1>4. PICK f : disk' = [disk EXCEPT ![Out[c]] = f]
    BY <1>3 DEF Overwrite
  <1>5. /\ \A d \in Lone \ {c} : disk'[Out[d]] = disk[Out[d]]
        /\ c \notin Lone => Store' = Store
    BY <1>4, OtherFiles
  <1>6. go'[c] \in {"spin", "gone"} /\ c \notin stored
    BY <1>1 DEF ProcessEnds, LoneInv, LoneOf, Inv, TypeOK
  <1>7. LoneOf(c)'
    BY <1>1, <1>6 DEF LoneOf
  <1>8. ASSUME NEW d \in Client \ {c} PROVE LoneOf(d)'
    <2>1. go'[d] = go[d] \/ go'[d] \in {"spin", "gone"}
      BY <1>1 DEF ProcessEnds, Inv, TypeOK
    <2> QED
      BY <1>1, <1>5, <2>1, LoneUntouched DEF LoneInv
  <1>9. Begun' = Begun /\ Written' = Written
    BY <1>1 DEF Begun, Written, Lone
  <1>10. CASE c \in Lone
    <2>1. n \in 0..Len(File[c]) /\ disk' = [disk EXCEPT ![Out[c]] = SubSeq(File[c], 1, n)]
      BY <1>1, <1>3, <1>10, WriteLone
    <2>2. Store' = [Store EXCEPT ![Out[c]] = SubSeq(File[c], 1, n)]
      BY <1>10, <2>1, OtherFiles
    <2>3. c \in Begun \ Written
      BY <1>1, <1>6, <1>10 DEF Begun, Written, Inv, GoInv, GoOf
    <2>4. FT!Spoil(c)
      BY <1>9, <2>1, <2>2, <2>3, Beginnings DEF FT!Spoil, Begun, Written, Store
    <2> QED
      BY <1>7, <1>8, <1>10, <2>4 DEF LoneInv, FT!Next
  <1>11. CASE c \notin Lone
    BY <1>5, <1>7, <1>8, <1>9, <1>11 DEF LoneInv, Same
  <1> QED
    BY <1>10, <1>11

\* The steps that do not.
LEMMA RestTransfers ==
    ASSUME Inv, LoneInv, UNCHANGED fileVars,
           \A c \in Client :
               go'[c] \in {go[c], "backlog", "head", "recv", "create", "spin", "gone"},
           \A c \in Client : go'[c] # go[c] => go[c] \notin {"spin", "gone"} \/ go'[c] = "gone",
           \/ UNCHANGED cli
           \/ \E c \in Client, t \in CliStage \ {"idle"} : cli' = [cli EXCEPT ![c] = t]
    PROVE  LoneInv' /\ (FT!Next \/ Same)
  <1>1. LoneInv'
    BY DEF LoneInv, LoneOf, Lone, fileVars
  <1>2. Written' = Written /\ Store' = Store
    BY DEF Written, Store, Lone, fileVars
  <1>3. CASE UNCHANGED cli
    BY <1>1, <1>2, <1>3 DEF Same, Begun, Lone
  <1>4. ASSUME NEW c \in Client, NEW t \in CliStage \ {"idle"},
               cli' = [cli EXCEPT ![c] = t]
        PROVE  FT!Next \/ Same
    <2>1. cli'[c] # "idle" /\ \A d \in Client \ {c} : cli'[d] = cli[d]
      BY <1>4 DEF Inv, TypeOK
    <2>2. CASE c \in Lone /\ cli[c] = "idle"
      <3>1. c \notin Begun /\ Begun' = Begun \union {c}
        BY <1>4, <2>1, <2>2 DEF Begun, Lone
      <3>2. FT!Begin(c)
        BY <1>2, <3>1 DEF FT!Begin, Begun, Written, Store
      <3> QED
        BY <2>2, <3>2 DEF FT!Next
    <2>3. CASE ~(c \in Lone /\ cli[c] = "idle")
      BY <1>2, <1>4, <2>1, <2>3 DEF Same, Begun, Lone
    <2> QED
      BY <2>2, <2>3
  <1> QED
    BY <1>1, <1>3, <1>4

LEMMA TransferStep ==
    Inv /\ LoneInv /\ [Next]_vars => LoneInv' /\ [FT!Next]_(FT!ftVars)
  <1> SUFFICES ASSUME Inv, LoneInv, [Next]_vars
               PROVE  LoneInv' /\ (FT!Next \/ Same)
    BY DEF Same, FT!ftVars, Begun, Written, Store
  <1> USE DEF Inv, TypeOK, cliVars, recvVars, fileVars
  <1>1. ASSUME NEW c \in Client,
               \/ Dial(c) \/ Refused(c) \/ SendHeader(c) \/ SendChunk(c) \/ Close(c)
               \/ SendErr(c) \/ NoFile(c) \/ CliKilled(c)
        PROVE  LoneInv' /\ (FT!Next \/ Same)
    <2>1. /\ UNCHANGED fileVars
          /\ UNCHANGED cli \/ (\E t \in CliStage \ {"idle"} : cli' = [cli EXCEPT ![c] = t])
          /\ UNCHANGED go \/ (go[c] = "none" /\ go' = [go EXCEPT ![c] = "backlog"])
      BY <1>1 DEF Dial, Refused, SendHeader, SendChunk, Close, SendErr, NoFile, CliKilled,
                  CliStage, GoInv, GoOf
    <2> QED
      BY <2>1, RestTransfers
  <1>2. ASSUME NEW c \in Client,
               \/ Accept(c) \/ ReadHead(c) \/ HeadEof(c) \/ RecvData(c) \/ RecvEof(c)
        PROVE  LoneInv' /\ (FT!Next \/ Same)
    <2>1. /\ UNCHANGED <<fileVars, cli>> /\ go[c] \in {"backlog", "head", "recv"}
          /\ \/ UNCHANGED go
             \/ \E t \in {"head", "recv", "create", "spin"} : go' = [go EXCEPT ![c] = t]
      BY <1>2 DEF Accept, ReadHead, HeadEof, RecvData, RecvEof
    <2> QED
      BY <2>1, RestTransfers
  <1>3. ASSUME ProcessEnds, UNCHANGED <<fileVars, cli>>
        PROVE  LoneInv' /\ (FT!Next \/ Same)
    BY <1>3, RestTransfers DEF ProcessEnds
  <1>4. CASE main \/ UNCHANGED vars
    BY <1>4, RestTransfers DEF main, vars
  <1> QED
    BY <1>1, <1>2, <1>3, <1>4, CreateTransfers, WriteTransfers, ShortTransfers
    DEF Next, CliStep, HandleClient, ReadHeadFatal, ReadErr, CreateErr, ServKilled

\* For the clients whose file's name is sent by no other, every behaviour of the two
\* programs, with its kills, restarts and short writes, is one of FileTransfer's.
THEOREM GoImplements == Spec => Transfer
  BY InitType, StepKeepsType, InitLone, InitTransfer, TransferStep, PTL
  DEF Spec, Transfer, FT!Spec

===============================================================================
