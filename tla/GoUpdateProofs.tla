---------------------------- MODULE GoUpdateProofs ----------------------------
(***************************************************************************)
(* Theorems about GoUpdate, for every set of clients, files and names,     *)
(* every size of the buffers and every number of faults and restarts.      *)
(***************************************************************************)
EXTENDS GoUpdate, SequenceFacts

-------------------------------------------------------------------------------
(* Words in their places. *)

\* Each word of s, the first of which is at place k + 1, is the file n's or a zero.
KeptFrom(n, k, s) == \A i \in 1..Len(s) : Kept(n, k + i, s[i])

LEMMA KeptEmpty ==
    ASSUME NEW n, NEW k
    PROVE  KeptFrom(n, k, <<>>)
  <1>1. Len(<<>>) = 0 /\ 1..0 = {}
    OBVIOUS
  <1> QED
    BY <1>1 DEF KeptFrom

LEMMA KeptConcat ==
    ASSUME NEW n, NEW k \in Nat, NEW s \in Seq(Word), NEW t \in Seq(Word),
           KeptFrom(n, k, s), KeptFrom(n, k + Len(s), t)
    PROVE  KeptFrom(n, k, s \o t)
  <1>1. Len(s) \in Nat /\ Len(t) \in Nat /\ Len(s \o t) = Len(s) + Len(t)
    BY LenProperties, ConcatProperties
  <1>2. ASSUME NEW i \in 1..Len(s \o t)
        PROVE  Kept(n, k + i, (s \o t)[i])
    <2>1. (s \o t)[i] = IF i <= Len(s) THEN s[i] ELSE t[i - Len(s)]
      BY ConcatProperties
    <2>2. CASE i <= Len(s)
      BY <1>1, <2>1, <2>2 DEF KeptFrom
    <2>3. CASE ~(i <= Len(s))
      <3>1. i - Len(s) \in 1..Len(t) /\ (k + Len(s)) + (i - Len(s)) = k + i
        BY <1>1, <2>3
      <3>2. Kept(n, (k + Len(s)) + (i - Len(s)), t[i - Len(s)])
        BY <3>1 DEF KeptFrom
      <3> QED
        BY <2>1, <2>3, <3>1, <3>2
    <2> QED
      BY <2>2, <2>3
  <1> QED
    BY <1>2 DEF KeptFrom

LEMMA KeptPart ==
    ASSUME NEW n, NEW k \in Nat, NEW s \in Seq(Word), KeptFrom(n, k, s),
           NEW a \in Nat, NEW b \in Nat, a <= b, b <= Len(s)
    PROVE  KeptFrom(n, k + a, SubSeq(s, a + 1, b))
  <1> DEFINE t == SubSeq(s, a + 1, b)
  <1>1. /\ Len(t) = IF a + 1 <= b THEN b - (a + 1) + 1 ELSE 0
        /\ \A i \in 1..(b - (a + 1) + 1) : t[i] = s[(a + 1) + i - 1]
    <2>1. a + 1 \in Nat \ {0} /\ b \in Int
      OBVIOUS
    <2> QED
      BY ONLY <2>1, SubSeqIsSeq, s \in Seq(Word), b <= Len(s)
  <1> HIDE DEF t
  <1>2. ASSUME NEW i \in 1..Len(t)
        PROVE  Kept(n, (k + a) + i, t[i])
    <2>1. /\ i \in 1..(b - (a + 1) + 1) /\ (a + 1) + i - 1 = a + i
          /\ a + i \in 1..Len(s) /\ (k + a) + i = k + (a + i)
      BY <1>1, LenProperties
    <2>2. t[i] = s[a + i]
      BY <1>1, <2>1
    <2> QED
      BY <2>1, <2>2 DEF KeptFrom
  <1> QED
    BY <1>2 DEF KeptFrom, t

\* What a write leaves in a file.
LEMMA WriteAtIs ==
    ASSUME NEW f \in Seq(Word), NEW k \in Nat, NEW words \in Seq(Word)
    PROVE  /\ WriteAt(f, k, words) \in Seq(Word)
           /\ Len(WriteAt(f, k, words)) =
                  IF k + Len(words) < Len(f) THEN Len(f) ELSE k + Len(words)
           /\ \A i \in 1..Len(WriteAt(f, k, words)) :
                  WriteAt(f, k, words)[i] =
                      IF i \in k + 1..k + Len(words) THEN words[i - k]
                      ELSE IF i <= Len(f) THEN f[i] ELSE 0
  <1> DEFINE m == IF k + Len(words) < Len(f) THEN Len(f) ELSE k + Len(words)
             e(i) == IF i \in k + 1..k + Len(words) THEN words[i - k]
                     ELSE IF i <= Len(f) THEN f[i] ELSE 0
             g == [i \in 1..m |-> e(i)]
  <1>1. Len(f) \in Nat /\ Len(words) \in Nat /\ m \in Nat
    BY LenProperties
  <1>2. WriteAt(f, k, words) = g
    BY DEF WriteAt
  <1>3. ASSUME NEW i \in 1..m PROVE e(i) \in Word
    <2>1. CASE i \in k + 1..k + Len(words)
      <3>1. i - k \in 1..Len(words)
        BY <1>1, <2>1
      <3> QED
        BY <2>1, <3>1, ElementOfSeq
    <2>2. CASE i \notin k + 1..k + Len(words) /\ i <= Len(f)
      <3>1. i \in 1..Len(f)
        BY <1>1, <2>2
      <3> QED
        BY <2>2, <3>1, ElementOfSeq
    <2>3. CASE i \notin k + 1..k + Len(words) /\ ~(i <= Len(f))
      BY <2>3, GoUpdateAssumption
    <2> QED
      BY <2>1, <2>2, <2>3
  <1> HIDE DEF m, e
  <1>4. g \in Seq(Word) /\ Len(g) = m
    <2>1. g \in [1..m -> Word]
      BY <1>3
    <2> QED
      BY ONLY <1>1, <2>1, IsASeq, LenProperties
  <1>5. \A i \in 1..m : g[i] = e(i)
    OBVIOUS
  <1> QED
    BY <1>2, <1>4, <1>5 DEF m, e

\* A write of kept words leaves kept words, if what it leaves free may be zeros.
LEMMA WrittenIsKept ==
    ASSUME NEW n, NEW f \in Seq(Word), NEW k \in Nat, NEW words \in Seq(Word),
           KeptFrom(n, 0, f), KeptFrom(n, k, words), words # <<>>,
           Len(f) < k => Shared(n), File[n] \in Seq(Word)
    PROVE  KeptFrom(n, 0, WriteAt(f, k, words))
  <1> DEFINE g == WriteAt(f, k, words)
  <1>1. /\ Len(f) \in Nat /\ Len(words) \in Nat /\ Len(words) # 0
        /\ Len(File[n]) \in Nat
    BY LenProperties, EmptySeq
  <1>2. /\ Len(g) = IF k + Len(words) < Len(f) THEN Len(f) ELSE k + Len(words)
        /\ \A i \in 1..Len(g) :
               g[i] = IF i \in k + 1..k + Len(words) THEN words[i - k]
                      ELSE IF i <= Len(f) THEN f[i] ELSE 0
    BY WriteAtIs
  <1> HIDE DEF g
  <1>3. k + Len(words) <= Len(File[n])
    <2>1. Len(words) \in 1..Len(words)
      BY <1>1
    <2> QED
      BY <2>1 DEF KeptFrom, Kept
  <1>4. ASSUME NEW i \in 1..Len(g)
        PROVE  Kept(n, 0 + i, g[i])
    <2>0. 0 + i = i /\ i \in Nat
      OBVIOUS
    <2>1. CASE i \in k + 1..k + Len(words)
      <3>1. i - k \in 1..Len(words) /\ k + (i - k) = i
        BY <1>1, <2>1
      <3>2. Kept(n, k + (i - k), words[i - k])
        BY <3>1 DEF KeptFrom
      <3>3. g[i] = words[i - k]
        BY <1>2, <2>1
      <3> QED
        BY <2>0, <3>1, <3>2, <3>3
    <2>2. CASE i \notin k + 1..k + Len(words) /\ i <= Len(f)
      <3>1. i \in 1..Len(f) /\ g[i] = f[i]
        BY <1>1, <1>2, <2>2
      <3> QED
        BY <3>1 DEF KeptFrom
    <2>3. CASE i \notin k + 1..k + Len(words) /\ ~(i <= Len(f))
      <3>1. g[i] = 0
        BY <1>2, <2>3
      <3>2. i <= k + Len(words) /\ ~(i > k) /\ i > Len(f)
        BY <1>1, <1>2, <2>3
      <3>3. Len(f) < k /\ i <= Len(File[n])
        BY <1>1, <1>3, <3>2
      <3> QED
        BY <2>0, <3>1, <3>3 DEF Kept
    <2> QED
      BY <2>1, <2>2, <2>3
  <1> QED
    BY <1>4 DEF KeptFrom, g

-------------------------------------------------------------------------------
(* The inductive invariant. *)

\* A goroutine opens what its client has asked for, and sends nothing before that.
LinkOf(c) ==
    /\ fp[c] \in {NULL, Want[c]}
    /\ fp[c] # NULL => cli[c] \notin {"idle", "ask"}
    /\ fp[c] = NULL => pos[c] = 0
    /\ cli[c] \in {"idle", "ask", "create"} => buf[c] = <<>> /\ off[c] = 0

\* Where the words are that were sent to c.
WholeOf(c) ==
    cli[c] # "dead" =>
        /\ off[c] + Len(buf[c]) + Len(down[c]) = pos[c]
        /\ KeptFrom(Want[c], off[c], buf[c])
        /\ KeptFrom(Want[c], off[c] + Len(buf[c]), down[c])
        /\ cli[c] \in {"copy", "done"} /\ ~Shared(Dest[c]) =>
               Len(dir[Dest[c]]) = off[c] /\ KeptFrom(Want[c], 0, dir[Dest[c]])

LinkInv == \A c \in Client : LinkOf(c) /\ WholeOf(c)

Served ==
    \A c \in Client : dir[Want[c]] # NULL => KeptFrom(Want[c], 0, dir[Want[c]])

Inv == TypeOK /\ LinkInv /\ Served

LEMMA Types ==
    ASSUME TypeOK, NEW c \in Client
    PROVE  /\ Want[c] \in Name /\ Dest[c] \in Name /\ NULL \notin Name
           /\ File[Want[c]] \in Seq(Word)
           /\ dir[Want[c]] \in Seq(Word) \union {NULL}
           /\ dir[Dest[c]] \in Seq(Word) \union {NULL}
           /\ buf[c] \in Seq(Word) /\ down[c] \in Seq(Word)
           /\ pos[c] \in Nat /\ off[c] \in Nat /\ NULL \notin Seq(Word)
  BY GoUpdateAssumption DEF TypeOK

LEMMA InitInv == Init => Inv
  <1> SUFFICES ASSUME Init PROVE Inv
    OBVIOUS
  <1>1. <<>> \in Seq(Word) /\ Len(<<>>) = 0
    OBVIOUS
  <1>2. BUFIO \in Nat /\ MaxFaults \in Nat /\ File \in [Name -> Seq(Word)]
    BY GoUpdateAssumption
  <1>3. PICK there \in SUBSET Name :
            dir = [n \in Name |-> IF n \in there THEN File[n] ELSE NULL]
    BY DEF Init
  <1>4. TypeOK
    <2>1. dir \in [Name -> Seq(Word) \union {NULL}]
      BY <1>2, <1>3
    <2> QED
      BY <1>1, <1>2, <2>1 DEF Init, TypeOK, CliStage, GoStage
  <1>5. LinkInv
    <2> SUFFICES ASSUME NEW c \in Client PROVE LinkOf(c) /\ WholeOf(c)
      BY DEF LinkInv
    <2>1. /\ cli[c] = "idle" /\ buf[c] = <<>> /\ off[c] = 0 /\ fp[c] = NULL
          /\ pos[c] = 0 /\ down[c] = <<>>
      BY DEF Init
    <2>2. KeptFrom(Want[c], off[c], <<>>) /\ KeptFrom(Want[c], off[c] + Len(buf[c]), <<>>)
      BY KeptEmpty
    <2> QED
      BY <1>1, <2>1, <2>2 DEF LinkOf, WholeOf
  <1>6. Served
    <2> SUFFICES ASSUME NEW c \in Client, dir[Want[c]] # NULL
                 PROVE  KeptFrom(Want[c], 0, dir[Want[c]])
      BY DEF Served
    <2>1. dir[Want[c]] = File[Want[c]] /\ File[Want[c]] \in Seq(Word)
      BY <1>2, <1>3, <1>4, Types
    <2>2. Len(File[Want[c]]) \in Nat
      BY <2>1, LenProperties
    <2>3. ASSUME NEW i \in 1..Len(File[Want[c]])
          PROVE  Kept(Want[c], 0 + i, File[Want[c]][i])
      <3>1. 0 + i = i /\ i <= Len(File[Want[c]])
        BY <2>2
      <3> QED
        BY <3>1, Zenon DEF Kept
    <2> QED
      BY <2>1, <2>3, Zenon DEF KeptFrom
  <1> QED
    BY <1>4, <1>5, <1>6 DEF Inv

-------------------------------------------------------------------------------
(* Steps that move no words. *)

\* What such a step may do to the stages.
Quiet ==
    /\ listening' \in BOOLEAN
    /\ faults' \in 0..MaxFaults
    /\ cli' \in [Client -> CliStage]
    /\ go' \in [Client -> GoStage]
    /\ UNCHANGED <<buf, fp, pos, down, off, dir>>
    /\ \A d \in Client :
        /\ \/ cli'[d] = cli[d]
           \/ cli[d] = "idle" /\ cli'[d] = "ask"
           \/ cli[d] = "ask" /\ cli'[d] = "create"
           \/ cli[d] = "copy" /\ cli'[d] = "done"
           \/ cli'[d] = "dead"
        /\ go'[d] = "copy" => go[d] = "copy"

LEMMA FaultType ==
    ASSUME TypeOK, Fault
    PROVE  faults' \in 0..MaxFaults
  <1>1. MaxFaults \in Nat /\ faults \in 0..MaxFaults
    BY GoUpdateAssumption DEF TypeOK
  <1> QED
    BY <1>1 DEF Fault

LEMMA CliQuiet ==
    ASSUME TypeOK, NEW c \in Client,
           \/ Dial(c) \/ Refused(c) \/ Ask(c) \/ CopyEof(c) \/ Reset(c) \/ CreateErr(c)
           \/ CliKilled(c)
    PROVE  Quiet
  <1> USE DEF TypeOK, CliStage, GoStage, Quiet, servVars, fileVars
  <1>1. CASE Dial(c)
    BY <1>1 DEF Dial
  <1>2. CASE Refused(c)
    BY <1>2 DEF Refused
  <1>3. CASE Ask(c)
    BY <1>3 DEF Ask
  <1>4. CASE CopyEof(c)
    BY <1>4 DEF CopyEof
  <1>5. CASE Reset(c)
    BY <1>5 DEF Reset
  <1>6. CASE CreateErr(c)
    BY <1>6, FaultType DEF CreateErr
  <1>7. CASE CliKilled(c)
    BY <1>7, FaultType DEF CliKilled
  <1> QED
    BY <1>1, <1>2, <1>3, <1>4, <1>5, <1>6, <1>7

LEMMA ServQuiet ==
    ASSUME TypeOK, NEW c \in Client,
           \/ Accept(c) \/ OpenErr(c) \/ OpenFault(c) \/ SendEnd(c) \/ SendErr(c)
           \/ SendFault(c)
    PROVE  Quiet
  <1> USE DEF TypeOK, CliStage, GoStage, Quiet, fileVars
  <1>1. CASE Accept(c)
    BY <1>1 DEF Accept
  <1>2. CASE OpenErr(c)
    BY <1>2 DEF OpenErr
  <1>3. CASE OpenFault(c)
    BY <1>3, FaultType DEF OpenFault
  <1>4. CASE SendEnd(c)
    BY <1>4 DEF SendEnd
  <1>5. CASE SendErr(c)
    BY <1>5 DEF SendErr
  <1>6. CASE SendFault(c)
    BY <1>6, FaultType DEF SendFault
  <1> QED
    BY <1>1, <1>2, <1>3, <1>4, <1>5, <1>6

LEMMA ProcessQuiet ==
    ASSUME TypeOK, ServKilled \/ main \/ UNCHANGED vars
    PROVE  Quiet
  <1> USE DEF TypeOK, CliStage, GoStage, Quiet, servVars, fileVars
  <1>1. CASE ServKilled
    BY <1>1, FaultType DEF ServKilled
  <1>2. CASE main
    BY <1>2 DEF main
  <1>3. CASE UNCHANGED vars
    BY <1>3 DEF vars
  <1> QED
    BY <1>1, <1>2, <1>3

LEMMA QuietKeepsInv ==
    ASSUME Inv, Quiet
    PROVE  Inv'
  <1>1. TypeOK'
    BY DEF Inv, TypeOK, Quiet, LinkInv, LinkOf
  <1>2. ASSUME NEW c \in Client PROVE LinkOf(c)' /\ WholeOf(c)'
    BY DEF Inv, LinkInv, LinkOf, WholeOf, Quiet, fileVars
  <1>3. Served'
    BY DEF Inv, Served, Quiet
  <1> QED
    BY <1>1, <1>2, <1>3 DEF Inv, LinkInv

-------------------------------------------------------------------------------
(* Steps that move words. *)

\* What a client writes leaves the files of all others, and those that share its own
\* promise nothing of theirs.
LEMMA OthersKeepLink ==
    ASSUME Inv, NEW c \in Client, NEW d \in Client, d # c,
           Dest[d] # Dest[c] => dir'[Dest[d]] = dir[Dest[d]],
           cli'[d] = cli[d], fp'[d] = fp[d], pos'[d] = pos[d],
           down'[d] = down[d], buf'[d] = buf[d], off'[d] = off[d]
    PROVE  LinkOf(d)' /\ WholeOf(d)'
  <1>1. Dest[d] = Dest[c] => Shared(Dest[d])
    BY DEF Shared
  <1>2. LinkOf(d)'
    BY DEF Inv, LinkInv, LinkOf
  <1>3. WholeOf(d)'
    BY <1>1 DEF Inv, LinkInv, WholeOf
  <1> QED
    BY <1>2, <1>3

\* The files after c has changed its own.
LEMMA OtherFiles ==
    ASSUME TypeOK, NEW c \in Client, NEW f \in Seq(Word),
           dir' = [dir EXCEPT ![Dest[c]] = f]
    PROVE  /\ dir'[Dest[c]] = f
           /\ dir' \in [Name -> Seq(Word) \union {NULL}]
           /\ \A n \in Name : dir[n] # NULL => dir'[n] # NULL
           /\ \A n \in Name : n # Dest[c] => dir'[n] = dir[n]
  BY GoUpdateAssumption DEF TypeOK

\* The served files stay so if the one that c writes does.
LEMMA WriteKeepsServed ==
    ASSUME Inv, NEW c \in Client, NEW f \in Seq(Word),
           dir' = [dir EXCEPT ![Dest[c]] = f],
           Want[c] = Dest[c] => KeptFrom(Want[c], 0, f)
    PROVE  Served'
  <1>1. ASSUME NEW d \in Client, dir'[Want[d]] # NULL
        PROVE  KeptFrom(Want[d], 0, dir'[Want[d]])
    <2>1. Want[d] \in Name
      BY Types DEF Inv
    <2>2. CASE Want[d] = Dest[c]
      <3>1. Want[c] = Dest[c]
        BY <2>2, GoUpdateAssumption
      <3>2. dir'[Dest[c]] = f
        BY OtherFiles DEF Inv
      <3> QED
        BY <2>2, <3>1, <3>2
    <2>3. CASE Want[d] # Dest[c]
      <3>1. dir'[Want[d]] = dir[Want[d]]
        BY <2>1, <2>3, OtherFiles DEF Inv
      <3> QED
        BY <1>1, <3>1 DEF Inv, Served
    <2> QED
      BY <2>2, <2>3
  <1> QED
    BY <1>1 DEF Served

\* The effect of Write on c's file.
LEMMA WriteIs ==
    ASSUME Inv, NEW c \in Client, cli[c] = "copy", NEW words \in Seq(Word),
           words # <<>>, KeptFrom(Want[c], off[c], words), Write(c, words)
    PROVE  /\ off' = [off EXCEPT ![c] = off[c] + Len(words)]
           /\ off' \in [Client -> Nat]
           /\ dir' \in [Name -> Seq(Word) \union {NULL}]
           /\ \A n \in Name : dir[n] # NULL => dir'[n] # NULL
           /\ \A n \in Name : n # Dest[c] => dir'[n] = dir[n]
           /\ ~Shared(Dest[c]) => /\ Len(dir'[Dest[c]]) = off[c] + Len(words)
                                  /\ KeptFrom(Want[c], 0, dir'[Dest[c]])
           /\ Served'
  <1> DEFINE f == dir[Dest[c]]
             g == WriteAt(f, off[c], words)
  <1>1. /\ dir' = [dir EXCEPT ![Dest[c]] = g]
        /\ off' = [off EXCEPT ![c] = off[c] + Len(words)]
    BY DEF Write
  <1>2. /\ f \in Seq(Word) /\ off[c] \in Nat /\ File[Want[c]] \in Seq(Word)
        /\ Len(words) \in Nat
    BY Types, LenProperties DEF Inv, TypeOK
  <1> HIDE DEF f
  <1>3. g \in Seq(Word)
    BY <1>2, WriteAtIs
  <1>4. Len(g) = IF off[c] + Len(words) < Len(f) THEN Len(f) ELSE off[c] + Len(words)
    BY <1>2, WriteAtIs
  <1>5. off' \in [Client -> Nat]
    BY <1>1, <1>2 DEF Inv, TypeOK
  <1>6. ~Shared(Dest[c]) => Len(f) = off[c] /\ KeptFrom(Want[c], 0, f)
    BY DEF Inv, LinkInv, WholeOf, f
  <1>7. ASSUME ~Shared(Dest[c])
        PROVE  Len(g) = off[c] + Len(words) /\ KeptFrom(Want[c], 0, g)
    <2>1. Len(f) = off[c] /\ KeptFrom(Want[c], 0, f)
      BY <1>6, <1>7
    <2>2. Len(g) = off[c] + Len(words)
      BY <1>2, <1>4, <2>1
    <2>3. KeptFrom(Want[c], 0, g)
      <3>1. Len(f) < off[c] => Shared(Want[c])
        BY <1>2, <2>1
      <3> QED
        BY <1>2, <2>1, <3>1, WrittenIsKept
    <2> QED
      BY <2>2, <2>3
  <1>8. ASSUME Want[c] = Dest[c]
        PROVE  KeptFrom(Want[c], 0, g)
    <2>1. CASE Shared(Dest[c])
      <3>1. KeptFrom(Want[c], 0, f)
        <4>1. dir[Want[c]] # NULL /\ dir[Want[c]] = f
          BY <1>2, <1>8, Types DEF Inv, f
        <4> QED
          BY <4>1 DEF Inv, Served
      <3>2. Len(f) < off[c] => Shared(Want[c])
        BY <1>8, <2>1
      <3> QED
        BY <1>2, <3>1, <3>2, WrittenIsKept
    <2> QED
      BY <1>7, <2>1
  <1> HIDE DEF g
  <1>9. Served'
    BY <1>1, <1>3, <1>8, WriteKeepsServed
  <1>10. /\ dir'[Dest[c]] = g
         /\ dir' \in [Name -> Seq(Word) \union {NULL}]
         /\ \A n \in Name : dir[n] # NULL => dir'[n] # NULL
         /\ \A n \in Name : n # Dest[c] => dir'[n] = dir[n]
    BY <1>1, <1>3, OtherFiles DEF Inv
  <1> QED
    BY <1>1, <1>5, <1>7, <1>9, <1>10

LEMMA CreateKeepsInv ==
    ASSUME Inv, NEW c \in Client, Create(c)
    PROVE  Inv'
  <1>1. /\ cli[c] = "create"
        /\ cli' = [cli EXCEPT ![c] = "copy"]
        /\ dir' = [dir EXCEPT ![Dest[c]] = <<>>]
        /\ UNCHANGED <<listening, buf, off, go, fp, pos, down, faults>>
    BY DEF Create, servVars
  <1>2. <<>> \in Seq(Word) /\ Len(<<>>) = 0 /\ KeptFrom(Want[c], 0, <<>>)
    BY KeptEmpty
  <1>3. /\ dir'[Dest[c]] = <<>>
        /\ dir' \in [Name -> Seq(Word) \union {NULL}]
        /\ \A n \in Name : dir[n] # NULL => dir'[n] # NULL
        /\ \A n \in Name : n # Dest[c] => dir'[n] = dir[n]
    BY <1>1, <1>2, OtherFiles DEF Inv
  <1>4. /\ \A d \in Client : Dest[d] \in Name /\ <<>> # NULL
        /\ \A d \in Client : fp[d] # NULL => fp[d] \in Name
    BY <1>2, GoUpdateAssumption DEF Inv, TypeOK
  <1>5. TypeOK'
    BY <1>1, <1>3, <1>4 DEF Inv, TypeOK, CliStage
  <1>6. LinkOf(c)' /\ WholeOf(c)'
    BY <1>1, <1>2, <1>3 DEF Inv, TypeOK, LinkInv, LinkOf, WholeOf
  <1>7. ASSUME NEW d \in Client, d # c
        PROVE  LinkOf(d)' /\ WholeOf(d)'
    <2>1. /\ Dest[d] # Dest[c] => dir'[Dest[d]] = dir[Dest[d]]
          /\ cli'[d] = cli[d]
          /\ UNCHANGED <<buf, off, fp, pos, down>>
      BY <1>1, <1>3, <1>4, <1>7 DEF Inv, TypeOK
    <2> QED
      BY <1>7, <2>1, OthersKeepLink
  <1>8. Served'
    BY <1>1, <1>2, WriteKeepsServed
  <1> QED
    BY <1>5, <1>6, <1>7, <1>8 DEF Inv, LinkInv

LEMMA OpenKeepsInv ==
    ASSUME Inv, NEW c \in Client, Open(c)
    PROVE  Inv'
  <1>1. /\ Asked(c) /\ dir[Want[c]] # NULL
        /\ go' = [go EXCEPT ![c] = "copy"]
        /\ fp' = [fp EXCEPT ![c] = Want[c]]
        /\ UNCHANGED <<listening, cli, buf, off, pos, down, dir, faults>>
    BY DEF Open, fileVars
  <1>2. Want[c] \in Name /\ Want[c] # NULL
    BY Types DEF Inv
  <1>3. TypeOK'
    BY <1>1, <1>2 DEF Inv, TypeOK, GoStage
  <1>4. Served'
    BY <1>1 DEF Inv, Served
  <1>5. \A d \in Client : fp'[d] = IF d = c THEN Want[c] ELSE fp[d]
    BY <1>1 DEF Inv, TypeOK
  <1>6. ASSUME NEW d \in Client
        PROVE  LinkOf(d)'
    BY <1>1, <1>2, <1>5 DEF Inv, LinkInv, LinkOf, Asked
  <1>7. ASSUME NEW d \in Client
        PROVE  WholeOf(d)'
    BY <1>1 DEF Inv, LinkInv, WholeOf
  <1> QED
    BY <1>3, <1>4, <1>6, <1>7 DEF Inv, LinkInv

\* io.Copy's read: its words go on to the file or to the buffer.
LEMMA CopyKeepsInv ==
    ASSUME Inv, NEW c \in Client, Copy(c)
    PROVE  Inv'
  <1>1. PICK n \in 1..Len(down[c]) :
            /\ down' = [down EXCEPT ![c] = SubSeq(@, n + 1, Len(@))]
            /\ \/ /\ c \in Direct
                  /\ Write(c, SubSeq(down[c], 1, n))
                  /\ UNCHANGED buf
               \/ /\ c \notin Direct
                  /\ n <= Room(c)
                  /\ buf' = [buf EXCEPT ![c] = @ \o SubSeq(down[c], 1, n)]
                  /\ UNCHANGED fileVars
    BY DEF Copy
  <1>2. cli[c] = "copy" /\ UNCHANGED <<listening, cli, go, fp, pos, faults>>
    BY DEF Copy, servVars
  <1>3. /\ buf[c] \in Seq(Word) /\ down[c] \in Seq(Word)
        /\ Len(buf[c]) \in Nat /\ Len(buf[c]) <= (IF c \in Direct THEN 0 ELSE BUFIO)
        /\ Len(down[c]) \in Nat /\ off[c] \in Nat /\ pos[c] \in Nat
        /\ BUFIO \in Nat \ {0}
    BY Types, LenProperties, GoUpdateAssumption DEF Inv, TypeOK
  <1>4. /\ off[c] + Len(buf[c]) + Len(down[c]) = pos[c]
        /\ KeptFrom(Want[c], off[c], buf[c])
        /\ KeptFrom(Want[c], off[c] + Len(buf[c]), down[c])
    BY <1>2 DEF Inv, LinkInv, WholeOf
  <1> DEFINE k == off[c] + Len(buf[c])
             a == SubSeq(down[c], 1, n)
             w == SubSeq(down[c], n + 1, Len(down[c]))
  <1>5. /\ a \in Seq(Word) /\ Len(a) = n /\ w \in Seq(Word)
        /\ Len(w) = Len(down[c]) - n /\ n \in Nat /\ n # 0
    <2>1. n \in 0..Len(down[c]) /\ n \in Nat /\ n # 0
      BY <1>3
    <2> QED
      BY ONLY <1>3, <2>1, Split
  <1>6. KeptFrom(Want[c], k, a) /\ KeptFrom(Want[c], k + n, w)
    <2>1. /\ k \in Nat /\ k + 0 = k /\ 0 + 1 = 1 /\ 0 \in Nat /\ 0 <= n
          /\ n <= Len(down[c]) /\ Len(down[c]) <= Len(down[c])
      BY <1>3, <1>5
    <2> HIDE DEF k
    <2>2. KeptFrom(Want[c], k, down[c])
      BY <1>4 DEF k
    <2>3. KeptFrom(Want[c], k + 0, SubSeq(down[c], 0 + 1, n))
      BY ONLY <1>3, <1>5, <2>1, <2>2, KeptPart, Zenon
    <2>4. KeptFrom(Want[c], k + n, SubSeq(down[c], n + 1, Len(down[c])))
      BY ONLY <1>3, <1>5, <2>1, <2>2, KeptPart, Zenon
    <2> QED
      BY <2>1, <2>3, <2>4
  <1>7. down' = [down EXCEPT ![c] = w]
    BY <1>1
  <1>8. /\ down' \in [Client -> Seq(Word)] /\ down'[c] = w
        /\ \A d \in Client : d # c => down'[d] = down[d]
    BY <1>5, <1>7 DEF Inv, TypeOK
  <1> HIDE DEF a, w, k
  <1>9. \A d \in Client : fp'[d] = fp[d] /\ Dest[d] \in Name /\ (fp[d] # NULL => fp[d] \in Name)
    BY <1>2, GoUpdateAssumption DEF Inv, TypeOK
  <1>10. CASE c \in Direct
    <2>1. Write(c, a) /\ buf' = buf
      BY <1>1, <1>10 DEF a
    <2>2. Len(buf[c]) = 0 /\ k = off[c]
      BY <1>3, <1>10 DEF k
    <2>3. a # <<>>
      BY <1>5, EmptySeq
    <2>4. /\ off' = [off EXCEPT ![c] = off[c] + n]
          /\ off' \in [Client -> Nat]
          /\ dir' \in [Name -> Seq(Word) \union {NULL}]
          /\ \A m \in Name : dir[m] # NULL => dir'[m] # NULL
          /\ \A m \in Name : m # Dest[c] => dir'[m] = dir[m]
          /\ ~Shared(Dest[c]) => /\ Len(dir'[Dest[c]]) = off[c] + n
                                 /\ KeptFrom(Want[c], 0, dir'[Dest[c]])
          /\ Served'
      BY <1>2, <1>5, <1>6, <2>1, <2>2, <2>3, WriteIs
    <2>5. /\ off'[c] = off[c] + n
          /\ \A d \in Client : d # c => off'[d] = off[d]
      BY <2>4 DEF Inv, TypeOK
    <2>6. TypeOK'
      BY <1>2, <1>8, <1>9, <2>1, <2>4 DEF Inv, TypeOK
    <2>7. LinkOf(c)'
      BY <1>2, <2>1, <2>5 DEF Inv, LinkInv, LinkOf
    <2>8. WholeOf(c)'
      <3>1. off'[c] + Len(buf'[c]) + Len(down'[c]) = pos'[c]
        BY <1>2, <1>3, <1>4, <1>5, <1>8, <2>1, <2>2, <2>5
      <3>2. buf'[c] = <<>> /\ KeptFrom(Want[c], off'[c], <<>>)
        BY <1>3, <2>1, <2>2, KeptEmpty, EmptySeq
      <3>3. off'[c] + Len(buf'[c]) = k + n
        BY <1>3, <1>5, <2>1, <2>2, <2>5
      <3> QED
        BY <1>6, <1>8, <2>4, <2>5, <3>1, <3>2, <3>3 DEF WholeOf
    <2>9. ASSUME NEW d \in Client, d # c
          PROVE  LinkOf(d)' /\ WholeOf(d)'
      BY <1>2, <1>8, <1>9, <2>1, <2>4, <2>5, <2>9, OthersKeepLink
    <2> QED
      BY <2>4, <2>6, <2>7, <2>8, <2>9 DEF Inv, LinkInv
  <1>11. CASE c \notin Direct
    <2>1. /\ buf' = [buf EXCEPT ![c] = buf[c] \o a] /\ UNCHANGED <<off, dir>>
          /\ n <= Room(c)
      BY <1>1, <1>11 DEF a, fileVars
    <2>2. buf[c] \o a \in Seq(Word) /\ Len(buf[c] \o a) = Len(buf[c]) + n
      BY ONLY <1>3, <1>5, ConcatProperties
    <2>3. Len(buf[c] \o a) <= BUFIO
      BY <1>3, <1>5, <2>1, <2>2 DEF Room
    <2>4. /\ buf' \in [Client -> Seq(Word)] /\ buf'[c] = buf[c] \o a
          /\ \A d \in Client : d # c => buf'[d] = buf[d]
      BY <2>1, <2>2 DEF Inv, TypeOK
    <2>5. TypeOK'
      BY <1>2, <1>8, <1>11, <2>1, <2>3, <2>4 DEF Inv, TypeOK
    <2>6. LinkOf(c)'
      BY <1>2, <2>1 DEF Inv, LinkInv, LinkOf
    <2>7. WholeOf(c)'
      <3>1. off'[c] + Len(buf'[c]) + Len(down'[c]) = pos'[c]
        BY <1>2, <1>3, <1>4, <1>5, <1>8, <2>1, <2>2, <2>4
      <3>2. KeptFrom(Want[c], off[c], buf[c] \o a)
        BY <1>3, <1>4, <1>5, <1>6, KeptConcat DEF k
      <3>3. off'[c] + Len(buf'[c]) = k + n
        BY <1>3, <1>5, <2>1, <2>2, <2>4 DEF k
      <3>4. cli' = cli /\ dir' = dir /\ off' = off
        BY <1>2, <2>1
      <3> QED
        BY <1>6, <1>8, <2>4, <3>1, <3>2, <3>3, <3>4 DEF WholeOf, Inv, LinkInv
    <2>8. ASSUME NEW d \in Client, d # c
          PROVE  LinkOf(d)' /\ WholeOf(d)'
      BY <1>2, <1>8, <1>9, <2>1, <2>4, <2>8, OthersKeepLink
    <2>9. Served'
      BY <2>1 DEF Inv, Served
    <2> QED
      BY <2>5, <2>6, <2>7, <2>8, <2>9 DEF Inv, LinkInv
  <1> QED
    BY <1>10, <1>11

LEMMA FlushKeepsInv ==
    ASSUME Inv, NEW c \in Client, Flush(c)
    PROVE  Inv'
  <1>1. /\ cli[c] = "copy" /\ Len(buf[c]) = BUFIO
        /\ Write(c, buf[c])
        /\ buf' = [buf EXCEPT ![c] = <<>>]
        /\ UNCHANGED <<listening, cli, go, fp, pos, down, faults>>
    BY DEF Flush, Full, servVars
  <1>2. /\ buf[c] \in Seq(Word) /\ BUFIO \in Nat \ {0} /\ off[c] \in Nat
        /\ Len(down[c]) \in Nat
    BY Types, LenProperties, GoUpdateAssumption DEF Inv
  <1>3. <<>> \in Seq(Word) /\ Len(<<>>) = 0
    OBVIOUS
  <1>4. buf[c] # <<>>
    BY <1>1, <1>2, <1>3
  <1>5. /\ off[c] + Len(buf[c]) + Len(down[c]) = pos[c]
        /\ KeptFrom(Want[c], off[c], buf[c])
        /\ KeptFrom(Want[c], off[c] + Len(buf[c]), down[c])
    BY <1>1 DEF Inv, LinkInv, WholeOf
  <1>6. /\ off' = [off EXCEPT ![c] = off[c] + BUFIO]
        /\ off' \in [Client -> Nat]
        /\ dir' \in [Name -> Seq(Word) \union {NULL}]
        /\ \A m \in Name : dir[m] # NULL => dir'[m] # NULL
        /\ \A m \in Name : m # Dest[c] => dir'[m] = dir[m]
        /\ ~Shared(Dest[c]) => /\ Len(dir'[Dest[c]]) = off[c] + BUFIO
                               /\ KeptFrom(Want[c], 0, dir'[Dest[c]])
        /\ Served'
    BY <1>1, <1>2, <1>4, <1>5, WriteIs
  <1>7. /\ off'[c] = off[c] + BUFIO
        /\ \A d \in Client : d # c => off'[d] = off[d]
    BY <1>6 DEF Inv, TypeOK
  <1>8. /\ buf' \in [Client -> Seq(Word)] /\ buf'[c] = <<>>
        /\ \A d \in Client : d # c => buf'[d] = buf[d]
    BY <1>1, <1>3 DEF Inv, TypeOK
  <1>9. \A d \in Client : fp'[d] = fp[d] /\ Dest[d] \in Name /\ (fp[d] # NULL => fp[d] \in Name)
    BY <1>1, GoUpdateAssumption DEF Inv, TypeOK
  <1>10. TypeOK'
    BY <1>1, <1>2, <1>3, <1>6, <1>8, <1>9 DEF Inv, TypeOK
  <1>11. LinkOf(c)'
    BY <1>1 DEF Inv, LinkInv, LinkOf
  <1>12. WholeOf(c)'
    <2>1. /\ off'[c] + Len(buf'[c]) + Len(down'[c]) = pos'[c]
          /\ off'[c] + Len(buf'[c]) = off[c] + Len(buf[c])
      BY <1>1, <1>2, <1>3, <1>5, <1>7, <1>8
    <2>2. KeptFrom(Want[c], off'[c], <<>>)
      BY KeptEmpty
    <2> QED
      BY <1>1, <1>5, <1>6, <1>7, <1>8, <2>1, <2>2 DEF WholeOf
  <1>13. ASSUME NEW d \in Client, d # c
         PROVE  LinkOf(d)' /\ WholeOf(d)'
    BY <1>1, <1>6, <1>7, <1>8, <1>9, <1>13, OthersKeepLink
  <1> QED
    BY <1>6, <1>10, <1>11, <1>12, <1>13 DEF Inv, LinkInv

\* A write that fails after some of its words ends the client.
LEMMA WriteErrKeepsInv ==
    ASSUME Inv, NEW c \in Client, WriteErr(c)
    PROVE  Inv'
  <1>1. PICK n \in 1..BUFIO - 1 : Write(c, SubSeq(buf[c], 1, n))
    BY DEF WriteErr
  <1>2. /\ cli[c] = "copy" /\ Len(buf[c]) = BUFIO /\ Fault
        /\ cli' = [cli EXCEPT ![c] = "dead"]
        /\ UNCHANGED <<listening, buf, go, fp, pos, down>>
    BY DEF WriteErr, Full, servVars
  <1>3. buf[c] \in Seq(Word) /\ BUFIO \in Nat /\ off[c] \in Nat
    BY Types, GoUpdateAssumption DEF Inv
  <1> DEFINE a == SubSeq(buf[c], 1, n)
  <1>4. a \in Seq(Word) /\ Len(a) = n /\ n \in Nat /\ n # 0
    <2>1. n \in 0..Len(buf[c]) /\ n \in Nat /\ n # 0
      BY <1>2, <1>3
    <2> QED
      BY ONLY <1>3, <2>1, Split
  <1>5. KeptFrom(Want[c], off[c], a)
    <2>1. /\ KeptFrom(Want[c], off[c], buf[c]) /\ 0 \in Nat /\ 0 <= n /\ n <= Len(buf[c])
          /\ off[c] + 0 = off[c] /\ 0 + 1 = 1
      BY <1>2, <1>3, <1>4 DEF Inv, LinkInv, WholeOf
    <2>2. KeptFrom(Want[c], off[c] + 0, SubSeq(buf[c], 0 + 1, n))
      BY ONLY <1>3, <1>4, <2>1, KeptPart, Zenon
    <2> QED
      BY <2>1, <2>2
  <1>6. a # <<>>
    <2> HIDE DEF a
    <2> QED
      BY <1>4, EmptySeq
  <1>7. /\ off' = [off EXCEPT ![c] = off[c] + Len(a)]
        /\ off' \in [Client -> Nat]
        /\ dir' \in [Name -> Seq(Word) \union {NULL}]
        /\ \A m \in Name : dir[m] # NULL => dir'[m] # NULL
        /\ \A m \in Name : m # Dest[c] => dir'[m] = dir[m]
        /\ Served'
    <2>1. Write(c, a)
      BY <1>1
    <2> HIDE DEF a
    <2> QED
      BY <1>2, <1>4, <1>5, <1>6, <2>1, WriteIs
  <1> HIDE DEF a
  <1>8. \A d \in Client : fp'[d] = fp[d] /\ Dest[d] \in Name /\ (fp[d] # NULL => fp[d] \in Name)
    BY <1>2, GoUpdateAssumption DEF Inv, TypeOK
  <1>9. /\ cli' \in [Client -> CliStage] /\ cli'[c] = "dead"
        /\ \A d \in Client : d # c => cli'[d] = cli[d]
        /\ \A d \in Client : d # c => off'[d] = off[d]
    BY <1>2, <1>7 DEF Inv, TypeOK, CliStage
  <1>10. TypeOK'
    <2>1. faults' \in 0..MaxFaults
      BY <1>2, FaultType DEF Inv
    <2>2. \A d \in Client : cli'[d] \in {"copy", "done"} => cli[d] \in {"copy", "done"}
      BY <1>9
    <2> QED
      BY <1>2, <1>7, <1>8, <1>9, <2>1, <2>2 DEF Inv, TypeOK
  <1>11. LinkOf(c)' /\ WholeOf(c)'
    BY <1>2, <1>9 DEF Inv, LinkInv, LinkOf, WholeOf
  <1>12. ASSUME NEW d \in Client, d # c
         PROVE  LinkOf(d)' /\ WholeOf(d)'
    BY <1>2, <1>7, <1>8, <1>9, <1>12, OthersKeepLink
  <1> QED
    BY <1>7, <1>10, <1>11, <1>12 DEF Inv, LinkInv

\* What the server sends of a file are the words at its place.
LEMMA SendKeepsInv ==
    ASSUME Inv, NEW c \in Client, Send(c)
    PROVE  Inv'
  <1>1. PICK n \in 1..BUFIO :
            /\ pos[c] + n <= Len(dir[fp[c]])
            /\ down' = [down EXCEPT ![c] =
                           @ \o SubSeq(dir[fp[c]], pos[c] + 1, pos[c] + n)]
            /\ pos' = [pos EXCEPT ![c] = @ + n]
    BY DEF Send
  <1>2. go[c] = "copy" /\ UNCHANGED <<listening, cli, buf, off, go, fp, dir, faults>>
    BY DEF Send, fileVars
  <1> DEFINE D == dir[Want[c]]
             p == pos[c]
             x == SubSeq(D, p + 1, p + n)
  <1>3. /\ fp[c] = Want[c] /\ fp[c] # NULL /\ D # NULL
        /\ D \in Seq(Word) /\ KeptFrom(Want[c], 0, D)
        /\ p \in Nat /\ down[c] \in Seq(Word) /\ n \in Nat
        /\ p + n <= Len(D)
    <2>1. fp[c] = Want[c] /\ fp[c] # NULL /\ D # NULL
      BY <1>2 DEF Inv, TypeOK, LinkInv, LinkOf
    <2>2. D \in Seq(Word) /\ p \in Nat /\ down[c] \in Seq(Word)
      BY <2>1, Types DEF Inv
    <2>3. KeptFrom(Want[c], 0, D)
      BY <2>1 DEF Inv, Served
    <2>4. n \in Nat /\ p + n <= Len(D)
      BY <1>1, <2>1
    <2> QED
      BY <2>1, <2>2, <2>3, <2>4
  <1>4. down' = [down EXCEPT ![c] = down[c] \o x] /\ pos' = [pos EXCEPT ![c] = p + n]
    BY <1>1, <1>3
  <1> HIDE DEF D, p
  <1>5. x \in Seq(Word) /\ Len(x) = n
    <2>1. p + 1 \in Nat \ {0} /\ p + n \in Int /\ p + n <= Len(D)
      BY <1>3
    <2>2. x \in Seq(Word) /\ Len(x) = IF p + 1 <= p + n THEN (p + n) - (p + 1) + 1 ELSE 0
      BY ONLY <1>3, <2>1, SubSeqIsSeq
    <2> QED
      BY <1>3, <2>2
  <1>6. KeptFrom(Want[c], p, x)
    <2>1. p + n \in Nat /\ p <= p + n /\ 0 \in Nat /\ 0 + p = p
      BY <1>3
    <2>2. KeptFrom(Want[c], 0 + p, SubSeq(D, p + 1, p + n))
      BY <1>3, <2>1, KeptPart
    <2> QED
      BY <2>1, <2>2
  <1> HIDE DEF x
  <1>7. down[c] \o x \in Seq(Word) /\ Len(down[c] \o x) = Len(down[c]) + n
    BY <1>3, <1>5, ConcatProperties
  <1>8. /\ down' \in [Client -> Seq(Word)] /\ down'[c] = down[c] \o x
        /\ pos' \in [Client -> Nat] /\ pos'[c] = p + n
        /\ \A d \in Client : d # c => down'[d] = down[d] /\ pos'[d] = pos[d]
    BY <1>3, <1>4, <1>7 DEF Inv, TypeOK
  <1>9. TypeOK'
    BY <1>2, <1>8 DEF Inv, TypeOK
  <1>10. LinkOf(c)'
    BY <1>2, <1>3 DEF Inv, LinkInv, LinkOf
  <1>11. WholeOf(c)'
    <2> SUFFICES ASSUME cli[c] # "dead" PROVE WholeOf(c)'
      BY <1>2 DEF WholeOf
    <2>1. /\ off[c] + Len(buf[c]) + Len(down[c]) = p
          /\ KeptFrom(Want[c], off[c] + Len(buf[c]), down[c])
      BY DEF Inv, LinkInv, WholeOf, p
    <2>2. off[c] \in Nat /\ Len(buf[c]) \in Nat /\ Len(down[c]) \in Nat
      BY Types, LenProperties DEF Inv
    <2> DEFINE q == off[c] + Len(buf[c])
    <2>3. q \in Nat /\ q + Len(down[c]) = p /\ KeptFrom(Want[c], q, down[c])
      BY <2>1, <2>2
    <2> HIDE DEF q
    <2>4. KeptFrom(Want[c], q + Len(down[c]), x)
      BY <1>6, <2>3
    <2>5. KeptFrom(Want[c], q, down[c] \o x)
      BY ONLY <1>3, <1>5, <2>3, <2>4, KeptConcat, Zenon
    <2>6. off[c] + Len(buf[c]) + Len(down[c] \o x) = p + n
      <3>1. /\ Len(down[c] \o x) = Len(down[c]) + n
            /\ off[c] + Len(buf[c]) + Len(down[c]) = p /\ n \in Nat
        BY <1>3, <1>7, <2>1
      <3> QED
        BY ONLY <2>2, <3>1
    <2> QED
      BY <1>2, <1>8, <2>5, <2>6 DEF Inv, LinkInv, WholeOf, q
  <1>12. ASSUME NEW d \in Client, d # c
         PROVE  LinkOf(d)' /\ WholeOf(d)'
    BY <1>2, <1>8, <1>12, OthersKeepLink
  <1>13. Served'
    BY <1>2 DEF Inv, Served
  <1> QED
    BY <1>9, <1>10, <1>11, <1>12, <1>13 DEF Inv, LinkInv

-------------------------------------------------------------------------------
(* Every step. *)

LEMMA StepKeepsInv == Inv /\ [Next]_vars => Inv'
  <1> SUFFICES ASSUME Inv, [Next]_vars
               PROVE  Inv'
    OBVIOUS
  <1>1. TypeOK
    BY DEF Inv
  <1>2. CASE ServKilled \/ main \/ UNCHANGED vars
    BY <1>1, <1>2, ProcessQuiet, QuietKeepsInv
  <1>3. ASSUME NEW c \in Client,
               \/ Dial(c) \/ Refused(c) \/ RequestFile(c) \/ CreateErr(c) \/ WriteErr(c)
               \/ CliKilled(c) \/ Accept(c) \/ HandleClient(c) \/ OpenFault(c) \/ SendFault(c)
        PROVE  Inv'
    <2>1. CASE \/ Dial(c) \/ Refused(c) \/ Ask(c) \/ CopyEof(c) \/ Reset(c)
               \/ CreateErr(c) \/ CliKilled(c)
      BY <1>1, <2>1, CliQuiet, QuietKeepsInv
    <2>2. CASE \/ Accept(c) \/ OpenErr(c) \/ OpenFault(c) \/ SendEnd(c) \/ SendErr(c)
               \/ SendFault(c)
      BY <1>1, <2>2, ServQuiet, QuietKeepsInv
    <2> QED
      BY <1>3, <2>1, <2>2, CreateKeepsInv, OpenKeepsInv, CopyKeepsInv, FlushKeepsInv,
         WriteErrKeepsInv, SendKeepsInv
      DEF RequestFile, HandleClient
  <1> QED
    BY <1>2, <1>3 DEF Next

LEMMA Invariant == Spec => []Inv
  BY InitInv, StepKeepsInv, PTL DEF Spec

-------------------------------------------------------------------------------
(* What the buffer leaves behind. *)

\* Whole buffers only are written to the file, and a client that has ended well has
\* found the end of the stream, with less than a whole buffer left.
TailOf(c) ==
    /\ cli[c] \in {"copy", "done"} /\ c \notin Direct => \E k \in Nat : off[c] = k * BUFIO
    /\ cli[c] = "done" => down[c] = <<>> /\ ~Full(c) /\ go[c] \in {"closed", "gone"}

Tails == \A c \in Client : TailOf(c)

\* A multiple of the buffer's size is what % takes from a number.
LEMMA NoMultiple ==
    ASSUME NEW B \in Nat \ {0}, NEW d \in Int, -B < d * B, d * B < B
    PROVE  d = 0
  <1>1. CASE d >= 1
    <2>1. d * B >= B
      BY <1>1
    <2> QED
      BY <2>1
  <1>2. CASE d <= -1
    <2>1. d * B <= -B
      BY <1>2
    <2> QED
      BY <2>1
  <1> QED
    BY <1>1, <1>2

LEMMA RestOfMultiple ==
    ASSUME NEW B \in Nat \ {0}, NEW k \in Nat, NEW r \in 0..(B - 1)
    PROVE  (k * B + r) % B = r
  <1> DEFINE n == k * B + r
             q == n \div B
             m == n % B
  <1>1. n \in Nat
    OBVIOUS
  <1> HIDE DEF n
  <1>2. m \in 0..(B - 1) /\ n = B * q + m /\ q \in Int
    BY <1>1
  <1> HIDE DEF q, m
  <1>3. (k - q) * B = m - r
    BY <1>2 DEF n
  <1>4. k - q = 0
    BY <1>2, <1>3, NoMultiple
  <1> QED
    BY <1>2, <1>3, <1>4 DEF m, n

LEMMA InitTails == Init => Tails
  BY DEF Init, Tails, TailOf

\* Steps that move nothing; a client that ends well has seen to it that nothing is left.
LEMMA StillKeepsTails ==
    ASSUME Tails, UNCHANGED <<buf, down, off>>,
           \A d \in Client :
               /\ cli'[d] = "copy" => cli[d] = "copy"
               /\ cli'[d] = "done" =>
                      \/ /\ cli[d] = "done"
                         /\ go[d] \in {"closed", "gone"} => go'[d] \in {"closed", "gone"}
                      \/ /\ cli[d] = "copy" /\ ~Full(d) /\ down[d] = <<>>
                         /\ go'[d] \in {"closed", "gone"}
    PROVE  Tails'
  BY DEF Tails, TailOf, Full

LEMMA CliKeepsTails ==
    ASSUME TypeOK, Tails, NEW c \in Client,
           \/ Dial(c) \/ Refused(c) \/ Ask(c) \/ CopyEof(c) \/ Reset(c) \/ CreateErr(c)
           \/ CliKilled(c)
    PROVE  Tails'
  <1> USE DEF TypeOK, servVars, fileVars
  <1>1. CASE Dial(c)
    BY <1>1, StillKeepsTails DEF Dial
  <1>2. CASE Refused(c)
    BY <1>2, StillKeepsTails DEF Refused
  <1>3. CASE Ask(c)
    BY <1>3, StillKeepsTails DEF Ask
  <1>4. CASE CopyEof(c)
    BY <1>4, StillKeepsTails DEF CopyEof
  <1>5. CASE Reset(c)
    BY <1>5, StillKeepsTails DEF Reset
  <1>6. CASE CreateErr(c)
    BY <1>6, StillKeepsTails DEF CreateErr
  <1>7. CASE CliKilled(c)
    BY <1>7, StillKeepsTails DEF CliKilled
  <1> QED
    BY <1>1, <1>2, <1>3, <1>4, <1>5, <1>6, <1>7

LEMMA ServKeepsTails ==
    ASSUME TypeOK, Tails, NEW c \in Client,
           \/ Accept(c) \/ Open(c) \/ OpenErr(c) \/ OpenFault(c) \/ SendEnd(c)
           \/ SendErr(c) \/ SendFault(c)
    PROVE  Tails'
  <1> USE DEF TypeOK, fileVars
  <1>1. CASE Accept(c)
    BY <1>1, StillKeepsTails DEF Accept
  <1>2. CASE Open(c)
    BY <1>2, StillKeepsTails DEF Open
  <1>3. CASE OpenErr(c)
    BY <1>3, StillKeepsTails DEF OpenErr
  <1>4. CASE OpenFault(c)
    BY <1>4, StillKeepsTails DEF OpenFault
  <1>5. CASE SendEnd(c)
    BY <1>5, StillKeepsTails DEF SendEnd
  <1>6. CASE SendErr(c)
    BY <1>6, StillKeepsTails DEF SendErr
  <1>7. CASE SendFault(c)
    BY <1>7, StillKeepsTails DEF SendFault
  <1> QED
    BY <1>1, <1>2, <1>3, <1>4, <1>5, <1>6, <1>7

LEMMA ProcessKeepsTails ==
    ASSUME TypeOK, Tails, ServKilled \/ main \/ UNCHANGED vars
    PROVE  Tails'
  <1> USE DEF TypeOK, servVars, fileVars
  <1>1. CASE ServKilled
    BY <1>1, StillKeepsTails DEF ServKilled
  <1>2. CASE main
    BY <1>2, StillKeepsTails DEF main
  <1>3. CASE UNCHANGED vars
    BY <1>3, StillKeepsTails DEF vars
  <1> QED
    BY <1>1, <1>2, <1>3

LEMMA CreateKeepsTails ==
    ASSUME Inv, Tails, NEW c \in Client, Create(c)
    PROVE  Tails'
  <1>1. /\ cli[c] = "create"
        /\ cli' = [cli EXCEPT ![c] = "copy"]
        /\ UNCHANGED <<buf, go, down, off>>
    BY DEF Create, servVars
  <1>2. off[c] = 0 * BUFIO
    BY <1>1, GoUpdateAssumption DEF Inv, LinkInv, LinkOf
  <1>3. TailOf(c)'
    BY <1>1, <1>2 DEF TailOf, Inv, TypeOK
  <1>4. ASSUME NEW d \in Client, d # c
        PROVE  TailOf(d)'
    BY <1>1, <1>4, ZenonT(40) DEF Tails, TailOf, Full, Inv, TypeOK
  <1> QED
    BY <1>3, <1>4 DEF Tails

LEMMA CopyKeepsTails ==
    ASSUME Inv, Tails, NEW c \in Client, Copy(c)
    PROVE  Tails'
  <1>1. PICK n \in 1..Len(down[c]) :
            /\ down' = [down EXCEPT ![c] = SubSeq(@, n + 1, Len(@))]
            /\ \/ /\ c \in Direct
                  /\ Write(c, SubSeq(down[c], 1, n))
                  /\ UNCHANGED buf
               \/ /\ c \notin Direct
                  /\ n <= Room(c)
                  /\ buf' = [buf EXCEPT ![c] = @ \o SubSeq(down[c], 1, n)]
                  /\ UNCHANGED fileVars
    BY DEF Copy
  <1>2. cli[c] = "copy" /\ UNCHANGED <<cli, go>>
    BY DEF Copy, servVars
  <1>3. TailOf(c)'
    BY <1>1, <1>2 DEF Tails, TailOf, fileVars
  <1>4. ASSUME NEW d \in Client, d # c
        PROVE  TailOf(d)'
    <2>1. down'[d] = down[d] /\ buf'[d] = buf[d] /\ off'[d] = off[d]
      BY <1>1, <1>4 DEF Inv, TypeOK, Write, fileVars
    <2> QED
      BY <1>2, <2>1 DEF Tails, TailOf, Full
  <1> QED
    BY <1>3, <1>4 DEF Tails

LEMMA FlushKeepsTails ==
    ASSUME Inv, Tails, NEW c \in Client, Flush(c)
    PROVE  Tails'
  <1>1. /\ cli[c] = "copy" /\ Len(buf[c]) = BUFIO
        /\ off' = [off EXCEPT ![c] = off[c] + BUFIO]
        /\ buf' = [buf EXCEPT ![c] = <<>>]
        /\ UNCHANGED <<cli, go, down>>
    BY DEF Flush, Full, Write, servVars
  <1>2. /\ off'[c] = off[c] + BUFIO
        /\ \A d \in Client : d # c => off'[d] = off[d] /\ buf'[d] = buf[d]
    BY <1>1 DEF Inv, TypeOK
  <1>3. TailOf(c)'
    <2> SUFFICES ASSUME c \notin Direct
                 PROVE  \E k \in Nat : off'[c] = k * BUFIO
      BY <1>1 DEF TailOf
    <2>1. PICK k \in Nat : off[c] = k * BUFIO
      BY <1>1 DEF Tails, TailOf
    <2>2. k + 1 \in Nat /\ k * BUFIO + BUFIO = (k + 1) * BUFIO
      BY GoUpdateAssumption
    <2> QED
      BY <1>2, <2>1, <2>2
  <1>4. ASSUME NEW d \in Client, d # c
        PROVE  TailOf(d)'
    BY <1>1, <1>2, <1>4 DEF Tails, TailOf, Full
  <1> QED
    BY <1>3, <1>4 DEF Tails

LEMMA WriteErrKeepsTails ==
    ASSUME Inv, Tails, NEW c \in Client, WriteErr(c)
    PROVE  Tails'
  <1>1. cli' = [cli EXCEPT ![c] = "dead"] /\ UNCHANGED <<buf, go, down>>
    BY DEF WriteErr, servVars
  <1>2. \A d \in Client : d # c => off'[d] = off[d] /\ cli'[d] = cli[d]
    BY <1>1 DEF WriteErr, Write, Inv, TypeOK
  <1>3. cli'[c] = "dead"
    BY <1>1 DEF Inv, TypeOK
  <1> QED
    BY <1>1, <1>2, <1>3 DEF Tails, TailOf, Full

LEMMA SendKeepsTails ==
    ASSUME Inv, Tails, NEW c \in Client, Send(c)
    PROVE  Tails'
  <1>1. go[c] = "copy" /\ UNCHANGED <<cli, buf, off, go>>
    BY DEF Send, fileVars
  <1>2. cli[c] # "done"
    BY <1>1 DEF Tails, TailOf
  <1>3. \A d \in Client : d # c => down'[d] = down[d]
    BY DEF Send, Inv, TypeOK
  <1> QED
    BY <1>1, <1>2, <1>3 DEF Tails, TailOf, Full

LEMMA StepKeepsTails == Inv /\ Tails /\ [Next]_vars => Tails'
  <1> SUFFICES ASSUME Inv, Tails, [Next]_vars
               PROVE  Tails'
    OBVIOUS
  <1>1. TypeOK
    BY DEF Inv
  <1>2. CASE ServKilled \/ main \/ UNCHANGED vars
    BY <1>1, <1>2, ProcessKeepsTails
  <1>3. ASSUME NEW c \in Client,
               \/ Dial(c) \/ Refused(c) \/ RequestFile(c) \/ CreateErr(c) \/ WriteErr(c)
               \/ CliKilled(c) \/ Accept(c) \/ HandleClient(c) \/ OpenFault(c) \/ SendFault(c)
        PROVE  Tails'
    BY <1>1, <1>3, CliKeepsTails, ServKeepsTails, CreateKeepsTails, CopyKeepsTails,
       FlushKeepsTails, WriteErrKeepsTails, SendKeepsTails
    DEF RequestFile, HandleClient
  <1> QED
    BY <1>2, <1>3 DEF Next

\* What was sent is written or in the buffer, and the buffer holds less than a whole one.
LEMMA TailOfDone ==
    ASSUME Inv, Tails, NEW c \in Client, cli[c] = "done"
    PROVE  /\ down[c] = <<>>
           /\ off[c] = IF c \in Direct THEN pos[c] ELSE pos[c] - (pos[c] % BUFIO)
           /\ ~Shared(Dest[c]) => Len(dir[Dest[c]]) = off[c]
  <1>1. down[c] = <<>> /\ Len(buf[c]) # BUFIO
    BY DEF Tails, TailOf, Full
  <1>2. /\ Len(buf[c]) \in Nat /\ BUFIO \in Nat \ {0} /\ Len(<<>>) = 0
        /\ Len(buf[c]) <= (IF c \in Direct THEN 0 ELSE BUFIO)
        /\ pos[c] \in Nat /\ off[c] \in Nat
    BY Types, LenProperties, GoUpdateAssumption DEF Inv, TypeOK
  <1>3. /\ off[c] + Len(buf[c]) + Len(down[c]) = pos[c]
        /\ ~Shared(Dest[c]) => Len(dir[Dest[c]]) = off[c]
    BY DEF Inv, LinkInv, WholeOf
  <1>4. pos[c] = off[c] + Len(buf[c])
    BY <1>1, <1>2, <1>3
  <1>5. CASE c \in Direct
    <2>1. Len(buf[c]) = 0
      BY <1>2, <1>5
    <2>2. off[c] = pos[c]
      BY <1>2, <1>4, <2>1
    <2> QED
      BY ONLY <1>1, <1>3, <1>5, <2>2
  <1>6. CASE c \notin Direct
    <2>1. PICK k \in Nat : off[c] = k * BUFIO
      BY <1>6 DEF Tails, TailOf
    <2>2. Len(buf[c]) \in 0..(BUFIO - 1)
      BY <1>1, <1>2, <1>6
    <2>3. (k * BUFIO + Len(buf[c])) % BUFIO = Len(buf[c])
      BY ONLY <1>2, <2>2, k \in Nat, RestOfMultiple
    <2>4. pos[c] % BUFIO = Len(buf[c])
      BY ONLY <1>4, <2>1, <2>3
    <2>5. off[c] = pos[c] - Len(buf[c])
      BY <1>2, <1>4
    <2> QED
      BY ONLY <1>1, <1>3, <1>6, <2>4, <2>5
  <1> QED
    BY <1>5, <1>6

LEMMA SumOfThree ==
    ASSUME NEW i \in Nat, NEW j \in Nat, NEW k \in Nat
    PROVE  i + (j + k) = i + j + k
  OBVIOUS

\* Nothing of what was sent to a client is lost on its way into the client's file.
LEMMA NothingLostHolds ==
    ASSUME Inv
    PROVE  NothingLost
  <1> SUFFICES ASSUME NEW c \in Client, fp[c] # NULL, cli[c] # "dead"
               PROVE  LET coming == buf[c] \o down[c]
                      IN  /\ off[c] + Len(coming) = pos[c]
                          /\ \A i \in 1..Len(coming) : Kept(fp[c], off[c] + i, coming[i])
                          /\ cli[c] \in {"copy", "done"} /\ ~Shared(Dest[c]) =>
                                 /\ Len(dir[Dest[c]]) = off[c]
                                 /\ \A i \in 1..off[c] : Kept(fp[c], i, dir[Dest[c]][i])
    BY DEF NothingLost
  <1> DEFINE coming == buf[c] \o down[c]
  <1>1. /\ fp[c] = Want[c]
        /\ off[c] + Len(buf[c]) + Len(down[c]) = pos[c]
        /\ KeptFrom(Want[c], off[c], buf[c])
        /\ KeptFrom(Want[c], off[c] + Len(buf[c]), down[c])
    BY DEF Inv, LinkInv, LinkOf, WholeOf
  <1>2. buf[c] \in Seq(Word) /\ down[c] \in Seq(Word) /\ off[c] \in Nat
    BY Types DEF Inv
  <1>3. Len(buf[c]) \in Nat /\ Len(down[c]) \in Nat
    BY <1>2, LenProperties
  <1>4. Len(coming) = Len(buf[c]) + Len(down[c])
    BY <1>2, ConcatProperties
  <1>5. KeptFrom(Want[c], off[c], coming)
    BY ONLY <1>1, <1>2, KeptConcat, Zenon
  <1> HIDE DEF coming
  <1>6. off[c] + Len(coming) = pos[c]
    <2>1. off[c] + Len(buf[c]) + Len(down[c]) = pos[c] /\ off[c] \in Nat
      BY <1>1, <1>2
    <2>2. off[c] + (Len(buf[c]) + Len(down[c])) = off[c] + Len(buf[c]) + Len(down[c])
      BY ONLY <1>3, <2>1, SumOfThree, Zenon
    <2> QED
      BY ONLY <1>4, <2>1, <2>2, Zenon
  <1>7. \A i \in 1..Len(coming) : Kept(fp[c], off[c] + i, coming[i])
    BY <1>1, <1>5 DEF KeptFrom
  <1>8. ASSUME cli[c] \in {"copy", "done"}, ~Shared(Dest[c])
        PROVE  /\ Len(dir[Dest[c]]) = off[c]
               /\ \A i \in 1..off[c] : Kept(fp[c], i, dir[Dest[c]][i])
    <2>1. Len(dir[Dest[c]]) = off[c] /\ KeptFrom(Want[c], 0, dir[Dest[c]])
      BY <1>8 DEF Inv, LinkInv, WholeOf
    <2>2. ASSUME NEW i \in 1..off[c]
          PROVE  Kept(fp[c], i, dir[Dest[c]][i])
      <3>1. 0 + i = i /\ i \in 1..Len(dir[Dest[c]])
        BY <2>1
      <3> QED
        BY ONLY <1>1, <2>1, <3>1 DEF KeptFrom
    <2> QED
      BY <2>1, <2>2
  <1> QED
    BY <1>6, <1>7, <1>8 DEF coming

-------------------------------------------------------------------------------
(* Theorems. *)

\* Every variable keeps its type; a goroutine copies only a file that is there, and a
\* client's buffer is never overrun.
THEOREM TypeCorrect == Spec => []TypeOK
  <1>1. Inv => TypeOK
    BY DEF Inv
  <1> QED
    BY <1>1, Invariant, PTL

\* While a client lives, what it has written, its buffer and what is on its way are all
\* the words that were sent to it, each the server's word at its place or a zero left by
\* two clients with one file; a file it shares with no other holds what it has written.
THEOREM NothingIsLost == Spec => []NothingLost
  <1>1. Inv => NothingLost
    BY NothingLostHolds
  <1> QED
    BY <1>1, Invariant, PTL

\* However many clients truncate a file that is being served and write it again, each at
\* its own offset: every word of it is in its place, none is added, and zeros appear only
\* in a file that several of them write.
THEOREM ServedFilesKeep == Spec => []ServedFilesKeepWords
  <1>1. Inv => ServedFilesKeepWords
    <2> SUFFICES ASSUME Inv, NEW c \in Client, dir[Want[c]] # NULL,
                        NEW i \in 1..Len(dir[Want[c]])
                 PROVE  Kept(Want[c], i, dir[Want[c]][i])
      BY DEF ServedFilesKeepWords
    <2>1. 0 + i = i
      OBVIOUS
    <2>2. KeptFrom(Want[c], 0, dir[Want[c]])
      BY DEF Inv, Served
    <2>3. Kept(Want[c], 0 + i, dir[Want[c]][i])
      BY ONLY <2>2, i \in 1..Len(dir[Want[c]]), Zenon DEF KeptFrom
    <2> QED
      BY <2>1, <2>3
  <1> QED
    BY <1>1, Invariant, PTL

\* A client that has ended well has written all that was sent to it, or all but the last
\* incomplete buffer, which nobody flushes.
THEOREM TheTailIsLost == Spec => []OnlyTheTailIsLost
  <1>1. Inv /\ Tails => OnlyTheTailIsLost
    BY TailOfDone DEF OnlyTheTailIsLost
  <1> QED
    BY <1>1, InitTails, StepKeepsTails, Invariant, PTL DEF Spec

===============================================================================
