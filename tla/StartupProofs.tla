----------------------------- MODULE StartupProofs -----------------------------
(***************************************************************************)
(* Theorems about Startup: the command line, the logger and main, for      *)
(* every set of processes and of log files, every command line and every   *)
(* configuration, of any length.                                           *)
(***************************************************************************)
EXTENDS Startup, SequenceFacts, WellFoundedInduction, FiniteSetTheorems

-------------------------------------------------------------------------------
(* Induction over the turns of a loop.  The library's induction takes the property as an
   operator; as a set it can be cited as it is. *)

LEMMA LeastOf ==
    ASSUME NEW T \in SUBSET Nat, T # {}
    PROVE  \E m \in T : \A k \in T : m <= k
  <1> DEFINE R == OpToRel(<, Nat)
  <1>1. IsWellFoundedOn(R, Nat)
    BY NatLessThanWellFounded
  <1> HIDE DEF R
  <1>2. \E x \in T : \A y \in T : <<y, x>> \notin R
    BY <1>1, WFMin
  <1>3. \A x, y \in Nat : y < x => <<y, x>> \in R
    BY DEF R, OpToRel
  <1> HIDE DEF R
  <1>4. PICK x \in T : \A y \in T : <<y, x>> \notin R
    BY <1>2
  <1>5. \A k \in T : ~(k < x)
    BY <1>3, <1>4
  <1> QED
    BY <1>5

LEMMA SetInduction ==
    ASSUME NEW S, 0 \in S, \A n \in Nat : n \in S => n + 1 \in S
    PROVE  Nat \subseteq S
  <1> SUFFICES ASSUME Nat \ S # {} PROVE FALSE
    OBVIOUS
  <1>1. PICK m \in Nat \ S : \A k \in Nat \ S : m <= k
    BY LeastOf, Nat \ S \in SUBSET Nat
  <1>2. m # 0 /\ m - 1 \in Nat
    BY <1>1
  <1>3. m - 1 \in S
    BY <1>1, <1>2
  <1> QED
    BY <1>1, <1>2, <1>3

-------------------------------------------------------------------------------
(* The loop of parse_commandline. *)

\* The paras after each of the first n turns.
Turns(a, n, g) ==
    g = [k \in 0..n |-> IF k = 0 THEN Defaults ELSE Option(g[k - 1], a[k])]

LEMMA TurnsExist ==
    ASSUME NEW a, NEW n \in Nat
    PROVE  \E g : Turns(a, n, g)
  <1> DEFINE S == {m \in Nat : \E g : Turns(a, m, g)}
  <1>1. 0 \in S
    <2> DEFINE g == [k \in 0..0 |-> Defaults]
    <2>1. g = [k \in 0..0 |-> IF k = 0 THEN Defaults ELSE Option(g[k - 1], a[k])]
      OBVIOUS
    <2> QED
      BY <2>1 DEF Turns
  <1>2. ASSUME NEW m \in Nat, m \in S PROVE m + 1 \in S
    <2>1. PICK g : Turns(a, m, g)
      BY <1>2
    <2> DEFINE h == [k \in 0..(m + 1) |->
                        IF k \in 0..m THEN g[k] ELSE Option(g[m], a[m + 1])]
    <2>2. ASSUME NEW k \in 0..(m + 1)
          PROVE  h[k] = IF k = 0 THEN Defaults ELSE Option(h[k - 1], a[k])
      <3>1. CASE k = 0
        BY <2>1, <3>1 DEF Turns
      <3>2. CASE k \in 1..m
        <4>1. h[k] = g[k] /\ h[k - 1] = g[k - 1] /\ k \in 0..m /\ k # 0
          BY <3>2
        <4>2. g[k] = Option(g[k - 1], a[k])
          BY <2>1, <4>1 DEF Turns
        <4> QED
          BY <4>1, <4>2
      <3>3. CASE k = m + 1
        <4>1. h[k] = Option(g[m], a[m + 1]) /\ h[k - 1] = g[m] /\ k # 0
          BY <3>3
        <4> QED
          BY <4>1, <3>3
      <3> QED
        BY <3>1, <3>2, <3>3
    <2>3. h = [k \in 0..(m + 1) |-> h[k]]
      OBVIOUS
    <2> HIDE DEF h
    <2>4. Turns(a, m + 1, h)
      BY <2>2, <2>3 DEF Turns
    <2> QED
      BY <2>4
  <1>3. Nat \subseteq S
    <2> HIDE DEF S
    <2> QED
      BY <1>1, <1>2, SetInduction
  <1> QED
    BY <1>3

LEMMA ParseTurns ==
    ASSUME NEW a, Len(a) \in Nat
    PROVE  \E g : Turns(a, Len(a), g) /\ parse_commandline(a) = g[Len(a)]
  <1> DEFINE upTo[k \in 0..Len(a)] ==
                IF k = 0 THEN Defaults ELSE Option(upTo[k - 1], a[k])
  <1>1. parse_commandline(a) = upTo[Len(a)]
    BY DEF parse_commandline
  <1>2. Turns(a, Len(a), upTo)
    BY TurnsExist DEF Turns
  <1> QED
    BY <1>1, <1>2

Para(r) ==
    /\ r = [host |-> r.host, port |-> r.port, infile |-> r.infile, outfile |-> r.outfile,
            opterr |-> r.opterr, usage |-> r.usage, crash |-> r.crash]
    /\ r.port \in Shorts
    /\ r.opterr \in BOOLEAN
    /\ r.usage \in Nat
    /\ r.crash \in BOOLEAN

\* The last of the first n that are one of opts.
LastUpTo(a, n, opts) ==
    {k \in 1..n : a[k].opt \in opts /\ \A j \in k+1..n : a[j].opt \notin opts}

\* What the first n options of a make of r if none of them stops the program.
Told(a, n, r) ==
    /\ r.opterr = TRUE <=> \E k \in 1..n : a[k].opt = "?"
    /\ \A k \in LastUpTo(a, n, {"h"}) : r.host = Text(a[k].arg)
    /\ \A k \in LastUpTo(a, n, {"f"}) : r.infile = a[k].arg
    /\ \A k \in LastUpTo(a, n, {"f", "o"}) :
           a[k].opt = "o" => r.outfile = Text(a[k].arg)
    /\ \A k \in LastUpTo(a, n, {"f"}) :
           LastUpTo(a, n, {"o"}) = {} => r.outfile = basename[a[k].arg]
    /\ \A k \in LastUpTo(a, n, {"p"}) : a[k].arg # NULL => r.port = Short(a[k].arg)
    /\ LastUpTo(a, n, {"h"}) = {} => r.host = HOST
    /\ LastUpTo(a, n, {"p"}) = {} => r.port = PORT

UnknownTo(a, n) == {k \in 1..n : a[k].opt = "?"}

Means(a, n, r) ==
    /\ Para(r)
    /\ r.crash = TRUE <=> \E k \in 1..n : a[k].opt = "p" /\ a[k].arg = NULL
    /\ r.crash = FALSE => Told(a, n, r)
    /\ r.usage <= Cardinality(UnknownTo(a, n))

\* One more option is the last of its kind, or the last of them stays what it is.
LEMMA LastNext ==
    ASSUME NEW a, NEW n \in Nat, NEW opts
    PROVE  LastUpTo(a, n + 1, opts) =
               IF a[n + 1].opt \in opts THEN {n + 1} ELSE LastUpTo(a, n, opts)
  <1>1. 1..(n + 1) = (1..n) \union {n + 1}
    OBVIOUS
  <1>2. ASSUME NEW k \in 1..n PROVE (k+1)..(n + 1) = (k+1..n) \union {n + 1}
    OBVIOUS
  <1>3. (n + 1 + 1)..(n + 1) = {}
    OBVIOUS
  <1>4. CASE a[n + 1].opt \in opts
    BY <1>1, <1>2, <1>3, <1>4 DEF LastUpTo
  <1>5. CASE a[n + 1].opt \notin opts
    BY <1>1, <1>2, <1>5 DEF LastUpTo
  <1> QED
    BY <1>4, <1>5

LEMMA NoneMeant ==
    ASSUME NEW a
    PROVE  Means(a, 0, Defaults)
  <1>1. /\ LastUpTo(a, 0, {"h"}) = {} /\ LastUpTo(a, 0, {"f"}) = {}
        /\ LastUpTo(a, 0, {"f", "o"}) = {} /\ LastUpTo(a, 0, {"p"}) = {}
    BY DEF LastUpTo
  <1>2. /\ Defaults.host = HOST /\ Defaults.port = PORT /\ Defaults.usage = 0
        /\ Defaults.opterr = FALSE /\ Defaults.crash = FALSE
    BY DEF Defaults
  <1>3. Para(Defaults)
    BY DEF Para, Defaults, PORT, Shorts
  <1> HIDE DEF Defaults
  <1>4. /\ Defaults.crash = TRUE <=> \E k \in 1..0 : a[k].opt = "p" /\ a[k].arg = NULL
        /\ Defaults.opterr = TRUE <=> \E k \in 1..0 : a[k].opt = "?"
    <2>1. \A k \in 1..0 : FALSE
      OBVIOUS
    <2> QED
      BY ONLY <1>2, <2>1
  <1>5. Told(a, 0, Defaults)
    BY ONLY <1>1, <1>2, <1>4 DEF Told
  <1>6. Defaults.usage <= Cardinality(UnknownTo(a, 0))
    <2>1. UnknownTo(a, 0) = {}
      BY DEF UnknownTo
    <2> QED
      BY <1>2, <2>1, FS_EmptySet
  <1> QED
    BY ONLY <1>3, <1>4, <1>5, <1>6 DEF Means

LEMMA ShortInRange ==
    ASSUME NEW n \in Int
    PROVE  /\ Short(n) \in Shorts
           /\ Short(n) % 65536 = n % 65536
  <1> DEFINE m == (n + 32768) % 65536
  <1>1. m \in Int /\ 0 <= m /\ m <= 65535
    OBVIOUS
  <1>2. (m - 32768) % 65536 = n % 65536
    OBVIOUS
  <1>3. Short(n) = m - 32768
    BY DEF Short
  <1> HIDE DEF m
  <1>4. Short(n) \in Int /\ -32768 <= Short(n) /\ Short(n) <= 32767
    BY <1>1, <1>3
  <1> QED
    BY ONLY <1>2, <1>3, <1>4 DEF Shorts

\* The fields of one turn's result, if it had them before.
Turned(r, o, q) ==
    /\ q.host = IF o.opt = "h" THEN Text(o.arg) ELSE r.host
    /\ q.port = IF o.opt = "p" /\ o.arg # NULL THEN Short(o.arg) ELSE r.port
    /\ q.infile = IF o.opt = "f" THEN o.arg ELSE r.infile
    /\ q.outfile = IF o.opt = "f" THEN basename[o.arg]
                   ELSE IF o.opt = "o" THEN Text(o.arg) ELSE r.outfile
    /\ q.opterr = IF o.opt = "?" THEN TRUE ELSE r.opterr
    /\ q.usage = IF o.opt = "?" THEN r.usage + 1 ELSE r.usage
    /\ q.crash = IF o.opt = "p" /\ o.arg = NULL THEN TRUE ELSE r.crash

LEMMA OptionTurns ==
    ASSUME NEW r, NEW o, Para(r), r.crash = FALSE, o.opt \in {"h", "p", "f", "o", "?"},
           o.opt = "p" => o.arg \in Int \union {NULL}
    PROVE  Para(Option(r, o)) /\ Turned(r, o, Option(r, o))
  <1> DEFINE q == Option(r, o)
  <1>1. r = [host |-> r.host, port |-> r.port, infile |-> r.infile, outfile |-> r.outfile,
             opterr |-> r.opterr, usage |-> r.usage, crash |-> r.crash]
    BY DEF Para
  <1>2. CASE o.opt = "h"
    <2>1. q = [r EXCEPT !.host = Text(o.arg)]
      BY ONLY r.crash = FALSE, <1>2 DEF Option
    <2>2. q = [host |-> Text(o.arg), port |-> r.port, infile |-> r.infile,
               outfile |-> r.outfile, opterr |-> r.opterr, usage |-> r.usage,
               crash |-> r.crash]
      BY <1>1, <2>1
    <2> HIDE DEF q
    <2>3. Turned(r, o, q)
      BY <1>2, <2>2 DEF Turned
    <2>4. Para(q)
      BY <2>2 DEF Para
    <2> QED
      BY <2>3, <2>4 DEF q
  <1>3. CASE o.opt = "p" /\ o.arg = NULL
    <2>1. q = [r EXCEPT !.crash = TRUE]
      BY ONLY r.crash = FALSE, <1>3 DEF Option
    <2>2. q = [host |-> r.host, port |-> r.port, infile |-> r.infile,
               outfile |-> r.outfile, opterr |-> r.opterr, usage |-> r.usage,
               crash |-> TRUE]
      BY <1>1, <2>1
    <2> HIDE DEF q
    <2>3. Turned(r, o, q)
      BY <1>3, <2>2 DEF Turned
    <2>4. Para(q)
      BY <2>2 DEF Para
    <2> QED
      BY <2>3, <2>4 DEF q
  <1>4. CASE o.opt = "p" /\ o.arg # NULL
    <2>1. q = [r EXCEPT !.port = Short(o.arg)]
      BY ONLY r.crash = FALSE, <1>4 DEF Option
    <2>2. q = [host |-> r.host, port |-> Short(o.arg), infile |-> r.infile,
               outfile |-> r.outfile, opterr |-> r.opterr, usage |-> r.usage,
               crash |-> r.crash]
      BY <1>1, <2>1
    <2>3. Short(o.arg) \in Shorts
      BY <1>4, ShortInRange
    <2> HIDE DEF q
    <2>4. Turned(r, o, q)
      BY <1>4, <2>2 DEF Turned
    <2>5. Para(q)
      BY <2>2, <2>3 DEF Para
    <2> QED
      BY <2>4, <2>5 DEF q
  <1>5. CASE o.opt = "f"
    <2>1. q = [r EXCEPT !.infile = o.arg, !.outfile = basename[o.arg]]
      BY ONLY r.crash = FALSE, <1>5 DEF Option
    <2>2. q = [host |-> r.host, port |-> r.port, infile |-> o.arg,
               outfile |-> basename[o.arg], opterr |-> r.opterr, usage |-> r.usage,
               crash |-> r.crash]
      BY <1>1, <2>1
    <2> HIDE DEF q
    <2>3. Turned(r, o, q)
      BY <1>5, <2>2 DEF Turned
    <2>4. Para(q)
      BY <2>2 DEF Para
    <2> QED
      BY <2>3, <2>4 DEF q
  <1>6. CASE o.opt = "o"
    <2>1. q = [r EXCEPT !.outfile = Text(o.arg)]
      BY ONLY r.crash = FALSE, <1>6 DEF Option
    <2>2. q = [host |-> r.host, port |-> r.port, infile |-> r.infile,
               outfile |-> Text(o.arg), opterr |-> r.opterr, usage |-> r.usage,
               crash |-> r.crash]
      BY <1>1, <2>1
    <2> HIDE DEF q
    <2>3. Turned(r, o, q)
      BY <1>6, <2>2 DEF Turned
    <2>4. Para(q)
      BY <2>2 DEF Para
    <2> QED
      BY <2>3, <2>4 DEF q
  <1>7. CASE o.opt = "?"
    <2>1. q = [r EXCEPT !.opterr = TRUE, !.usage = r.usage + 1]
      BY ONLY r.crash = FALSE, <1>7 DEF Option
    <2>2. q = [host |-> r.host, port |-> r.port, infile |-> r.infile,
               outfile |-> r.outfile, opterr |-> TRUE, usage |-> r.usage + 1,
               crash |-> r.crash]
      BY <1>1, <2>1
    <2>3. r.usage + 1 \in Nat
      BY <1>7 DEF Para
    <2> HIDE DEF q
    <2>4. Turned(r, o, q)
      BY <1>7, <2>2 DEF Turned
    <2>5. Para(q)
      BY <2>2, <2>3 DEF Para
    <2> QED
      BY <2>4, <2>5 DEF q
  <1> QED
    BY <1>2, <1>3, <1>4, <1>5, <1>6, <1>7

\* One more option that is not known, or as many as before.
LEMMA OneMoreUnknown ==
    ASSUME NEW a, NEW n \in Nat
    PROVE  /\ Cardinality(UnknownTo(a, n)) \in Nat
           /\ Cardinality(UnknownTo(a, n + 1)) =
                  Cardinality(UnknownTo(a, n)) + (IF a[n + 1].opt = "?" THEN 1 ELSE 0)
  <1>1. 1..(n + 1) = (1..n) \union {n + 1} /\ n + 1 \notin 1..n
    OBVIOUS
  <1>2. IsFiniteSet(UnknownTo(a, n))
    <2>1. IsFiniteSet(1..n)
      BY FS_Interval
    <2>2. UnknownTo(a, n) \subseteq 1..n
      BY DEF UnknownTo
    <2> QED
      BY <2>1, <2>2, FS_Subset
  <1>3. Cardinality(UnknownTo(a, n)) \in Nat
    BY <1>2, FS_CardinalityType
  <1>4. CASE a[n + 1].opt = "?"
    <2>1. /\ UnknownTo(a, n + 1) = UnknownTo(a, n) \union {n + 1}
          /\ n + 1 \notin UnknownTo(a, n)
      BY <1>1, <1>4 DEF UnknownTo
    <2>2. Cardinality(UnknownTo(a, n) \union {n + 1}) = Cardinality(UnknownTo(a, n)) + 1
      BY <1>2, <2>1, FS_AddElement
    <2> QED
      BY <1>3, <1>4, <2>1, <2>2
  <1>5. CASE a[n + 1].opt # "?"
    <2>1. UnknownTo(a, n + 1) = UnknownTo(a, n)
      BY <1>1, <1>5 DEF UnknownTo
    <2> QED
      BY <1>3, <1>5, <2>1
  <1> QED
    BY <1>4, <1>5

LEMMA OptionTells ==
    ASSUME NEW a, NEW n \in Nat, NEW r, NEW q, Told(a, n, r), Turned(r, a[n + 1], q)
    PROVE  Told(a, n + 1, q)
  <1> DEFINE o == a[n + 1]
             Last(opts) == LastUpTo(a, n, opts)
             Next1(opts) == LastUpTo(a, n + 1, opts)
  <1>1. \A opts : Next1(opts) = IF o.opt \in opts THEN {n + 1} ELSE Last(opts)
    BY LastNext
  <1>2. /\ Next1({"h"}) = IF o.opt = "h" THEN {n + 1} ELSE Last({"h"})
        /\ Next1({"f"}) = IF o.opt = "f" THEN {n + 1} ELSE Last({"f"})
        /\ Next1({"o"}) = IF o.opt = "o" THEN {n + 1} ELSE Last({"o"})
        /\ Next1({"p"}) = IF o.opt = "p" THEN {n + 1} ELSE Last({"p"})
        /\ Next1({"f", "o"}) = IF o.opt = "f" \/ o.opt = "o" THEN {n + 1} ELSE Last({"f", "o"})
    BY <1>1
  <1>3. \A k : k \in 1..(n + 1) <=> (k \in 1..n \/ k = n + 1)
    OBVIOUS
  <1> HIDE DEF Last, Next1
  <1>4. r.opterr = TRUE <=> \E k \in 1..n : a[k].opt = "?"
    BY DEF Told
  <1>5. /\ \A k \in Last({"h"}) : r.host = Text(a[k].arg)
        /\ \A k \in Last({"f"}) : r.infile = a[k].arg
        /\ \A k \in Last({"f", "o"}) : a[k].opt = "o" => r.outfile = Text(a[k].arg)
        /\ \A k \in Last({"f"}) : Last({"o"}) = {} => r.outfile = basename[a[k].arg]
        /\ \A k \in Last({"p"}) : a[k].arg # NULL => r.port = Short(a[k].arg)
        /\ Last({"h"}) = {} => r.host = HOST
        /\ Last({"p"}) = {} => r.port = PORT
    BY DEF Told, Last
  <1>6. q.opterr = TRUE <=> \E k \in 1..(n + 1) : a[k].opt = "?"
    BY <1>3, <1>4 DEF Turned
  <1>7. \A k \in Next1({"h"}) : q.host = Text(a[k].arg)
    BY <1>2, <1>5 DEF Turned
  <1>8. \A k \in Next1({"f"}) : q.infile = a[k].arg
    BY <1>2, <1>5 DEF Turned
  <1>9. \A k \in Next1({"f", "o"}) : a[k].opt = "o" => q.outfile = Text(a[k].arg)
    BY <1>2, <1>5 DEF Turned
  <1>10. \A k \in Next1({"f"}) : Next1({"o"}) = {} => q.outfile = basename[a[k].arg]
    BY <1>2, <1>5 DEF Turned
  <1>11. \A k \in Next1({"p"}) : a[k].arg # NULL => q.port = Short(a[k].arg)
    BY <1>2, <1>5 DEF Turned
  <1>12. Next1({"h"}) = {} => q.host = HOST
    BY <1>2, <1>5 DEF Turned
  <1>13. Next1({"p"}) = {} => q.port = PORT
    BY <1>2, <1>5 DEF Turned
  <1> QED
    BY <1>6, <1>7, <1>8, <1>9, <1>10, <1>11, <1>12, <1>13 DEF Told, Next1

\* A program that has stopped stays as it is; another takes one more option.
LEMMA OptionMeans ==
    ASSUME NEW a, NEW n \in Nat, NEW r, NEW q, Means(a, n, r), Para(q),
           r.crash = TRUE => q = r,
           r.crash = FALSE => Turned(r, a[n + 1], q)
    PROVE  Means(a, n + 1, q)
  <1>1. \A k : k \in 1..(n + 1) <=> (k \in 1..n \/ k = n + 1)
    OBVIOUS
  <1>2. /\ r.crash = TRUE <=> \E k \in 1..n : a[k].opt = "p" /\ a[k].arg = NULL
        /\ r.crash = FALSE => Told(a, n, r)
        /\ r.crash \in BOOLEAN
        /\ q.crash \in BOOLEAN
    BY DEF Means, Para
  <1>3. q.crash = TRUE <=> \E k \in 1..(n + 1) : a[k].opt = "p" /\ a[k].arg = NULL
    <2>1. CASE r.crash = TRUE
      BY <1>1, <1>2, <2>1
    <2>2. CASE r.crash = FALSE
      BY <1>1, <1>2, <2>2 DEF Turned
    <2> QED
      BY <1>2, <2>1, <2>2
  <1>4. q.crash = FALSE => Told(a, n + 1, q)
    BY <1>2, OptionTells
  <1>5. q.usage <= Cardinality(UnknownTo(a, n + 1))
    <2>1. r.usage <= Cardinality(UnknownTo(a, n)) /\ r.usage \in Nat
      BY DEF Means, Para
    <2>2. \/ q.usage = r.usage
          \/ q.usage = r.usage + 1 /\ a[n + 1].opt = "?"
      <3>1. CASE r.crash = TRUE
        BY ONLY <3>1, r.crash = TRUE => q = r
      <3>2. CASE r.crash = FALSE
        <4>1. Turned(r, a[n + 1], q)
          BY <3>2
        <4> QED
          BY ONLY <4>1 DEF Turned
      <3> QED
        BY <1>2, <3>1, <3>2
    <2> QED
      BY <2>1, <2>2, OneMoreUnknown
  <1> QED
    BY <1>3, <1>4, <1>5 DEF Means

\* What a whole command line means, however long it is.
LEMMA ParseMeans ==
    ASSUME NEW a, IsCommandLine(a)
    PROVE  Len(a) \in Nat /\ Means(a, Len(a), parse_commandline(a))
  <1>1. Len(a) \in Nat /\ DOMAIN a = 1..Len(a)
    BY LenProperties DEF IsCommandLine, IsSequence
  <1>2. PICK g : Turns(a, Len(a), g) /\ parse_commandline(a) = g[Len(a)]
    BY <1>1, ParseTurns
  <1> DEFINE S == {k \in Nat : k <= Len(a) => Means(a, k, g[k])}
  <1>3. 0 \in S
    <2>1. g[0] = Defaults
      BY <1>1, <1>2 DEF Turns
    <2> QED
      BY <2>1, NoneMeant
  <1>4. ASSUME NEW k \in Nat, k \in S PROVE k + 1 \in S
    <2> SUFFICES ASSUME k + 1 <= Len(a) PROVE Means(a, k + 1, g[k + 1])
      OBVIOUS
    <2>1. Means(a, k, g[k])
      BY <1>1, <1>4
    <2>2. k + 1 \in 1..Len(a) /\ k + 1 \in 0..Len(a) /\ k + 1 # 0 /\ k + 1 - 1 = k
      BY <1>1
    <2>3. g[k + 1] = Option(g[k], a[k + 1])
      BY <1>2, <2>2 DEF Turns
    <2>4. /\ a[k + 1].opt \in {"h", "p", "f", "o", "?"}
          /\ a[k + 1].opt = "p" => a[k + 1].arg \in Int \union {NULL}
      BY <1>1, <2>2 DEF IsCommandLine
    <2>5. Para(g[k])
      BY <2>1 DEF Means
    <2>6. /\ Para(g[k + 1])
          /\ g[k].crash = TRUE => g[k + 1] = g[k]
          /\ g[k].crash = FALSE => Turned(g[k], a[k + 1], g[k + 1])
      <3>1. CASE g[k].crash = TRUE
        BY <2>3, <2>5, <3>1 DEF Option
      <3>2. CASE g[k].crash = FALSE
        BY <2>3, <2>4, <2>5, <3>2, OptionTurns
      <3> QED
        BY <2>5, <3>1, <3>2 DEF Para
    <2> QED
      BY <2>1, <2>6, OptionMeans
  <1>5. Nat \subseteq S
    <2> HIDE DEF S
    <2> QED
      BY <1>3, <1>4, SetInduction
  <1> QED
    BY <1>1, <1>2, <1>5

-------------------------------------------------------------------------------
(* The loop of loadConfig. *)

Wish == [silent : BOOLEAN, wrap : BOOLEAN, flush : BOOLEAN, debug : Int,
         logfile : LogName \union Unremovable \union {""}]

\* The wishes after each of the first n lines.
Lined(s, text, unset, n, g) ==
    g = [k \in 0..n |-> IF k = 0 THEN FirstWish(s)
                                 ELSE Setting(g[k - 1], text[k], unset[k])]

LEMMA LinedExist ==
    ASSUME NEW s, NEW text, NEW unset, NEW n \in Nat
    PROVE  \E g : Lined(s, text, unset, n, g)
  <1> DEFINE S == {m \in Nat : \E g : Lined(s, text, unset, m, g)}
  <1>1. 0 \in S
    <2> DEFINE g == [k \in 0..0 |-> FirstWish(s)]
    <2>1. g = [k \in 0..0 |-> IF k = 0 THEN FirstWish(s)
                                       ELSE Setting(g[k - 1], text[k], unset[k])]
      OBVIOUS
    <2> QED
      BY <2>1 DEF Lined
  <1>2. ASSUME NEW m \in Nat, m \in S PROVE m + 1 \in S
    <2>1. PICK g : Lined(s, text, unset, m, g)
      BY <1>2
    <2> DEFINE h == [k \in 0..(m + 1) |->
                        IF k \in 0..m THEN g[k]
                                      ELSE Setting(g[m], text[m + 1], unset[m + 1])]
    <2>2. ASSUME NEW k \in 0..(m + 1)
          PROVE  h[k] = IF k = 0 THEN FirstWish(s)
                                 ELSE Setting(h[k - 1], text[k], unset[k])
      <3>1. CASE k = 0
        BY <2>1, <3>1 DEF Lined
      <3>2. CASE k \in 1..m
        <4>1. h[k] = g[k] /\ h[k - 1] = g[k - 1] /\ k \in 0..m /\ k # 0
          BY <3>2
        <4>2. g[k] = Setting(g[k - 1], text[k], unset[k])
          BY <2>1, <4>1 DEF Lined
        <4> QED
          BY <4>1, <4>2
      <3>3. CASE k = m + 1
        <4>1. h[k] = Setting(g[m], text[m + 1], unset[m + 1]) /\ h[k - 1] = g[m] /\ k # 0
          BY <3>3
        <4> QED
          BY <4>1, <3>3
      <3> QED
        BY <3>1, <3>2, <3>3
    <2>3. h = [k \in 0..(m + 1) |-> h[k]]
      OBVIOUS
    <2> HIDE DEF h
    <2>4. Lined(s, text, unset, m + 1, h)
      BY <2>2, <2>3 DEF Lined
    <2> QED
      BY <2>4
  <1>3. Nat \subseteq S
    <2> HIDE DEF S
    <2> QED
      BY <1>1, <1>2, SetInduction
  <1> QED
    BY <1>3

LEMMA WantedLines ==
    ASSUME NEW s, NEW text, NEW unset, Len(text) \in Nat
    PROVE  \E g : /\ Lined(s, text, unset, Len(text), g)
                  /\ Wanted(s, text, unset) = g[Len(text)]
  <1> DEFINE after[k \in 0..Len(text)] ==
                IF k = 0 THEN FirstWish(s) ELSE Setting(after[k - 1], text[k], unset[k])
  <1>1. Wanted(s, text, unset) = after[Len(text)]
    BY DEF Wanted
  <1>2. Lined(s, text, unset, Len(text), after)
    <2>1. \E g : Lined(s, text, unset, Len(text), g)
      BY LinedExist
    <2>2. after = [k \in 0..Len(text) |->
                      IF k = 0 THEN FirstWish(s) ELSE Setting(after[k - 1], text[k], unset[k])]
      BY <2>1 DEF Lined
    <2> QED
      BY <2>2 DEF Lined
  <1> QED
    BY <1>1, <1>2

\* The last of the first n lines for a variable.
LastLineTo(text, n, var) ==
    {k \in 1..n : text[k].var = var /\ \A j \in k+1..n : text[j].var # var}

LEMMA LastLineNext ==
    ASSUME NEW text, NEW n \in Nat, NEW var
    PROVE  LastLineTo(text, n + 1, var) =
               IF text[n + 1].var = var THEN {n + 1} ELSE LastLineTo(text, n, var)
  <1>1. 1..(n + 1) = (1..n) \union {n + 1}
    OBVIOUS
  <1>2. ASSUME NEW k \in 1..n PROVE (k+1)..(n + 1) = (k+1..n) \union {n + 1}
    OBVIOUS
  <1>3. (n + 1 + 1)..(n + 1) = {}
    OBVIOUS
  <1>4. CASE text[n + 1].var = var
    BY <1>1, <1>2, <1>3, <1>4 DEF LastLineTo
  <1>5. CASE text[n + 1].var # var
    BY <1>1, <1>2, <1>5 DEF LastLineTo
  <1> QED
    BY <1>4, <1>5

\* What one line makes of a wish, variable by variable.
Changed(w, l, v) ==
    /\ v \in Wish
    /\ l.var = "silent" => /\ l.val = "true" => v.silent = TRUE
                           /\ l.val = "false" => v.silent = FALSE
    /\ l.var = "wrap" => /\ l.val = "true" => v.wrap = TRUE
                         /\ l.val = "false" => v.wrap = FALSE
    /\ l.var = "debug" => v.debug = l.val
    /\ l.var # "silent" => v.silent = w.silent
    /\ l.var # "wrap" => v.wrap = w.wrap
    /\ l.var # "flush" => v.flush = w.flush
    /\ l.var # "debug" => v.debug = w.debug

LEMMA SettingChanges ==
    ASSUME NEW w \in Wish, NEW l, NEW u \in BOOLEAN,
           l.var = "debug" => l.val \in Int,
           l.var = "logfile" => l.val \in LogName \union Unremovable \union {""}
    PROVE  Changed(w, l, Setting(w, l, u))
  <1> DEFINE v == Setting(w, l, u)
             b == Bool(l.val, u)
  <1>1. /\ b \in BOOLEAN
        /\ l.val = "true" => b = TRUE
        /\ l.val = "false" => b = FALSE
    <2>1. CASE l.val = "true"
      BY <2>1, Zenon DEF Bool
    <2>2. CASE l.val = "false"
      BY <2>2, Zenon DEF Bool
    <2>3. CASE l.val # "true" /\ l.val # "false"
      BY <2>3, Zenon DEF Bool
    <2> QED
      BY <2>1, <2>2, <2>3
  <1>2. CASE l.var = "silent"
    <2>1. v = [w EXCEPT !.silent = b]
      BY ONLY <1>2 DEF Setting
    <2> HIDE DEF v, b
    <2>2. Changed(w, l, v)
      BY <1>1, <1>2, <2>1 DEF Changed, Wish
    <2> QED
      BY <2>2 DEF v
  <1>3. CASE l.var = "flush"
    <2>1. v = [w EXCEPT !.flush = b]
      BY ONLY <1>3 DEF Setting
    <2> HIDE DEF v, b
    <2>2. Changed(w, l, v)
      BY <1>1, <1>3, <2>1 DEF Changed, Wish
    <2> QED
      BY <2>2 DEF v
  <1>4. CASE l.var = "wrap"
    <2>1. v = [w EXCEPT !.wrap = b]
      BY ONLY <1>4 DEF Setting
    <2> HIDE DEF v, b
    <2>2. Changed(w, l, v)
      BY <1>1, <1>4, <2>1 DEF Changed, Wish
    <2> QED
      BY <2>2 DEF v
  <1>5. CASE l.var = "debug"
    <2>1. v = [w EXCEPT !.debug = l.val]
      BY ONLY <1>5 DEF Setting
    <2> HIDE DEF v, b
    <2>2. Changed(w, l, v)
      BY <1>5, <2>1 DEF Changed, Wish
    <2> QED
      BY <2>2 DEF v
  <1>6. CASE l.var = "logfile"
    <2>1. v = [w EXCEPT !.logfile = l.val]
      BY ONLY <1>6 DEF Setting
    <2> HIDE DEF v, b
    <2>2. Changed(w, l, v)
      BY <1>6, <2>1 DEF Changed, Wish
    <2> QED
      BY <2>2 DEF v
  <1>7. CASE l.var \notin {"silent", "flush", "wrap", "debug", "logfile"}
    <2>1. v = w
      BY ONLY <1>7 DEF Setting
    <2> HIDE DEF v, b
    <2>2. Changed(w, l, v)
      BY <1>7, <2>1 DEF Changed, Wish
    <2> QED
      BY <2>2 DEF v
  <1> QED
    BY <1>2, <1>3, <1>4, <1>5, <1>6, <1>7

\* What the first n lines of text make of the settings s.
WishMeans(s, text, n, w) ==
    /\ w \in Wish
    /\ \A k \in LastLineTo(text, n, "silent") :
        /\ text[k].val = "true" => w.silent = TRUE
        /\ text[k].val = "false" => w.silent = FALSE
    /\ \A k \in LastLineTo(text, n, "wrap") :
        /\ text[k].val = "true" => w.wrap = TRUE
        /\ text[k].val = "false" => w.wrap = FALSE
    /\ \A k \in LastLineTo(text, n, "debug") : w.debug = text[k].val
    /\ LastLineTo(text, n, "silent") = {} => w.silent = s.silentMode
    /\ LastLineTo(text, n, "wrap") = {} => w.wrap = s.lineWrap
    /\ LastLineTo(text, n, "flush") = {} => w.flush = FALSE
    /\ LastLineTo(text, n, "debug") = {} => w.debug = s.dbgLevel

LEMMA FirstWishMeans ==
    ASSUME NEW s \in Settings, NEW text
    PROVE  WishMeans(s, text, 0, FirstWish(s))
  <1>1. \A var : LastLineTo(text, 0, var) = {}
    BY DEF LastLineTo
  <1>2. FirstWish(s) \in Wish
    <2>1. /\ s.silentMode \in BOOLEAN /\ s.lineWrap \in BOOLEAN
          /\ s.dbgLevel \in INFO..VERBOSE /\ s.logFile \in LogName \union Unremovable \union {""}
      BY DEF Settings
    <2>2. \A n \in INFO..VERBOSE : n \in Int
      BY DEF INFO, VERBOSE
    <2> QED
      BY <2>1, <2>2 DEF FirstWish, Wish
  <1>3. /\ FirstWish(s).silent = s.silentMode /\ FirstWish(s).wrap = s.lineWrap
        /\ FirstWish(s).flush = FALSE /\ FirstWish(s).debug = s.dbgLevel
    BY DEF FirstWish
  <1> HIDE DEF FirstWish
  <1> QED
    BY <1>1, <1>2, <1>3 DEF WishMeans

LEMMA NextWishMeans ==
    ASSUME NEW s, NEW text, NEW n \in Nat, NEW w, NEW v,
           WishMeans(s, text, n, w), Changed(w, text[n + 1], v)
    PROVE  WishMeans(s, text, n + 1, v)
  <1> DEFINE Last(var) == LastLineTo(text, n, var)
             Next1(var) == LastLineTo(text, n + 1, var)
             l == text[n + 1]
  <1>1. /\ Next1("silent") = IF l.var = "silent" THEN {n + 1} ELSE Last("silent")
        /\ Next1("wrap") = IF l.var = "wrap" THEN {n + 1} ELSE Last("wrap")
        /\ Next1("flush") = IF l.var = "flush" THEN {n + 1} ELSE Last("flush")
        /\ Next1("debug") = IF l.var = "debug" THEN {n + 1} ELSE Last("debug")
    BY LastLineNext
  <1> HIDE DEF Last, Next1
  <1>2. /\ \A k \in Last("silent") : /\ text[k].val = "true" => w.silent = TRUE
                                     /\ text[k].val = "false" => w.silent = FALSE
        /\ \A k \in Last("wrap") : /\ text[k].val = "true" => w.wrap = TRUE
                                   /\ text[k].val = "false" => w.wrap = FALSE
        /\ \A k \in Last("debug") : w.debug = text[k].val
        /\ Last("silent") = {} => w.silent = s.silentMode
        /\ Last("wrap") = {} => w.wrap = s.lineWrap
        /\ Last("flush") = {} => w.flush = FALSE
        /\ Last("debug") = {} => w.debug = s.dbgLevel
    BY DEF WishMeans, Last
  <1>3. /\ \A k \in Next1("silent") : /\ text[k].val = "true" => v.silent = TRUE
                                      /\ text[k].val = "false" => v.silent = FALSE
        /\ Next1("silent") = {} => v.silent = s.silentMode
    BY <1>1, <1>2 DEF Changed
  <1>4. /\ \A k \in Next1("wrap") : /\ text[k].val = "true" => v.wrap = TRUE
                                    /\ text[k].val = "false" => v.wrap = FALSE
        /\ Next1("wrap") = {} => v.wrap = s.lineWrap
    BY <1>1, <1>2 DEF Changed
  <1>5. Next1("flush") = {} => v.flush = FALSE
    BY <1>1, <1>2 DEF Changed
  <1>6. /\ \A k \in Next1("debug") : v.debug = text[k].val
        /\ Next1("debug") = {} => v.debug = s.dbgLevel
    BY <1>1, <1>2 DEF Changed
  <1>7. v \in Wish
    BY DEF Changed
  <1> QED
    BY <1>3, <1>4, <1>5, <1>6, <1>7 DEF WishMeans, Next1

GoodText(text) ==
    /\ Len(text) \in Nat
    /\ \A k \in 1..Len(text) :
        /\ text[k].var = "debug" => text[k].val \in Int
        /\ text[k].var = "logfile" => text[k].val \in LogName \union Unremovable \union {""}

\* What a whole configuration makes of the settings, whatever boolVal happens to be.
LEMMA WantedMeans ==
    ASSUME NEW s \in Settings, NEW text, GoodText(text),
           NEW unset \in [1..Len(text) -> BOOLEAN]
    PROVE  WishMeans(s, text, Len(text), Wanted(s, text, unset))
  <1>1. Len(text) \in Nat
    BY DEF GoodText
  <1>2. PICK g : Lined(s, text, unset, Len(text), g)
                 /\ Wanted(s, text, unset) = g[Len(text)]
    BY <1>1, WantedLines
  <1> DEFINE S == {k \in Nat : k <= Len(text) => WishMeans(s, text, k, g[k])}
  <1>3. 0 \in S
    <2>1. g[0] = FirstWish(s)
      BY <1>1, <1>2 DEF Lined
    <2> QED
      BY <2>1, FirstWishMeans
  <1>4. ASSUME NEW k \in Nat, k \in S PROVE k + 1 \in S
    <2> SUFFICES ASSUME k + 1 <= Len(text) PROVE WishMeans(s, text, k + 1, g[k + 1])
      OBVIOUS
    <2>1. WishMeans(s, text, k, g[k])
      BY <1>1, <1>4
    <2>2. k + 1 \in 1..Len(text) /\ k + 1 \in 0..Len(text) /\ k + 1 # 0 /\ k + 1 - 1 = k
      BY <1>1
    <2>3. g[k + 1] = Setting(g[k], text[k + 1], unset[k + 1])
      BY <1>2, <2>2 DEF Lined
    <2>4. /\ text[k + 1].var = "debug" => text[k + 1].val \in Int
          /\ text[k + 1].var = "logfile" => text[k + 1].val \in LogName \union Unremovable \union {""}
          /\ unset[k + 1] \in BOOLEAN
      BY <2>2 DEF GoodText
    <2>5. g[k] \in Wish
      BY <2>1 DEF WishMeans
    <2>6. Changed(g[k], text[k + 1], g[k + 1])
      BY <2>3, <2>4, <2>5, SettingChanges
    <2> QED
      BY <2>1, <2>6, NextWishMeans
  <1>5. Nat \subseteq S
    <2> HIDE DEF S
    <2> QED
      BY <1>3, <1>4, SetInduction
  <1> QED
    BY <1>1, <1>2, <1>5

-------------------------------------------------------------------------------
(* The calls that a process has still to do. *)

\* The call at the head returns; another one takes its place.
Popped(c, d) ==
    /\ IsSequence(d) /\ Len(c) > 0
    /\ Len(d) = Len(c) - 1
    /\ \A i \in 1..Len(d) : i + 1 \in 1..Len(c) /\ d[i] = c[i + 1]

Swapped(c, d, x) ==
    /\ IsSequence(d) /\ Len(c) > 0
    /\ Len(d) = Len(c)
    /\ d[1] = x
    /\ \A i \in 2..Len(d) : d[i] = c[i]

LEMMA SequenceLen ==
    ASSUME NEW c, IsSequence(c)
    PROVE  /\ Len(c) \in Nat
           /\ DOMAIN c = 1..Len(c)
           /\ c = <<>> <=> Len(c) = 0
           /\ c # <<>> => Head(c) = c[1]
  BY LenProperties, EmptySeq DEF IsSequence

LEMMA SequenceOver ==
    ASSUME NEW S, NEW c \in Seq(S)
    PROVE  IsSequence(c)
  <1> DEFINE T == {c[i] : i \in DOMAIN c}
  <1>1. Len(c) \in Nat /\ DOMAIN c = 1..Len(c) /\ c \in [1..Len(c) -> S]
    BY LenProperties
  <1>2. c \in [1..Len(c) -> T]
    BY <1>1
  <1>3. c \in Seq(T)
    <2> HIDE DEF T
    <2> QED
      BY <1>1, <1>2, SeqDef
  <1> QED
    BY <1>3 DEF IsSequence

LEMMA TailPops ==
    ASSUME NEW c, IsSequence(c), c # <<>>
    PROVE  Popped(c, <<>> \o Tail(c))
  <1> DEFINE S == {c[i] : i \in DOMAIN c}
  <1>1. c \in Seq(S)
    BY DEF IsSequence
  <1> HIDE DEF S
  <1>2. /\ Tail(c) \in Seq(S) /\ Len(Tail(c)) = Len(c) - 1
        /\ \A i \in 1..Len(Tail(c)) : Tail(c)[i] = c[i + 1]
    BY <1>1, HeadTailProperties
  <1>3. Len(c) \in Nat \ {0}
    BY <1>1, EmptySeq
  <1>4. <<>> \o Tail(c) = Tail(c)
    BY <1>2, ConcatEmptySeq
  <1>5. IsSequence(Tail(c))
    BY <1>2, SequenceOver
  <1> DEFINE d == Tail(c)
  <1>6. \A i \in 1..Len(d) : i + 1 \in 1..Len(c)
    BY <1>2, <1>3
  <1> QED
    BY <1>2, <1>3, <1>4, <1>5, <1>6 DEF Popped

\* What is put before the tail, element by element.
LEMMA PutBefore ==
    ASSUME NEW c, IsSequence(c), c # <<>>, NEW m, IsSequence(m)
    PROVE  LET d == m \o Tail(c)
           IN  /\ IsSequence(d)
               /\ Len(d) = Len(m) + Len(c) - 1
               /\ \A i \in 1..Len(m) : d[i] = m[i]
               /\ \A i \in 2..Len(c) : d[Len(m) + i - 1] = c[i]
               /\ \A i \in 1..Len(d) : \/ i \in 1..Len(m)
                                       \/ i - Len(m) + 1 \in 2..Len(c)
  <1> DEFINE S == {c[i] : i \in DOMAIN c} \union {m[i] : i \in DOMAIN m}
             d == m \o Tail(c)
  <1>1. c \in Seq(S) /\ m \in Seq(S)
    BY SeqMonotonic DEF IsSequence
  <1> HIDE DEF S
  <1>2. /\ Tail(c) \in Seq(S) /\ Len(Tail(c)) = Len(c) - 1
        /\ \A i \in 1..Len(Tail(c)) : Tail(c)[i] = c[i + 1]
    BY <1>1, HeadTailProperties
  <1>3. Len(c) \in Nat \ {0} /\ Len(m) \in Nat
    BY <1>1, EmptySeq, LenProperties
  <1>4. /\ d \in Seq(S) /\ Len(d) = Len(m) + Len(Tail(c))
        /\ \A i \in 1..Len(m) : d[i] = m[i]
        /\ \A i \in 1..Len(Tail(c)) : d[Len(m) + i] = Tail(c)[i]
    BY <1>1, <1>2, ConcatParts
  <1>5. IsSequence(d)
    BY <1>4, SequenceOver
  <1> HIDE DEF d
  <1>6. Len(d) = Len(m) + Len(c) - 1
    BY <1>2, <1>3, <1>4
  <1>7. ASSUME NEW i \in 2..Len(c) PROVE d[Len(m) + i - 1] = c[i]
    <2>1. i - 1 \in 1..Len(Tail(c)) /\ Len(m) + (i - 1) = Len(m) + i - 1 /\ i - 1 + 1 = i
      BY <1>2, <1>3
    <2> QED
      BY <1>2, <1>4, <2>1
  <1>8. \A i \in 1..Len(d) : i \in 1..Len(m) \/ i - Len(m) + 1 \in 2..Len(c)
    BY <1>3, <1>6
  <1> QED
    BY <1>4, <1>5, <1>6, <1>7, <1>8 DEF d

LEMMA OneSwaps ==
    ASSUME NEW c, IsSequence(c), c # <<>>, NEW x
    PROVE  Swapped(c, <<x>> \o Tail(c), x)
  <1> DEFINE m == <<x>>
             d == m \o Tail(c)
  <1>1. m \in Seq({x}) /\ Len(m) = 1 /\ m[1] = x
    OBVIOUS
  <1>2. IsSequence(m)
    BY <1>1, SequenceOver
  <1> HIDE DEF m
  <1>3. /\ IsSequence(d)
        /\ Len(d) = Len(m) + Len(c) - 1
        /\ \A i \in 1..Len(m) : d[i] = m[i]
        /\ \A i \in 2..Len(c) : d[Len(m) + i - 1] = c[i]
    BY <1>2, PutBefore
  <1>4. Len(c) \in Nat \ {0}
    BY SequenceLen
  <1> HIDE DEF d
  <1>5. \A i \in 2..Len(c) : Len(m) + i - 1 = i
    BY <1>1, <1>4
  <1>6. Swapped(c, d, x)
    BY <1>1, <1>3, <1>4, <1>5 DEF Swapped
  <1> QED
    BY <1>6 DEF d, m

\* The calls with which loadConfig ends.
Applied(w, m) ==
    /\ IsSequence(m)
    /\ Len(m) >= 3
    /\ \A i \in 1..Len(m) :
        /\ m[i].op \in {"setLogFile", "flushLog", "setLogSilentMode", "setLineWrap",
                        "setLogDebugLevel"}
        /\ m[i].op = "setLogFile" => m[i].file = w.logfile
        /\ m[i].op = "setLogSilentMode" => m[i].on = w.silent
        /\ m[i].op = "setLineWrap" => m[i].on = w.wrap
        /\ m[i].op = "setLogDebugLevel" => m[i].level = w.debug
    /\ \E i \in 1..Len(m) : m[i].op = "setLogSilentMode"
    /\ \E i \in 1..Len(m) : m[i].op = "setLineWrap"
    /\ \E i \in 1..Len(m) : m[i].op = "setLogDebugLevel"
    /\ w.silent = TRUE => \/ m[1].op = "setLogSilentMode"
                          \/ /\ w.flush = TRUE
                             /\ m[1].op = "flushLog"
                             /\ m[2].op = "setLogSilentMode"

LEMMA ApplyApplied ==
    ASSUME NEW w \in Wish
    PROVE  Applied(w, Apply(w))
  <1> DEFINE a == [op |-> "setLogFile", file |-> w.logfile]
             b == [op |-> "flushLog"]
             x == [op |-> "setLogSilentMode", on |-> w.silent]
             y == [op |-> "setLineWrap", on |-> w.wrap]
             z == [op |-> "setLogDebugLevel", level |-> w.debug]
             S == {a, b, x, y, z}
             e == IF w.silent THEN <<>> ELSE <<a>>
             f == IF w.flush THEN <<b>> ELSE <<>>
             g == <<x, y, z>>
  <1>1. Apply(w) = (e \o f) \o g
    BY DEF Apply
  <1>2. /\ a.op = "setLogFile" /\ a.file = w.logfile
        /\ b.op = "flushLog"
        /\ x.op = "setLogSilentMode" /\ x.on = w.silent
        /\ y.op = "setLineWrap" /\ y.on = w.wrap
        /\ z.op = "setLogDebugLevel" /\ z.level = w.debug
    OBVIOUS
  <1>3. w.silent \in BOOLEAN /\ w.flush \in BOOLEAN
    BY DEF Wish
  <1> HIDE DEF a, b, x, y, z
  <1>4. /\ e \in Seq(S) /\ Len(e) = (IF w.silent THEN 0 ELSE 1)
        /\ ~w.silent => e[1] = a
    <2>1. CASE w.silent
      BY <2>1
    <2>2. CASE ~w.silent
      BY <2>2
    <2> QED
      BY <1>3, <2>1, <2>2
  <1>5. /\ f \in Seq(S) /\ Len(f) = (IF w.flush THEN 1 ELSE 0)
        /\ w.flush => f[1] = b
    <2>1. CASE w.flush
      BY <2>1
    <2>2. CASE ~w.flush
      BY <2>2
    <2> QED
      BY <1>3, <2>1, <2>2
  <1>6. g \in Seq(S) /\ Len(g) = 3 /\ g[1] = x /\ g[2] = y /\ g[3] = z
    OBVIOUS
  <1> HIDE DEF e, f, g, S
  <1>7. /\ e \o f \in Seq(S) /\ Len(e \o f) = Len(e) + Len(f)
        /\ \A i \in 1..Len(e) : (e \o f)[i] = e[i]
        /\ \A i \in 1..Len(f) : (e \o f)[Len(e) + i] = f[i]
    BY <1>4, <1>5, ConcatParts
  <1> DEFINE h == e \o f
  <1> HIDE DEF h
  <1> DEFINE m == h \o g
  <1>8. /\ m \in Seq(S) /\ Len(m) = Len(h) + 3
        /\ \A i \in 1..Len(h) : m[i] = h[i]
        /\ m[Len(h) + 1] = x /\ m[Len(h) + 2] = y /\ m[Len(h) + 3] = z
    <2>1. h \in Seq(S)
      BY <1>7 DEF h
    <2>2. /\ m \in Seq(S) /\ Len(m) = Len(h) + Len(g)
          /\ \A i \in 1..Len(h) : m[i] = h[i]
          /\ \A i \in 1..Len(g) : m[Len(h) + i] = g[i]
      <3>1. g \in Seq(S)
        BY <1>6
      <3> QED
        BY ONLY <2>1, <3>1, ConcatParts
    <2>3. Len(g) = 3 /\ 1 \in 1..3 /\ 2 \in 1..3 /\ 3 \in 1..3
      BY <1>6
    <2> HIDE DEF m
    <2>4. m[Len(h) + 1] = g[1] /\ m[Len(h) + 2] = g[2] /\ m[Len(h) + 3] = g[3]
      BY ONLY <2>2, <2>3
    <2> QED
      BY ONLY <1>6, <2>2, <2>3, <2>4
  <1>9. Len(h) \in Nat /\ Len(h) <= 2
    BY <1>3, <1>4, <1>5, <1>7 DEF h
  <1>10. w.silent => \/ Len(h) = 0
                     \/ w.flush /\ Len(h) = 1 /\ h[1] = b
    <2>1. CASE w.flush
      <3>1. w.silent => Len(e) = 0 /\ Len(f) = 1 /\ f[1] = b /\ 0 + 1 = 1
        BY <1>4, <1>5, <2>1
      <3> QED
        BY <1>7, <2>1, <3>1 DEF h
    <2>2. CASE ~w.flush
      BY <1>4, <1>5, <1>7, <2>2 DEF h
    <2> QED
      BY <2>1, <2>2
  <1> HIDE DEF m
  <1>11. \A i \in 1..Len(m) : m[i] \in {a, b, x, y, z}
    BY <1>8, LenProperties DEF S
  <1>12. IsSequence(m)
    BY <1>8, SequenceOver
  <1>13. /\ Len(m) >= 3
         /\ Len(h) + 1 \in 1..Len(m) /\ Len(h) + 2 \in 1..Len(m) /\ Len(h) + 3 \in 1..Len(m)
    BY <1>8, <1>9
  <1>14. w.silent = TRUE => \/ m[1].op = "setLogSilentMode"
                           \/ /\ w.flush = TRUE
                              /\ m[1].op = "flushLog"
                              /\ m[2].op = "setLogSilentMode"
    <2>1. CASE Len(h) = 0
      BY <1>2, <1>8, <2>1
    <2>2. CASE w.flush /\ Len(h) = 1 /\ h[1] = b
      BY <1>2, <1>3, <1>8, <2>2
    <2> QED
      BY <1>10, <2>1, <2>2
  <1>15. Applied(w, m)
    BY <1>2, <1>8, <1>11, <1>12, <1>13, <1>14 DEF Applied
  <1> QED
    BY <1>1, <1>15 DEF m, h

-------------------------------------------------------------------------------
(* Types. *)

GoodCall(e) ==
    /\ e.op = "writeLog" => e.lvl \in {FATAL, INFO, DEBUG, LOGGER}
    /\ e.op = "setLogFile" => e.file \in LogName \union Unremovable \union {""}
    /\ e.op \in {"setLogSilentMode", "setLineWrap"} => e.on \in BOOLEAN

\* flushLog and loadConfig are under way only at the head, and a file is open only for
\* the message at the head.
CallsOf(p) ==
    /\ IsSequence(calls[p])
    /\ \A i \in 1..Len(calls[p]) : GoodCall(calls[p][i])
    /\ \A i \in 2..Len(calls[p]) : calls[p][i].op \notin {"remove", "create", "loadConfig"}
    /\ fd[p] # 0 => /\ calls[p] # <<>>
                    /\ calls[p][1].op = "writeLog"
                    /\ set[p].logFile \in LogName

Shapes ==
    /\ calls = [p \in Process |-> calls[p]]
    /\ para = [p \in Process |-> para[p]]
    /\ fd = [p \in Process |-> fd[p]]
    /\ lines = [f \in LogName |-> lines[f]]

Started == \E start \in Starts : argv = start[1] /\ config = start[2]

Parsed == \A p \in Process : pc[p] # "parse" => para[p] = parse_commandline(argv[p])

Base ==
    /\ TypeOK
    /\ Shapes
    /\ \A p \in Process : CallsOf(p)
    /\ Started
    /\ Parsed

LEMMA StartedWell ==
    ASSUME Started
    PROVE  /\ \A p \in Process : IsCommandLine(argv[p])
           /\ IsConfig(config)
  BY StartupAssumption DEF Started

\* Messages, and what flushLog goes on with.
LEMMA MessageGood ==
    /\ \A lvl \in {FATAL, INFO, DEBUG, LOGGER} : GoodCall(Message(lvl))
    /\ \A lvl : Message(lvl).op = "writeLog" /\ Message(lvl).lvl = lvl
    /\ GoodCall([op |-> "remove"]) /\ [op |-> "remove"].op = "remove"
    /\ GoodCall([op |-> "create"]) /\ [op |-> "create"].op = "create"
  BY DEF GoodCall, Message

\* What a step of p leaves alone: everything that is another process's.
Others(p) ==
    \A q \in Process \ {p} :
        /\ alive'[q] = alive[q] /\ set'[q] = set[q] /\ calls'[q] = calls[q]
        /\ fd'[q] = fd[q] /\ shown'[q] = shown[q] /\ count'[q] = count[q]

\* The calls of p after one of them has returned: none in its place, or another one.
LEMMA ReturnMore ==
    ASSUME Shapes, NEW p \in Process, NEW m, Return(p, m)
    PROVE  /\ calls'[p] = m \o Tail(calls[p])
           /\ \A q \in Process \ {p} : calls'[q] = calls[q]
           /\ calls' = [q \in Process |-> calls'[q]]
  BY DEF Return, Shapes

LEMMA ReturnNone ==
    ASSUME Shapes, NEW p \in Process, IsSequence(calls[p]), calls[p] # <<>>, Return(p, <<>>)
    PROVE  /\ Popped(calls[p], calls'[p])
           /\ \A q \in Process \ {p} : calls'[q] = calls[q]
           /\ calls' = [q \in Process |-> calls'[q]]
  BY ReturnMore, TailPops

LEMMA ReturnOne ==
    ASSUME Shapes, NEW p \in Process, IsSequence(calls[p]), calls[p] # <<>>,
           NEW x, Return(p, <<x>>)
    PROVE  /\ Swapped(calls[p], calls'[p], x)
           /\ \A q \in Process \ {p} : calls'[q] = calls[q]
           /\ calls' = [q \in Process |-> calls'[q]]
  <1>1. /\ calls'[p] = <<x>> \o Tail(calls[p])
        /\ \A q \in Process \ {p} : calls'[q] = calls[q]
        /\ calls' = [q \in Process |-> calls'[q]]
    BY ReturnMore
  <1>2. Swapped(calls[p], <<x>> \o Tail(calls[p]), x)
    BY OneSwaps
  <1> QED
    BY <1>1, <1>2

\* What a step of p in the logger makes of p's own state.
Shows(p) ==
    \/ shown'[p] = shown[p]
    \/ set[p].silentMode = FALSE /\ shown'[p] = shown[p] + 1

Opening(p) ==
    /\ calls[p][1].op = "writeLog" /\ set[p].logFile \in LogName
    /\ calls' = calls /\ set' = set /\ alive' = alive /\ shown' = shown

Writing(p) ==
    /\ calls[p][1].op = "writeLog"
    /\ Popped(calls[p], calls'[p])
    /\ set' = set /\ alive' = alive /\ fd'[p] = 0 /\ Shows(p)

SetsTo(p, s) ==
    /\ Swapped(calls[p], calls'[p], Message(LOGGER))
    /\ set'[p] = s /\ alive' = alive /\ fd' = fd /\ shown' = shown

Setting1(p) ==
    LET e == calls[p][1]
    IN  \/ /\ e.op = "setLogFile"
           /\ SetsTo(p, [set[p] EXCEPT !.logFile = e.file])
        \/ /\ e.op = "setLogSilentMode"
           /\ SetsTo(p, [set[p] EXCEPT !.silentMode = e.on])
        \/ /\ e.op = "setLineWrap"
           /\ SetsTo(p, [set[p] EXCEPT !.lineWrap = e.on])
        \/ /\ e.op = "setLogDebugLevel"
           /\ SetsTo(p, [set[p] EXCEPT !.dbgLevel = DebugLevel(e.level)])

Flushing(p) ==
    /\ set' = set /\ fd' = fd
    /\ \/ /\ calls[p][1].op = "flushLog" /\ alive' = alive /\ shown' = shown
          /\ Exists(set[p].logFile)
          /\ Swapped(calls[p], calls'[p], [op |-> "remove"])
       \/ /\ calls[p][1].op = "flushLog" /\ alive' = alive /\ Shows(p)
          /\ Swapped(calls[p], calls'[p], [op |-> "create"])
       \/ /\ calls[p][1].op = "remove" /\ alive' = alive /\ shown' = shown
          /\ Swapped(calls[p], calls'[p], [op |-> "create"])
       \/ /\ calls[p][1].op = "remove" /\ shown' = shown /\ calls' = calls
          /\ alive'[p] = "flush"
          /\ ~Removable(set[p].logFile)
       \/ /\ calls[p][1].op = "create" /\ alive' = alive /\ shown' = shown
          /\ Swapped(calls[p], calls'[p], Message(LOGGER))

Loading(p) ==
    /\ calls[p][1].op = "loadConfig"
    /\ fd' = fd /\ shown' = shown
    /\ \/ /\ ~config.there
          /\ Swapped(calls[p], calls'[p], Message(LOGGER))
          /\ set' = set /\ alive' = alive
       \/ set' = set /\ calls' = calls /\ alive'[p] = "crash"
       \/ /\ config.there /\ alive' = alive
          /\ \E unset \in [1..Len(TextLines(config)) -> BOOLEAN] :
                LET w == Wanted(set[p], TextLines(config), unset)
                IN  /\ calls'[p] = Apply(w) \o Tail(calls[p])
                    /\ set'[p] = IF w.silent THEN [set[p] EXCEPT !.logFile = w.logfile]
                                             ELSE set[p]

OwnStep(p) ==
    /\ alive[p] = "run" /\ calls[p] # <<>>
    /\ Others(p)
    /\ UNCHANGED <<config, argv, para, pc, conn, met>>
    /\ calls' = [q \in Process |-> calls'[q]]
    /\ Opening(p) \/ Writing(p) \/ Setting1(p) \/ Flushing(p) \/ Loading(p)

LEMMA CallFacts ==
    ASSUME NEW p \in Process, CallsOf(p), NEW op, Call(p, op)
    PROVE  /\ alive[p] = "run" /\ calls[p] # <<>> /\ IsSequence(calls[p])
           /\ Head(calls[p]) = calls[p][1] /\ calls[p][1].op = op
           /\ Len(calls[p]) \in Nat /\ 1 \in 1..Len(calls[p])
  BY SequenceLen DEF CallsOf, Call

LEMMA SettingIsOwn ==
    ASSUME Base, NEW p \in Process, UNCHANGED mainVars,
           setLogFile(p) \/ setLogSilentMode(p) \/ setLineWrap(p) \/ setLogDebugLevel(p)
    PROVE  OwnStep(p)
  <1>1. CallsOf(p) /\ Shapes /\ set \in [Process -> Settings]
    BY DEF Base, TypeOK, LogTypeOK
  <1>2. UNCHANGED <<config, argv, para, pc, conn, met, alive, fd, shown, count>>
    BY DEF setLogFile, setLogSilentMode, setLineWrap, setLogDebugLevel, mainVars, history
  <1>3. PICK op : /\ Call(p, op) /\ Return(p, <<Message(LOGGER)>>)
                  /\ \/ op = "setLogFile" /\ setLogFile(p)
                     \/ op = "setLogSilentMode" /\ setLogSilentMode(p)
                     \/ op = "setLineWrap" /\ setLineWrap(p)
                     \/ op = "setLogDebugLevel" /\ setLogDebugLevel(p)
    BY DEF setLogFile, setLogSilentMode, setLineWrap, setLogDebugLevel
  <1>4. /\ alive[p] = "run" /\ calls[p] # <<>> /\ IsSequence(calls[p])
        /\ Head(calls[p]) = calls[p][1] /\ calls[p][1].op = op
    BY <1>1, <1>3, CallFacts
  <1>5. /\ Swapped(calls[p], calls'[p], Message(LOGGER))
        /\ \A q \in Process \ {p} : calls'[q] = calls[q]
        /\ calls' = [q \in Process |-> calls'[q]]
    BY <1>1, <1>3, <1>4, ReturnOne
  <1>6. /\ Setting1(p)
        /\ \A q \in Process \ {p} : set'[q] = set[q]
    <2>1. CASE op = "setLogFile" /\ setLogFile(p)
      <3>1. set' = [set EXCEPT ![p].logFile = calls[p][1].file]
        BY <1>4, <2>1 DEF setLogFile
      <3>2. /\ set'[p] = [set[p] EXCEPT !.logFile = calls[p][1].file]
            /\ \A q \in Process \ {p} : set'[q] = set[q]
        BY <1>1, <3>1
      <3> QED
        BY <1>2, <1>4, <1>5, <2>1, <3>2 DEF Setting1, SetsTo
    <2>2. CASE op = "setLogSilentMode" /\ setLogSilentMode(p)
      <3>1. set' = [set EXCEPT ![p].silentMode = calls[p][1].on]
        BY <1>4, <2>2 DEF setLogSilentMode
      <3>2. /\ set'[p] = [set[p] EXCEPT !.silentMode = calls[p][1].on]
            /\ \A q \in Process \ {p} : set'[q] = set[q]
        BY <1>1, <3>1
      <3> QED
        BY <1>2, <1>4, <1>5, <2>2, <3>2 DEF Setting1, SetsTo
    <2>3. CASE op = "setLineWrap" /\ setLineWrap(p)
      <3>1. set' = [set EXCEPT ![p].lineWrap = calls[p][1].on]
        BY <1>4, <2>3 DEF setLineWrap
      <3>2. /\ set'[p] = [set[p] EXCEPT !.lineWrap = calls[p][1].on]
            /\ \A q \in Process \ {p} : set'[q] = set[q]
        BY <1>1, <3>1
      <3> QED
        BY <1>2, <1>4, <1>5, <2>3, <3>2 DEF Setting1, SetsTo
    <2>4. CASE op = "setLogDebugLevel" /\ setLogDebugLevel(p)
      <3>1. set' = [set EXCEPT ![p].dbgLevel = DebugLevel(calls[p][1].level)]
        BY <1>4, <2>4 DEF setLogDebugLevel
      <3>2. /\ set'[p] = [set[p] EXCEPT !.dbgLevel = DebugLevel(calls[p][1].level)]
            /\ \A q \in Process \ {p} : set'[q] = set[q]
        BY <1>1, <3>1
      <3> QED
        BY <1>2, <1>4, <1>5, <2>4, <3>2 DEF Setting1, SetsTo
    <2> QED
      BY <1>3, <2>1, <2>2, <2>3, <2>4
  <1> QED
    BY <1>2, <1>4, <1>5, <1>6 DEF OwnStep, Others

LEMMA ShowShows ==
    ASSUME Base, NEW p \in Process, Show(p)
    PROVE  /\ Shows(p)
           /\ \A q \in Process \ {p} : shown'[q] = shown[q]
           /\ shown' \in [Process -> Nat]
  <1>1. shown \in [Process -> Nat] /\ set[p].silentMode \in BOOLEAN
    BY DEF Base, TypeOK, LogTypeOK, Settings
  <1>2. CASE set[p].silentMode
    <2>1. shown' = [shown EXCEPT ![p] = @]
      BY <1>2 DEF Show
    <2> QED
      BY <1>1, <2>1 DEF Shows
  <1>3. CASE ~set[p].silentMode
    <2>1. shown' = [shown EXCEPT ![p] = @ + 1]
      BY <1>3 DEF Show
    <2>2. set[p].silentMode = FALSE
      BY <1>1, <1>3
    <2> QED
      BY <1>1, <2>1, <2>2 DEF Shows
  <1> QED
    BY <1>2, <1>3

LEMMA WritingIsOwn ==
    ASSUME Base, NEW p \in Process, UNCHANGED mainVars,
           writeLog_open(p) \/ writeLog(p)
    PROVE  OwnStep(p)
  <1>1. CallsOf(p) /\ Shapes /\ count \in [Process -> Nat]
    BY DEF Base, TypeOK, LogTypeOK
  <1>2. Call(p, "writeLog")
    BY DEF writeLog_open, writeLog
  <1>3. /\ alive[p] = "run" /\ calls[p] # <<>> /\ IsSequence(calls[p])
        /\ calls[p][1].op = "writeLog"
    BY <1>1, <1>2, CallFacts
  <1>4. CASE writeLog_open(p)
    <2>1. /\ set[p].logFile \in LogName
          /\ UNCHANGED <<config, alive, set, calls, shown, count>>
          /\ fd' = [fd EXCEPT ![p] = gen'[set[p].logFile]]
      BY <1>4 DEF writeLog_open, history
    <2>2. \A q \in Process \ {p} : fd'[q] = fd[q]
      BY <1>1, <2>1 DEF Shapes
    <2>3. Opening(p) /\ Others(p)
      BY <1>3, <2>1, <2>2 DEF Opening, Others
    <2> QED
      BY <1>1, <1>3, <2>1, <2>3 DEF OwnStep, Shapes, mainVars
  <1>5. CASE writeLog(p)
    <2>1. /\ Return(p, <<>>)
          /\ fd' = [fd EXCEPT ![p] = 0]
          /\ UNCHANGED <<config, alive, set>>
          /\ \/ Show(p) /\ count' = [count EXCEPT ![p] = @ + 1]
             \/ UNCHANGED <<shown, count>>
      BY <1>5 DEF writeLog
    <2>2. /\ Popped(calls[p], calls'[p])
          /\ \A q \in Process \ {p} : calls'[q] = calls[q]
          /\ calls' = [q \in Process |-> calls'[q]]
      BY <1>1, <1>3, <2>1, ReturnNone
    <2>3. fd'[p] = 0 /\ \A q \in Process \ {p} : fd'[q] = fd[q]
      BY <1>1, <2>1 DEF Shapes
    <2>4. Shows(p) /\ \A q \in Process \ {p} : shown'[q] = shown[q]
      BY <2>1, ShowShows DEF Shows
    <2>5. \A q \in Process \ {p} : count'[q] = count[q]
      BY <1>1, <2>1
    <2>6. Writing(p) /\ Others(p)
      BY <1>3, <2>1, <2>2, <2>3, <2>4, <2>5 DEF Writing, Others
    <2> QED
      BY <1>3, <2>1, <2>2, <2>6 DEF OwnStep, mainVars
  <1> QED
    BY <1>4, <1>5

LEMMA FlushingIsOwn ==
    ASSUME Base, NEW p \in Process, UNCHANGED mainVars,
           flushLog(p) \/ flushLog_remove(p) \/ flushLog_create(p)
    PROVE  OwnStep(p)
  <1>1. CallsOf(p) /\ Shapes /\ alive = [q \in Process |-> alive[q]]
    BY DEF Base, TypeOK, LogTypeOK
  <1>2. UNCHANGED <<config, argv, para, pc, conn, met, set, fd, count>>
    BY DEF flushLog, flushLog_remove, flushLog_create, mainVars, history
  <1>3. CASE flushLog(p)
    <2>1. /\ alive[p] = "run" /\ calls[p] # <<>> /\ IsSequence(calls[p])
          /\ calls[p][1].op = "flushLog"
      BY <1>1, <1>3, CallFacts DEF flushLog
    <2>2. PICK x : /\ Return(p, <<x>>) /\ alive' = alive
                   /\ \/ /\ x = [op |-> "remove"] /\ shown' = shown
                         /\ Exists(set[p].logFile)
                      \/ x = [op |-> "create"] /\ Show(p)
      BY <1>3 DEF flushLog
    <2>3. /\ Swapped(calls[p], calls'[p], x)
          /\ \A q \in Process \ {p} : calls'[q] = calls[q]
          /\ calls' = [q \in Process |-> calls'[q]]
      BY <1>1, <2>1, <2>2, ReturnOne
    <2>4. /\ \/ shown' = shown
             \/ x = [op |-> "create"] /\ Shows(p)
          /\ \A q \in Process \ {p} : shown'[q] = shown[q]
      BY <2>2, ShowShows
    <2>5. Flushing(p)
      BY <1>2, <2>1, <2>2, <2>3, <2>4 DEF Flushing, Shows
    <2>6. Others(p)
      BY <1>2, <2>2, <2>3, <2>4 DEF Others
    <2> QED
      BY <1>2, <2>1, <2>3, <2>5, <2>6 DEF OwnStep
  <1>4. CASE flushLog_remove(p)
    <2>1. /\ alive[p] = "run" /\ calls[p] # <<>> /\ IsSequence(calls[p])
          /\ calls[p][1].op = "remove"
      BY <1>1, <1>4, CallFacts DEF flushLog_remove
    <2>2. CASE Return(p, <<[op |-> "create"]>>) /\ UNCHANGED <<alive, shown>>
      <3>1. /\ Swapped(calls[p], calls'[p], [op |-> "create"])
            /\ \A q \in Process \ {p} : calls'[q] = calls[q]
            /\ calls' = [q \in Process |-> calls'[q]]
        BY <1>1, <2>1, <2>2, ReturnOne
      <3>2. Flushing(p)
        BY <1>2, <2>1, <2>2, <3>1 DEF Flushing
      <3>3. Others(p)
        BY <1>2, <2>2, <3>1 DEF Others
      <3> QED
        BY <1>2, <2>1, <3>1, <3>2, <3>3 DEF OwnStep
    <2>3. CASE /\ alive' = [alive EXCEPT ![p] = "flush"]
               /\ ~Removable(set[p].logFile)
               /\ UNCHANGED <<calls, shown>>
      <3>1. alive'[p] = "flush" /\ \A q \in Process \ {p} : alive'[q] = alive[q]
        BY <1>1, <2>3
      <3>2. Flushing(p)
        BY <1>2, <2>1, <2>3, <3>1 DEF Flushing
      <3>3. Others(p)
        BY <1>2, <2>3, <3>1 DEF Others
      <3> QED
        BY <1>1, <1>2, <2>1, <2>3, <3>2, <3>3 DEF OwnStep, Shapes
    <2> QED
      BY <1>4, <2>2, <2>3 DEF flushLog_remove
  <1>5. CASE flushLog_create(p)
    <2>1. /\ alive[p] = "run" /\ calls[p] # <<>> /\ IsSequence(calls[p])
          /\ calls[p][1].op = "create"
      BY <1>1, <1>5, CallFacts DEF flushLog_create
    <2>2. Return(p, <<Message(LOGGER)>>) /\ UNCHANGED <<alive, shown>>
      BY <1>5 DEF flushLog_create, history
    <2>3. /\ Swapped(calls[p], calls'[p], Message(LOGGER))
          /\ \A q \in Process \ {p} : calls'[q] = calls[q]
          /\ calls' = [q \in Process |-> calls'[q]]
      BY <1>1, <2>1, <2>2, ReturnOne
    <2>4. Flushing(p)
      BY <1>2, <2>1, <2>2, <2>3 DEF Flushing
    <2>5. Others(p)
      BY <1>2, <2>2, <2>3 DEF Others
    <2> QED
      BY <1>2, <2>1, <2>3, <2>4, <2>5 DEF OwnStep
  <1> QED
    BY <1>3, <1>4, <1>5

LEMMA LoadingIsOwn ==
    ASSUME Base, NEW p \in Process, UNCHANGED mainVars, loadConfig(p)
    PROVE  OwnStep(p)
  <1>1. /\ CallsOf(p) /\ Shapes
        /\ alive = [q \in Process |-> alive[q]] /\ set = [q \in Process |-> set[q]]
    BY DEF Base, TypeOK, LogTypeOK
  <1>2. UNCHANGED <<config, argv, para, pc, conn, met, fd, shown, count>>
    BY DEF loadConfig, mainVars, history
  <1>3. /\ alive[p] = "run" /\ calls[p] # <<>> /\ IsSequence(calls[p])
        /\ calls[p][1].op = "loadConfig"
    BY <1>1, CallFacts DEF loadConfig
  <1>4. CASE ~config.there /\ Return(p, <<Message(LOGGER)>>) /\ UNCHANGED <<alive, set>>
    <2>1. /\ Swapped(calls[p], calls'[p], Message(LOGGER))
          /\ \A q \in Process \ {p} : calls'[q] = calls[q]
          /\ calls' = [q \in Process |-> calls'[q]]
      BY <1>1, <1>3, <1>4, ReturnOne
    <2>2. Loading(p)
      BY <1>2, <1>3, <1>4, <2>1 DEF Loading
    <2>3. Others(p)
      BY <1>2, <1>4, <2>1 DEF Others
    <2> QED
      BY <1>2, <1>3, <2>1, <2>2, <2>3 DEF OwnStep
  <1>5. CASE alive' = [alive EXCEPT ![p] = "crash"] /\ UNCHANGED <<set, calls>>
    <2>1. alive'[p] = "crash" /\ \A q \in Process \ {p} : alive'[q] = alive[q]
      BY <1>1, <1>5
    <2>2. Loading(p)
      BY <1>2, <1>3, <1>5, <2>1 DEF Loading
    <2>3. Others(p)
      BY <1>2, <1>5, <2>1 DEF Others
    <2> QED
      BY <1>1, <1>2, <1>3, <1>5, <2>2, <2>3 DEF OwnStep, Shapes
  <1>6. CASE /\ config.there
             /\ \E unset \in [1..Len(TextLines(config)) -> BOOLEAN] :
                   LET w == Wanted(set[p], TextLines(config), unset)
                   IN  /\ Return(p, Apply(w))
                       /\ set' = IF w.silent THEN [set EXCEPT ![p].logFile = w.logfile]
                                             ELSE set
             /\ UNCHANGED alive
    <2>1. PICK unset \in [1..Len(TextLines(config)) -> BOOLEAN] :
             LET w == Wanted(set[p], TextLines(config), unset)
             IN  /\ Return(p, Apply(w))
                 /\ set' = IF w.silent THEN [set EXCEPT ![p].logFile = w.logfile] ELSE set
      BY <1>6
    <2> DEFINE w == Wanted(set[p], TextLines(config), unset)
    <2>2. /\ Return(p, Apply(w))
          /\ set' = IF w.silent THEN [set EXCEPT ![p].logFile = w.logfile] ELSE set
      BY <2>1
    <2> HIDE DEF w
    <2>3. /\ calls'[p] = Apply(w) \o Tail(calls[p])
          /\ \A q \in Process \ {p} : calls'[q] = calls[q]
          /\ calls' = [q \in Process |-> calls'[q]]
      BY <1>1, <2>2, ReturnMore
    <2>4. /\ set'[p] = IF w.silent THEN [set[p] EXCEPT !.logFile = w.logfile] ELSE set[p]
          /\ \A q \in Process \ {p} : set'[q] = set[q]
      BY <1>1, <2>2
    <2>5. Loading(p)
      BY <1>2, <1>3, <1>6, <2>3, <2>4 DEF Loading, w
    <2>6. Others(p)
      BY <1>2, <1>6, <2>3, <2>4 DEF Others
    <2> QED
      BY <1>2, <1>3, <2>3, <2>5, <2>6 DEF OwnStep
  <1> QED
    BY <1>4, <1>5, <1>6 DEF loadConfig

LEMMA LogStepIsOwn ==
    ASSUME Base, NEW p \in Process, LogStep(p), UNCHANGED mainVars
    PROVE  OwnStep(p)
  BY SettingIsOwn, WritingIsOwn, FlushingIsOwn, LoadingIsOwn DEF LogStep

\* What a step of main makes of the logger: p was out of it, and says at most some messages.
OnlyMessages(c) ==
    /\ IsSequence(c)
    /\ \A i \in 1..Len(c) : c[i].op = "writeLog" /\ GoodCall(c[i])

\* The usage texts that p has shown.
Usages(p) == IF pc[p] = "parse" THEN 0 ELSE para[p].usage

MainStep(p) ==
    /\ alive[p] = "run" /\ calls[p] = <<>>
    /\ UNCHANGED <<config, argv, set, fd, fileVars, count, written, removed>>
    /\ \A q \in Process \ {p} : /\ alive'[q] = alive[q] /\ calls'[q] = calls[q]
                                /\ pc'[q] = pc[q] /\ para'[q] = para[q]
                                /\ shown'[q] = shown[q]
    /\ \/ shown' = shown /\ Usages(p)' = Usages(p)
       \/ /\ Usages(p) = 0 /\ Usages(p)' \in Nat
          /\ shown'[p] = shown[p] + Usages(p)'
    /\ shown' \in [Process -> Nat]
    /\ calls' = [q \in Process |-> calls'[q]]
    /\ para' = [q \in Process |-> para'[q]]
    /\ OnlyMessages(calls'[p])
    /\ alive'[p] \in {"run", "exit", "crash", "connect"}

LEMMA FewMessages ==
    /\ OnlyMessages(<<>>)
    /\ \A l \in {FATAL, INFO, DEBUG, LOGGER} : OnlyMessages(<<Message(l)>>)
    /\ \A l \in {FATAL, INFO, DEBUG, LOGGER} : OnlyMessages(<<Message(l), Message(l)>>)
  <1>1. \A l : /\ <<Message(l)>> \in Seq({Message(l)})
               /\ <<Message(l), Message(l)>> \in Seq({Message(l)})
    OBVIOUS
  <1>2. \A l : /\ IsSequence(<<Message(l)>>)
               /\ IsSequence(<<Message(l), Message(l)>>)
    BY <1>1, SequenceOver
  <1>3. OnlyMessages(<<>>)
    <2>1. IsSequence(<<>>)
      BY <<>> \in Seq({}), SequenceOver
    <2> QED
      BY <2>1 DEF OnlyMessages
  <1>4. ASSUME NEW l \in {FATAL, INFO, DEBUG, LOGGER}
        PROVE  OnlyMessages(<<Message(l)>>) /\ OnlyMessages(<<Message(l), Message(l)>>)
    <2> DEFINE m == Message(l)
    <2>1. m.op = "writeLog" /\ GoodCall(m)
      BY MessageGood
    <2>2. IsSequence(<<m>>) /\ IsSequence(<<m, m>>)
      BY <1>2
    <2> HIDE DEF m
    <2>3. /\ Len(<<m>>) = 1 /\ Len(<<m, m>>) = 2
          /\ \A i \in 1..1 : <<m>>[i] = m
          /\ \A i \in 1..2 : <<m, m>>[i] = m
      OBVIOUS
    <2>4. OnlyMessages(<<m>>) /\ OnlyMessages(<<m, m>>)
      BY <2>1, <2>2, <2>3 DEF OnlyMessages
    <2> QED
      BY <2>4 DEF m
  <1> QED
    BY <1>3, <1>4

LEMMA ShownTyped == Base => shown \in [Process -> Nat]
  BY DEF Base, TypeOK, LogTypeOK

LEMMA ParseIsMain ==
    ASSUME Base, NEW p \in Process, Parse(p)
    PROVE  /\ MainStep(p)
           /\ pc[p] = "parse"
           /\ para'[p] = parse_commandline(argv[p])
           /\ \/ para'[p].crash = TRUE /\ alive'[p] = "crash" /\ pc'[p] = "quit"
              \/ /\ para'[p].crash = FALSE /\ alive'[p] = "run" /\ pc'[p] = "quit"
                 /\ calls'[p] = <<Message(FATAL)>>
              \/ /\ para'[p].crash = FALSE /\ alive'[p] = "run" /\ calls' = calls
                 /\ pc'[p] = IF p \in Server THEN "bind" ELSE "connect"
           /\ pc' \in [Process -> Stage]
           /\ alive' \in [Process -> {"run", "exit", "flush", "crash", "connect"}]
  <1>1. /\ Shapes /\ pc \in [Process -> Stage]
        /\ alive \in [Process -> {"run", "exit", "flush", "crash", "connect"}]
    BY DEF Base, TypeOK, LogTypeOK
  <1>2. /\ alive[p] = "run" /\ calls[p] = <<>> /\ pc[p] = "parse"
        /\ UNCHANGED <<config, argv, set, fd, fileVars, count, written, removed>>
    BY DEF Parse, At
  <1> DEFINE r == parse_commandline(argv[p])
  <1>3. /\ para' = [para EXCEPT ![p] = r]
        /\ shown' = [shown EXCEPT ![p] = @ + r.usage]
        /\ \/ /\ r.crash
              /\ alive' = [alive EXCEPT ![p] = "crash"]
              /\ pc' = [pc EXCEPT ![p] = "quit"]
              /\ UNCHANGED calls
           \/ /\ ~r.crash /\ r.opterr
              /\ calls' = [calls EXCEPT ![p] = <<Message(FATAL)>>]
              /\ pc' = [pc EXCEPT ![p] = "quit"]
              /\ UNCHANGED alive
           \/ /\ ~r.crash /\ ~r.opterr
              /\ pc' = [pc EXCEPT ![p] = IF p \in Server THEN "bind" ELSE "connect"]
              /\ UNCHANGED <<alive, calls>>
    BY DEF Parse, Says, Ends
  <1>4. r.crash \in BOOLEAN /\ r.usage \in Nat
    <2>1. IsCommandLine(argv[p])
      BY StartedWell DEF Base
    <2> QED
      BY <2>1, ParseMeans DEF Means, Para
  <1> HIDE DEF r
  <1>5. /\ para'[p] = r /\ para' = [q \in Process |-> para'[q]]
        /\ \A q \in Process \ {p} : para'[q] = para[q]
    BY <1>1, <1>3 DEF Shapes
  <1>9. /\ shown'[p] = shown[p] + para'[p].usage
        /\ \A q \in Process \ {p} : shown'[q] = shown[q]
        /\ shown' \in [Process -> Nat]
    <2>1. shown \in [Process -> Nat]
      BY DEF Base, TypeOK, LogTypeOK
    <2> QED
      BY <1>3, <1>4, <1>5, <2>1
  <1>10. /\ Usages(p) = 0
         /\ Usages(p)' = para'[p].usage
         /\ Usages(p)' \in Nat
         /\ shown'[p] = shown[p] + Usages(p)'
    <2>1. para'[p].usage \in Nat
      BY <1>4, <1>5
    <2>2. pc[p] = "parse" /\ pc'[p] # "parse"
      BY ONLY <1>1, <1>2, <1>3 DEF Shapes
    <2>3. Usages(p) = 0
      BY <2>2 DEF Usages
    <2>4. Usages(p)' = para'[p].usage
      BY <2>2 DEF Usages
    <2> QED
      BY <1>9, <2>1, <2>3, <2>4
  <1>6. CASE r.crash /\ alive' = [alive EXCEPT ![p] = "crash"]
             /\ pc' = [pc EXCEPT ![p] = "quit"] /\ UNCHANGED calls
    <2>1. /\ alive'[p] = "crash" /\ pc'[p] = "quit" /\ calls'[p] = <<>>
          /\ \A q \in Process \ {p} : alive'[q] = alive[q] /\ pc'[q] = pc[q]
          /\ pc' \in [Process -> Stage]
          /\ alive' \in [Process -> {"run", "exit", "flush", "crash", "connect"}]
      BY <1>1, <1>2, <1>6 DEF Stage
    <2>2. MainStep(p)
      BY <1>1, <1>2, <1>5, <1>6, <1>9, <1>10, <2>1, FewMessages DEF MainStep, Shapes
    <2> QED
      BY <1>2, <1>4, <1>5, <1>6, <2>1, <2>2 DEF r
  <1>7. CASE ~r.crash /\ calls' = [calls EXCEPT ![p] = <<Message(FATAL)>>]
             /\ pc' = [pc EXCEPT ![p] = "quit"] /\ UNCHANGED alive
    <2>1. /\ alive'[p] = "run" /\ pc'[p] = "quit" /\ calls'[p] = <<Message(FATAL)>>
          /\ \A q \in Process \ {p} : calls'[q] = calls[q] /\ pc'[q] = pc[q]
          /\ calls' = [q \in Process |-> calls'[q]]
          /\ pc' \in [Process -> Stage]
          /\ alive' \in [Process -> {"run", "exit", "flush", "crash", "connect"}]
      BY <1>1, <1>2, <1>7 DEF Stage, Shapes
    <2>2. MainStep(p)
      BY <1>1, <1>2, <1>5, <1>7, <1>9, <1>10, <2>1, FewMessages DEF MainStep
    <2> QED
      BY <1>2, <1>4, <1>5, <1>7, <2>1, <2>2 DEF r
  <1>8. CASE ~r.crash /\ pc' = [pc EXCEPT ![p] = IF p \in Server THEN "bind" ELSE "connect"]
             /\ UNCHANGED <<alive, calls>>
    <2>1. /\ alive'[p] = "run" /\ calls'[p] = <<>>
          /\ pc'[p] = IF p \in Server THEN "bind" ELSE "connect"
          /\ \A q \in Process \ {p} : pc'[q] = pc[q]
          /\ pc' \in [Process -> Stage]
          /\ alive' \in [Process -> {"run", "exit", "flush", "crash", "connect"}]
      BY <1>1, <1>2, <1>8 DEF Stage
    <2>2. MainStep(p)
      BY <1>1, <1>2, <1>5, <1>8, <1>9, <1>10, <2>1, FewMessages DEF MainStep, Shapes
    <2> QED
      BY <1>2, <1>4, <1>5, <1>8, <2>1, <2>2 DEF r
  <1> QED
    BY <1>3, <1>6, <1>7, <1>8

LEMMA QuitIsMain ==
    ASSUME Base, NEW p \in Process, Quit(p)
    PROVE  /\ MainStep(p)
           /\ pc[p] = "quit" /\ alive'[p] = "exit"
           /\ UNCHANGED <<pc, para, conn, met, calls>>
           /\ alive' \in [Process -> {"run", "exit", "flush", "crash", "connect"}]
  <1>1. Shapes /\ alive \in [Process -> {"run", "exit", "flush", "crash", "connect"}]
    BY DEF Base, TypeOK, LogTypeOK
  <1>2. /\ alive[p] = "run" /\ calls[p] = <<>> /\ pc[p] = "quit"
        /\ UNCHANGED <<config, argv, set, calls, fd, fileVars, history, para, pc, conn, met>>
        /\ alive' = [alive EXCEPT ![p] = "exit"]
    BY DEF Quit, At, Ends, mainVars
  <1>3. /\ alive'[p] = "exit"
        /\ \A q \in Process \ {p} : alive'[q] = alive[q]
        /\ alive' \in [Process -> {"run", "exit", "flush", "crash", "connect"}]
    BY <1>1, <1>2
  <1> QED
    BY <1>1, <1>2, <1>3, FewMessages, ShownTyped DEF MainStep, Shapes, history, Usages

LEMMA BindIsMain ==
    ASSUME Base, NEW s \in Server, Bind(s)
    PROVE  /\ s \in Process
           /\ MainStep(s)
           /\ pc[s] = "bind"
           /\ UNCHANGED <<para, conn, met, calls>>
           /\ \/ pc'[s] = "loop" /\ alive'[s] = "run"
              \/ pc'[s] = "bind" /\ alive'[s] = "crash"
           /\ pc' \in [Process -> Stage]
           /\ alive' \in [Process -> {"run", "exit", "flush", "crash", "connect"}]
  <1>1. /\ Shapes /\ alive \in [Process -> {"run", "exit", "flush", "crash", "connect"}]
        /\ pc \in [Process -> Stage] /\ s \in Process
    BY StartupAssumption DEF Base, TypeOK, LogTypeOK
  <1>2. /\ alive[s] = "run" /\ calls[s] = <<>> /\ pc[s] = "bind"
        /\ UNCHANGED <<config, argv, set, calls, fd, fileVars, history, para, conn, met>>
        /\ \/ pc' = [pc EXCEPT ![s] = "loop"] /\ UNCHANGED alive
           \/ alive' = [alive EXCEPT ![s] = "crash"] /\ UNCHANGED pc
    BY DEF Bind, At, Ends
  <1>3. /\ \A q \in Process \ {s} : alive'[q] = alive[q] /\ pc'[q] = pc[q]
        /\ \/ pc'[s] = "loop" /\ alive'[s] = "run"
           \/ pc'[s] = "bind" /\ alive'[s] = "crash"
        /\ pc' \in [Process -> Stage]
        /\ alive' \in [Process -> {"run", "exit", "flush", "crash", "connect"}]
    BY <1>1, <1>2 DEF Stage
  <1> QED
    BY <1>1, <1>2, <1>3, FewMessages, ShownTyped DEF MainStep, Shapes, history, Usages

LEMMA ConnectIsMain ==
    ASSUME Base, NEW c \in Client, Connect(c)
    PROVE  /\ c \in Process
           /\ MainStep(c)
           /\ pc[c] = "connect" /\ alive' = alive
           /\ UNCHANGED <<para, met>>
           /\ \/ /\ pc'[c] = "loop"
                 /\ \E s \in Server : Answers(s, c) /\ conn' = [conn EXCEPT ![c] = s]
              \/ pc'[c] = "refused" /\ conn' = conn
           /\ pc' \in [Process -> Stage]
  <1>1. /\ Shapes /\ pc \in [Process -> Stage] /\ c \in Process
    BY StartupAssumption DEF Base, TypeOK, LogTypeOK
  <1>2. /\ alive[c] = "run" /\ calls[c] = <<>> /\ pc[c] = "connect"
        /\ calls' = [calls EXCEPT ![c] = <<Message(DEBUG), Message(DEBUG)>>]
        /\ UNCHANGED <<config, argv, alive, set, fd, fileVars, history, para, met>>
        /\ \/ /\ pc' = [pc EXCEPT ![c] = "loop"]
              /\ \E s \in Server : Answers(s, c) /\ conn' = [conn EXCEPT ![c] = s]
           \/ pc' = [pc EXCEPT ![c] = "refused"] /\ conn' = conn
    BY DEF Connect, At, Says
  <1>3. /\ \A q \in Process \ {c} : calls'[q] = calls[q] /\ pc'[q] = pc[q]
        /\ \/ /\ pc'[c] = "loop"
              /\ \E s \in Server : Answers(s, c) /\ conn' = [conn EXCEPT ![c] = s]
           \/ pc'[c] = "refused" /\ conn' = conn
        /\ pc' \in [Process -> Stage]
        /\ calls'[c] = <<Message(DEBUG), Message(DEBUG)>>
        /\ calls' = [q \in Process |-> calls'[q]]
    BY <1>1, <1>2 DEF Stage, Shapes
  <1>4. OnlyMessages(calls'[c])
    BY <1>3, FewMessages
  <1>5. MainStep(c)
    BY <1>1, <1>2, <1>3, <1>4, ShownTyped DEF MainStep, Shapes, history, Usages
  <1> QED
    BY <1>1, <1>2, <1>3, <1>5

LEMMA FailingIsMain ==
    ASSUME Base, NEW c \in Client, ConnectFails(c)
    PROVE  /\ c \in Process
           /\ MainStep(c)
           /\ pc[c] = "connect" /\ alive'[c] = "connect"
           /\ UNCHANGED <<pc, para, conn, met, calls>>
           /\ alive' \in [Process -> {"run", "exit", "flush", "crash", "connect"}]
  <1>1. /\ Shapes /\ alive \in [Process -> {"run", "exit", "flush", "crash", "connect"}]
        /\ c \in Process
    BY StartupAssumption DEF Base, TypeOK, LogTypeOK
  <1>2. /\ alive[c] = "run" /\ calls[c] = <<>> /\ pc[c] = "connect"
        /\ UNCHANGED <<config, argv, set, calls, fd, fileVars, history, para, pc, conn, met>>
        /\ alive' = [alive EXCEPT ![c] = "connect"]
    BY DEF ConnectFails, At, Ends, mainVars
  <1>3. /\ alive'[c] = "connect"
        /\ \A q \in Process \ {c} : alive'[q] = alive[q]
        /\ alive' \in [Process -> {"run", "exit", "flush", "crash", "connect"}]
    BY <1>1, <1>2
  <1> QED
    BY <1>1, <1>2, <1>3, FewMessages, ShownTyped DEF MainStep, Shapes, history, Usages

LEMMA ListenIsMain ==
    ASSUME Base, NEW s \in Server, NEW c \in Client, listen_cb(s, c)
    PROVE  /\ s \in Process
           /\ MainStep(s)
           /\ pc[s] = "loop" /\ conn[c] = s /\ met' = met \union {c}
           /\ UNCHANGED <<alive, para, conn, pc>>
  <1>1. Shapes /\ s \in Process
    BY StartupAssumption DEF Base
  <1>2. /\ alive[s] = "run" /\ calls[s] = <<>> /\ pc[s] = "loop"
        /\ conn[c] = s /\ met' = met \union {c}
        /\ calls' = [calls EXCEPT ![s] = <<Message(INFO)>>]
        /\ UNCHANGED <<config, argv, alive, set, fd, fileVars, history, para, conn, pc>>
    BY DEF listen_cb, At, Says
  <1>3. /\ \A q \in Process \ {s} : calls'[q] = calls[q]
        /\ calls'[s] = <<Message(INFO)>>
        /\ calls' = [q \in Process |-> calls'[q]]
    BY <1>1, <1>2 DEF Shapes
  <1>4. OnlyMessages(calls'[s])
    BY <1>3, FewMessages
  <1>5. MainStep(s)
    BY <1>1, <1>2, <1>3, <1>4, ShownTyped DEF MainStep, Shapes, history, Usages
  <1> QED
    BY <1>1, <1>2, <1>5

\* TextLines leaves lines out, and makes none.
LEMMA TextLinesGood ==
    ASSUME IsConfig(config)
    PROVE  GoodText(TextLines(config))
  <1> DEFINE t == config.text
             S == {t[k] : k \in DOMAIN t}
  <1>1. t \in Seq(S) /\ Len(t) \in Nat /\ DOMAIN t = 1..Len(t)
    BY LenProperties DEF IsConfig, IsSequence
  <1>2. \A k \in 1..Len(t) : /\ t[k].var = "debug" => t[k].val \in Int
                             /\ t[k].var = "logfile" => t[k].val \in LogName \union Unremovable \union {""}
    BY <1>1 DEF IsConfig
  <1>3. config.whole \in 0..Len(t)
    BY DEF IsConfig
  <1>4. TextLines(config) = SubSeq(t, 1, config.whole)
    BY DEF TextLines
  <1> DEFINE n == config.whole
  <1> HIDE DEF t, S, n
  <1>5. n \in Nat /\ n <= Len(t)
    BY <1>1, <1>3 DEF n
  <1>6. /\ Len(SubSeq(t, 1, n)) = n
        /\ \A i \in 1..n : SubSeq(t, 1, n)[i] = t[i]
    <2>1. n \in Int /\ 1 \in Nat \ {0}
      BY <1>5
    <2>2. n - 1 + 1 = n /\ \A i \in 1..n : 1 + i - 1 = i
      BY <1>5
    <2>3. /\ Len(SubSeq(t, 1, n)) = IF 1 <= n THEN n - 1 + 1 ELSE 0
          /\ \A i \in 1..(n - 1 + 1) : SubSeq(t, 1, n)[i] = t[1 + i - 1]
      BY <1>1, <1>5, <2>1, SubSeqIsSeq
    <2> QED
      BY <1>5, <2>2, <2>3
  <1>7. /\ Len(TextLines(config)) \in Nat
        /\ \A i \in 1..Len(TextLines(config)) : /\ i \in 1..Len(t)
                                                 /\ TextLines(config)[i] = t[i]
    BY <1>1, <1>4, <1>5, <1>6 DEF n
  <1> QED
    BY <1>2, <1>7 DEF GoodText

LEMMA WantedWish ==
    ASSUME Base, NEW p \in Process, NEW unset \in [1..Len(TextLines(config)) -> BOOLEAN]
    PROVE  /\ WishMeans(set[p], TextLines(config), Len(TextLines(config)),
                        Wanted(set[p], TextLines(config), unset))
           /\ Wanted(set[p], TextLines(config), unset) \in Wish
  <1>1. set[p] \in Settings
    BY DEF Base, TypeOK, LogTypeOK
  <1>2. GoodText(TextLines(config))
    BY StartedWell, TextLinesGood DEF Base
  <1>3. WishMeans(set[p], TextLines(config), Len(TextLines(config)),
                  Wanted(set[p], TextLines(config), unset))
    BY <1>1, <1>2, WantedMeans
  <1> QED
    BY <1>3 DEF WishMeans

\* The calls stay good, whoever steps.
LEMMA OwnCalls ==
    ASSUME Base, NEW p \in Process, OwnStep(p),
           fd'[p] # 0 => \/ calls'[p] = calls[p] /\ set'[p] = set[p] /\ fd[p] # 0
                         \/ Opening(p)
    PROVE  CallsOf(p)'
  <1> DEFINE c == calls[p]
             d == calls'[p]
  <1>1. /\ IsSequence(c) /\ c # <<>> /\ Len(c) \in Nat \ {0}
        /\ \A i \in 1..Len(c) : GoodCall(c[i])
        /\ \A i \in 2..Len(c) : c[i].op \notin {"remove", "create", "loadConfig"}
        /\ fd[p] # 0 => c[1].op = "writeLog" /\ set[p].logFile \in LogName
    BY SequenceLen DEF Base, CallsOf, OwnStep
  <1>2. fd'[p] # 0 => /\ d # <<>>
                      /\ d[1].op = "writeLog"
                      /\ set'[p].logFile \in LogName
    BY <1>1 DEF Opening
  <1>3. ASSUME d = c
        PROVE  /\ IsSequence(d)
               /\ \A i \in 1..Len(d) : GoodCall(d[i])
               /\ \A i \in 2..Len(d) : d[i].op \notin {"remove", "create", "loadConfig"}
    BY <1>1, <1>3
  <1>4. ASSUME Popped(c, d)
        PROVE  /\ IsSequence(d)
               /\ \A i \in 1..Len(d) : GoodCall(d[i])
               /\ \A i \in 2..Len(d) : d[i].op \notin {"remove", "create", "loadConfig"}
    <2>1. IsSequence(d) /\ Len(d) \in Nat
          /\ \A i \in 1..Len(d) : i + 1 \in 1..Len(c) /\ d[i] = c[i + 1]
      BY <1>4, SequenceLen DEF Popped
    <2>2. \A i \in 2..Len(d) : i + 1 \in 2..Len(c) /\ i \in 1..Len(d)
      BY <1>1, <2>1
    <2> HIDE DEF c, d
    <2> QED
      BY <1>1, <2>1, <2>2
  <1>5. ASSUME NEW x, Swapped(c, d, x), GoodCall(x)
        PROVE  /\ IsSequence(d)
               /\ \A i \in 1..Len(d) : GoodCall(d[i])
               /\ \A i \in 2..Len(d) : d[i].op \notin {"remove", "create", "loadConfig"}
    <2>1. IsSequence(d) /\ Len(d) = Len(c) /\ d[1] = x /\ \A i \in 2..Len(d) : d[i] = c[i]
      BY <1>5 DEF Swapped
    <2>2. \A i \in 1..Len(c) : i = 1 \/ i \in 2..Len(c)
      BY <1>1
    <2> HIDE DEF c, d
    <2> QED
      BY <1>1, <1>5, <2>1, <2>2
  <1>6. ASSUME NEW m, IsSequence(m), d = m \o Tail(c),
               \A i \in 1..Len(m) : /\ GoodCall(m[i])
                                    /\ m[i].op \notin {"remove", "create", "loadConfig"}
        PROVE  /\ IsSequence(d)
               /\ \A i \in 1..Len(d) : GoodCall(d[i])
               /\ \A i \in 2..Len(d) : d[i].op \notin {"remove", "create", "loadConfig"}
    <2> HIDE DEF c, d
    <2>1. /\ IsSequence(d)
          /\ \A i \in 1..Len(m) : d[i] = m[i]
          /\ \A i \in 2..Len(c) : d[Len(m) + i - 1] = c[i]
          /\ \A i \in 1..Len(d) : i \in 1..Len(m) \/ i - Len(m) + 1 \in 2..Len(c)
      BY <1>1, <1>6, PutBefore
    <2>2. Len(m) \in Nat /\ Len(d) \in Nat
      BY <1>6, <2>1, SequenceLen
    <2>3. ASSUME NEW i \in 1..Len(d)
          PROVE  GoodCall(d[i]) /\ d[i].op \notin {"remove", "create", "loadConfig"}
      <3>1. CASE i \in 1..Len(m)
        BY <1>6, <2>1, <3>1
      <3>2. CASE i - Len(m) + 1 \in 2..Len(c)
        <4> DEFINE j == i - Len(m) + 1
        <4>1. Len(m) + j - 1 = i /\ j \in 1..Len(c) /\ j \in 2..Len(c)
          BY <1>1, <2>2, <3>2
        <4>2. d[i] = c[j]
          <5> HIDE DEF j
          <5> QED
            BY <2>1, <4>1
        <4> QED
          BY <1>1, <4>1, <4>2
      <3> QED
        BY <2>1, <3>1, <3>2
    <2>4. \A i \in 2..Len(d) : i \in 1..Len(d)
      BY <2>2
    <2> QED
      BY <2>1, <2>3, <2>4
  <1>7. \/ d = c
        \/ Popped(c, d)
        \/ \E x : Swapped(c, d, x) /\ GoodCall(x)
        \/ \E m : /\ IsSequence(m) /\ d = m \o Tail(c)
                  /\ \A i \in 1..Len(m) : /\ GoodCall(m[i])
                                           /\ m[i].op \notin {"remove", "create", "loadConfig"}
    <2>1. CASE Opening(p)
      BY <2>1 DEF Opening
    <2>2. CASE Writing(p)
      BY <2>2 DEF Writing
    <2>3. CASE Setting1(p)
      <3>1. Swapped(c, d, Message(LOGGER))
        BY <2>3 DEF Setting1, SetsTo
      <3> HIDE DEF c, d
      <3> QED
        BY <3>1, MessageGood
    <2>4. CASE Flushing(p)
      <3>1. \/ Swapped(c, d, [op |-> "remove"])
            \/ Swapped(c, d, [op |-> "create"])
            \/ d = c
            \/ Swapped(c, d, Message(LOGGER))
        BY <2>4 DEF Flushing
      <3> HIDE DEF c, d
      <3> QED
        BY <3>1, MessageGood
    <2>5. CASE Loading(p)
      <3>1. CASE Swapped(c, d, Message(LOGGER))
        <4> HIDE DEF c, d
        <4> QED
          BY <3>1, MessageGood
      <3>2. CASE d = c
        BY <3>2
      <3>3. CASE \E unset \in [1..Len(TextLines(config)) -> BOOLEAN] :
                    d = Apply(Wanted(set[p], TextLines(config), unset)) \o Tail(c)
        <4>1. PICK unset \in [1..Len(TextLines(config)) -> BOOLEAN] :
                    d = Apply(Wanted(set[p], TextLines(config), unset)) \o Tail(c)
          BY <3>3
        <4> DEFINE w == Wanted(set[p], TextLines(config), unset)
        <4>2. w \in Wish
          BY WantedWish
        <4> HIDE DEF w
        <4>3. Applied(w, Apply(w))
          BY <4>2, ApplyApplied
        <4> DEFINE m == Apply(w)
        <4>4. d = m \o Tail(c)
          BY <4>1 DEF w
        <4> HIDE DEF m
        <4>5. ASSUME NEW i \in 1..Len(m)
              PROVE  /\ GoodCall(m[i])
                     /\ m[i].op \notin {"remove", "create", "loadConfig"}
          <5>1. /\ m[i].op \in {"setLogFile", "flushLog", "setLogSilentMode", "setLineWrap",
                                "setLogDebugLevel"}
                /\ m[i].op = "setLogFile" => m[i].file = w.logfile
                /\ m[i].op = "setLogSilentMode" => m[i].on = w.silent
                /\ m[i].op = "setLineWrap" => m[i].on = w.wrap
            BY <4>3 DEF Applied, m
          <5>2. w.logfile \in LogName \union Unremovable \union {""} /\ w.silent \in BOOLEAN /\ w.wrap \in BOOLEAN
            BY <4>2 DEF Wish
          <5> QED
            BY <5>1, <5>2 DEF GoodCall
        <4>6. IsSequence(m)
          BY <4>3 DEF Applied, m
        <4> HIDE DEF c, d
        <4> QED
          BY <4>4, <4>5, <4>6
      <3> QED
        BY <2>5, <3>1, <3>2, <3>3 DEF Loading
    <2> QED
      BY <2>1, <2>2, <2>3, <2>4, <2>5 DEF OwnStep
  <1>8. /\ IsSequence(d)
        /\ \A i \in 1..Len(d) : GoodCall(d[i])
        /\ \A i \in 2..Len(d) : d[i].op \notin {"remove", "create", "loadConfig"}
    <2> HIDE DEF c, d
    <2> QED
      BY <1>3, <1>4, <1>5, <1>6, <1>7
  <1> QED
    BY <1>2, <1>8 DEF CallsOf

LEMMA OthersCalls ==
    ASSUME NEW p \in Process, NEW q \in Process \ {p}, Others(p), CallsOf(q)
    PROVE  CallsOf(q)'
  BY DEF Others, CallsOf

\* A file is open only between the two steps of a message.
LEMMA StaysOpen ==
    ASSUME Base, NEW p \in Process, OwnStep(p)
    PROVE  fd'[p] # 0 => \/ calls'[p] = calls[p] /\ set'[p] = set[p] /\ fd[p] # 0
                         \/ Opening(p)
  <1>1. fd[p] # 0 => calls[p][1].op = "writeLog"
    BY DEF Base, CallsOf
  <1> QED
    BY <1>1 DEF OwnStep, Opening, Writing, Setting1, SetsTo, Flushing, Loading

LEMMA LogCalls ==
    ASSUME Base, NEW p \in Process, OwnStep(p)
    PROVE  \A q \in Process : CallsOf(q)'
  <1>1. CallsOf(p)'
    BY StaysOpen, OwnCalls
  <1>2. ASSUME NEW q \in Process \ {p} PROVE CallsOf(q)'
    BY OthersCalls DEF Base, OwnStep
  <1> QED
    BY <1>1, <1>2

LEMMA MainCalls ==
    ASSUME Base, NEW p \in Process, MainStep(p)
    PROVE  \A q \in Process : CallsOf(q)'
  <1>1. fd' = fd /\ set' = set
    BY DEF MainStep
  <1>2. CallsOf(p)'
    <2>1. fd[p] = 0
      BY DEF Base, CallsOf, MainStep
    <2>2. OnlyMessages(calls'[p])
      BY DEF MainStep
    <2>3. Len(calls'[p]) \in Nat
      BY <2>2, SequenceLen DEF OnlyMessages
    <2>4. /\ \A i \in 1..Len(calls'[p]) : GoodCall(calls'[p][i])
          /\ \A i \in 2..Len(calls'[p]) :
                 calls'[p][i].op \notin {"remove", "create", "loadConfig"}
      <3>1. \A i \in 2..Len(calls'[p]) : i \in 1..Len(calls'[p])
        BY <2>3
      <3> QED
        BY <2>2, <3>1 DEF OnlyMessages
    <2> QED
      BY <1>1, <2>1, <2>2, <2>4 DEF CallsOf, OnlyMessages
  <1>3. ASSUME NEW q \in Process \ {p} PROVE CallsOf(q)'
    <2>1. CallsOf(q) /\ calls'[q] = calls[q]
      BY DEF Base, MainStep
    <2> QED
      BY <1>1, <2>1 DEF CallsOf
  <1> QED
    BY <1>2, <1>3

\* What the log's files are.
FilesOK ==
    /\ there \in [LogName -> BOOLEAN]
    /\ gen \in [LogName -> Nat]
    /\ \A f \in LogName :
        /\ lines[f] \in Seq(Line)
        /\ lines[f] # <<>> => there[f]
        /\ there[f] => gen[f] > 0
        /\ f \in Unremovable => there[f]
    /\ lines = [f \in LogName |-> lines[f]]

OpenOK == \A p \in Process : fd[p] # 0 => fd[p] \in 1..gen[set[p].logFile]

LEMMA OpenKeepsFiles ==
    ASSUME FilesOK, NEW f \in LogName, OpenLog(f), lines' = lines
    PROVE  /\ FilesOK'
           /\ there'[f] = TRUE /\ gen'[f] \in Nat \ {0}
           /\ \A g \in LogName : gen'[g] >= gen[g]
  <1>1. /\ there' = [there EXCEPT ![f] = TRUE]
        /\ gen' = [gen EXCEPT ![f] = IF there[f] THEN @ ELSE @ + 1]
    BY DEF OpenLog
  <1>2. /\ there' \in [LogName -> BOOLEAN] /\ there'[f] = TRUE
        /\ \A g \in LogName \ {f} : there'[g] = there[g]
    BY <1>1 DEF FilesOK
  <1>3. /\ gen' \in [LogName -> Nat]
        /\ gen'[f] = (IF there[f] THEN gen[f] ELSE gen[f] + 1)
        /\ \A g \in LogName \ {f} : gen'[g] = gen[g]
    BY <1>1 DEF FilesOK
  <1>4. gen'[f] \in Nat \ {0} /\ gen'[f] >= gen[f]
    <2>1. gen[f] \in Nat /\ (there[f] => gen[f] > 0)
      BY DEF FilesOK
    <2>2. CASE there[f]
      BY <1>3, <2>1, <2>2
    <2>3. CASE ~there[f]
      BY <1>3, <2>1, <2>3
    <2> QED
      BY <2>2, <2>3
  <1>5. \A g \in LogName : gen'[g] >= gen[g]
    <2>1. \A g \in LogName : gen[g] \in Nat /\ gen[g] >= gen[g]
      BY DEF FilesOK
    <2> QED
      BY <1>3, <1>4, <2>1
  <1> QED
    BY <1>2, <1>3, <1>4, <1>5 DEF FilesOK

LEMMA WriteKeepsFiles ==
    ASSUME Base, FilesOK, NEW p \in Process, writeLog(p)
    PROVE  FilesOK' /\ gen' = gen
  <1>1. CallsOf(p) /\ Call(p, "writeLog") /\ count[p] \in Nat
    BY DEF Base, TypeOK, LogTypeOK, writeLog
  <1>2. /\ Head(calls[p]) = calls[p][1] /\ calls[p][1].op = "writeLog"
        /\ 1 \in 1..Len(calls[p])
    BY <1>1, CallFacts
  <1>3. calls[p][1].lvl \in {FATAL, INFO, DEBUG, LOGGER}
    BY <1>1, <1>2 DEF CallsOf, GoodCall
  <1> DEFINE f == set[p].logFile
             line == [by |-> p, n |-> count[p] + 1, lvl |-> Head(calls[p]).lvl]
  <1>4. line \in Line
    BY <1>1, <1>2, <1>3 DEF Line
  <1>5. /\ UNCHANGED <<there, gen>>
        /\ \/ lines' = lines
           \/ /\ f \in LogName /\ there[f]
              /\ lines' = [lines EXCEPT ![f] = AppendLine(@, line)]
    BY DEF writeLog
  <1> HIDE DEF line, f
  <1>6. CASE f \in LogName /\ there[f] /\ lines' = [lines EXCEPT ![f] = AppendLine(@, line)]
    <2>1. lines[f] \o <<line>> \in Seq(Line)
      <3>1. lines[f] \in Seq(Line) /\ <<line>> \in Seq(Line)
        BY <1>4, <1>6 DEF FilesOK
      <3> QED
        BY <3>1, ConcatProperties
    <2>2. /\ lines'[f] = lines[f] \o <<line>>
          /\ \A g \in LogName \ {f} : lines'[g] = lines[g]
          /\ lines' = [g \in LogName |-> lines'[g]]
      BY <1>6 DEF FilesOK, AppendLine
    <2> QED
      BY <1>5, <1>6, <2>1, <2>2 DEF FilesOK
  <1>7. CASE lines' = lines
    BY <1>5, <1>7 DEF FilesOK
  <1> QED
    BY <1>5, <1>6, <1>7

LEMMA RemoveKeepsFiles ==
    ASSUME FilesOK, NEW p \in Process, flushLog_remove(p)
    PROVE  FilesOK' /\ gen' = gen
  <1> DEFINE f == set[p].logFile
  <1>1. /\ gen' = gen
        /\ \/ UNCHANGED <<there, lines>>
           \/ /\ f \in LogName /\ f \notin Unremovable
              /\ there' = [there EXCEPT ![f] = FALSE]
              /\ lines' = [lines EXCEPT ![f] = <<>>]
    BY DEF flushLog_remove, Removable
  <1> HIDE DEF f
  <1>2. CASE UNCHANGED <<there, lines>>
    BY <1>1, <1>2 DEF FilesOK
  <1>3. CASE /\ f \in LogName /\ f \notin Unremovable
             /\ there' = [there EXCEPT ![f] = FALSE]
             /\ lines' = [lines EXCEPT ![f] = <<>>]
    <2>1. <<>> \in Seq(Line)
      OBVIOUS
    <2>2. /\ lines'[f] = <<>>
          /\ \A g \in LogName \ {f} : lines'[g] = lines[g] /\ there'[g] = there[g]
          /\ lines' = [g \in LogName |-> lines'[g]]
          /\ there' \in [LogName -> BOOLEAN] /\ there'[f] = FALSE
      BY <1>3 DEF FilesOK
    <2> QED
      BY <1>1, <1>3, <2>1, <2>2 DEF FilesOK
  <1> QED
    BY <1>1, <1>2, <1>3

LEMMA LogKeepsFiles ==
    ASSUME Base, FilesOK, NEW p \in Process, LogStep(p)
    PROVE  FilesOK' /\ \A f \in LogName : gen'[f] >= gen[f] /\ gen'[f] \in Nat
  <1>1. \A f \in LogName : gen[f] \in Nat
    BY DEF FilesOK
  <1>2. CASE writeLog_open(p)
    <2>1. FilesOK' /\ \A f \in LogName : gen'[f] >= gen[f]
      BY <1>2, OpenKeepsFiles DEF writeLog_open
    <2> QED
      BY <2>1 DEF FilesOK
  <1>3. CASE writeLog(p)
    BY <1>1, <1>3, WriteKeepsFiles
  <1>4. CASE flushLog_remove(p)
    BY <1>1, <1>4, RemoveKeepsFiles
  <1>5. CASE flushLog_create(p)
    <2>1. CASE set[p].logFile \in LogName
      <3>1. OpenLog(set[p].logFile) /\ lines' = lines
        BY <1>5, <2>1 DEF flushLog_create
      <3>2. FilesOK' /\ \A f \in LogName : gen'[f] >= gen[f]
        BY <2>1, <3>1, OpenKeepsFiles
      <3> QED
        BY <3>2 DEF FilesOK
    <2>2. CASE set[p].logFile \notin LogName
      <3>1. UNCHANGED <<there, gen, lines>>
        BY <1>5, <2>2 DEF flushLog_create
      <3> QED
        BY <1>1, <3>1 DEF FilesOK
    <2> QED
      BY <2>1, <2>2
  <1>6. CASE UNCHANGED <<there, gen, lines>>
    BY <1>1, <1>6 DEF FilesOK
  <1> QED
    BY <1>2, <1>3, <1>4, <1>5, <1>6
    DEF LogStep, setLogFile, setLogSilentMode, setLineWrap, setLogDebugLevel, flushLog,
        loadConfig, fileVars

\* A file stays open as it is, and with the name it was opened under.
LEMMA OpenStays ==
    ASSUME Base, NEW p \in Process, LogStep(p), UNCHANGED mainVars, NEW q \in Process,
           fd'[q] # 0
    PROVE  \/ fd'[q] = fd[q] /\ set'[q] = set[q]
           \/ /\ q = p /\ writeLog_open(p) /\ set' = set
              /\ fd'[p] = gen'[set[p].logFile] /\ set[p].logFile \in LogName
  <1>1. OwnStep(p)
    BY LogStepIsOwn
  <1>2. CASE q # p
    BY <1>1, <1>2 DEF OwnStep, Others
  <1>3. CASE q = p
    <2>1. fd[p] # 0 => calls[p][1].op = "writeLog"
      BY DEF Base, CallsOf
    <2>2. CASE writeLog_open(p)
      <3>1. /\ fd' = [fd EXCEPT ![p] = gen'[set[p].logFile]]
            /\ set' = set /\ set[p].logFile \in LogName
        BY <2>2 DEF writeLog_open
      <3>2. fd'[p] = gen'[set[p].logFile]
        BY <3>1 DEF Base, Shapes
      <3> QED
        BY <1>3, <2>2, <3>1, <3>2
    <2>3. CASE writeLog(p)
      BY <1>3, <2>3 DEF writeLog, Base, Shapes
    <2>4. CASE ~writeLog_open(p) /\ ~writeLog(p)
      <3>1. fd' = fd
        BY <2>4 DEF LogStep, setLogFile, setLogSilentMode, setLineWrap, setLogDebugLevel,
                    flushLog, flushLog_remove, flushLog_create, loadConfig
      <3>2. set'[p] = set[p]
        BY <1>1, <1>3, <2>1, <3>1 DEF OwnStep, Opening, Writing, Setting1, Flushing, Loading
      <3> QED
        BY <1>3, <3>1, <3>2
    <2> QED
      BY <2>2, <2>3, <2>4
  <1> QED
    BY <1>2, <1>3

LEMMA LogKeepsOpen ==
    ASSUME Base, FilesOK, OpenOK, NEW p \in Process, LogStep(p), UNCHANGED mainVars
    PROVE  OpenOK'
  <1> SUFFICES ASSUME NEW q \in Process, fd'[q] # 0
               PROVE  fd'[q] \in 1..gen'[set'[q].logFile]
    BY DEF OpenOK
  <1>1. FilesOK' /\ \A f \in LogName : gen'[f] >= gen[f] /\ gen'[f] \in Nat
    BY LogKeepsFiles
  <1>2. CASE fd'[q] = fd[q] /\ set'[q] = set[q]
    <2>1. /\ fd[q] \in 1..gen[set[q].logFile] /\ set[q].logFile \in LogName
          /\ gen[set[q].logFile] \in Nat
      BY <1>2 DEF OpenOK, Base, CallsOf, FilesOK
    <2> QED
      BY <1>1, <1>2, <2>1
  <1>3. CASE /\ q = p /\ writeLog_open(p) /\ set' = set
             /\ fd'[p] = gen'[set[p].logFile] /\ set[p].logFile \in LogName
    <2>1. gen'[set[p].logFile] \in Nat \ {0}
      BY <1>3, OpenKeepsFiles DEF writeLog_open
    <2> QED
      BY <1>3, <2>1
  <1> QED
    BY <1>2, <1>3, OpenStays

LEMMA SettingsChange ==
    ASSUME NEW s \in Settings
    PROVE  /\ \A f \in LogName \union Unremovable \union {""} : [s EXCEPT !.logFile = f] \in Settings
           /\ \A b \in BOOLEAN : [s EXCEPT !.silentMode = b] \in Settings
           /\ \A b \in BOOLEAN : [s EXCEPT !.lineWrap = b] \in Settings
           /\ \A n : [s EXCEPT !.dbgLevel = DebugLevel(n)] \in Settings
  <1>1. \A n : DebugLevel(n) \in INFO..VERBOSE
    BY DEF DebugLevel, DEBUG, INFO, VERBOSE
  <1> QED
    BY <1>1 DEF Settings

LEMMA LogKeepsSettings ==
    ASSUME Base, NEW p \in Process, OwnStep(p)
    PROVE  \A q \in Process : set'[q] \in Settings
  <1>1. \A q \in Process : set[q] \in Settings
    BY DEF Base, TypeOK, LogTypeOK
  <1>2. set'[p] \in Settings
    <2>1. CASE Setting1(p)
      <3>1. GoodCall(calls[p][1])
        <4>1. 1 \in 1..Len(calls[p])
          BY SequenceLen DEF Base, CallsOf, OwnStep
        <4> QED
          BY <4>1 DEF Base, CallsOf
      <3> DEFINE s == set[p]
                 e == calls[p][1]
      <3>2. /\ \A f \in LogName \union Unremovable \union {""} : [s EXCEPT !.logFile = f] \in Settings
            /\ \A b \in BOOLEAN : [s EXCEPT !.silentMode = b] \in Settings
            /\ \A b \in BOOLEAN : [s EXCEPT !.lineWrap = b] \in Settings
            /\ \A n : [s EXCEPT !.dbgLevel = DebugLevel(n)] \in Settings
        BY <1>1, SettingsChange
      <3>3. \/ e.op = "setLogFile" /\ set'[p] = [s EXCEPT !.logFile = e.file]
            \/ e.op = "setLogSilentMode" /\ set'[p] = [s EXCEPT !.silentMode = e.on]
            \/ e.op = "setLineWrap" /\ set'[p] = [s EXCEPT !.lineWrap = e.on]
            \/ set'[p] = [s EXCEPT !.dbgLevel = DebugLevel(e.level)]
        BY <2>1 DEF Setting1, SetsTo
      <3> HIDE DEF s, e
      <3>4. /\ e.op = "setLogFile" => e.file \in LogName \union Unremovable \union {""}
            /\ e.op \in {"setLogSilentMode", "setLineWrap"} => e.on \in BOOLEAN
        BY <3>1 DEF GoodCall, e
      <3> QED
        BY <3>2, <3>3, <3>4
    <2>2. CASE Loading(p)
      <3>1. CASE set' = set
        BY <1>1, <3>1
      <3>2. CASE \E unset \in [1..Len(TextLines(config)) -> BOOLEAN] :
                    LET w == Wanted(set[p], TextLines(config), unset)
                    IN  set'[p] = IF w.silent THEN [set[p] EXCEPT !.logFile = w.logfile]
                                              ELSE set[p]
        <4>1. PICK unset \in [1..Len(TextLines(config)) -> BOOLEAN] :
                    LET w == Wanted(set[p], TextLines(config), unset)
                    IN  set'[p] = IF w.silent THEN [set[p] EXCEPT !.logFile = w.logfile]
                                              ELSE set[p]
          BY <3>2
        <4> DEFINE w == Wanted(set[p], TextLines(config), unset)
        <4>2. w \in Wish
          BY WantedWish
        <4>3. set'[p] = IF w.silent THEN [set[p] EXCEPT !.logFile = w.logfile] ELSE set[p]
          BY <4>1
        <4> HIDE DEF w
        <4>4. w.logfile \in LogName \union Unremovable \union {""}
          BY <4>2 DEF Wish
        <4>5. [set[p] EXCEPT !.logFile = w.logfile] \in Settings
          BY <1>1, <4>4, SettingsChange
        <4> QED
          BY <1>1, <4>3, <4>5
      <3> QED
        BY <2>2, <3>1, <3>2 DEF Loading
    <2>3. CASE set' = set
      BY <1>1, <2>3
    <2> QED
      BY <2>1, <2>2, <2>3 DEF OwnStep, Opening, Writing, Flushing
  <1> QED
    BY <1>1, <1>2 DEF OwnStep, Others

\* The same, of the functions as wholes.
LEMMA LogKeepsWholes ==
    ASSUME Base, NEW p \in Process, LogStep(p)
    PROVE  /\ set' = [q \in Process |-> set'[q]]
           /\ fd' = [q \in Process |-> fd'[q]]
           /\ alive' \in [Process -> {"run", "exit", "flush", "crash", "connect"}]
           /\ count' \in [Process -> Nat]
           /\ shown' \in [Process -> Nat]
           /\ removed' \subseteq Process \X LogName
  <1>1. /\ set = [q \in Process |-> set[q]]
        /\ fd = [q \in Process |-> fd[q]]
        /\ alive \in [Process -> {"run", "exit", "flush", "crash", "connect"}]
        /\ count \in [Process -> Nat]
        /\ shown \in [Process -> Nat]
        /\ removed \subseteq Process \X LogName
    BY DEF Base, TypeOK, LogTypeOK, Shapes
  <1>2. CASE writeLog_open(p)
    BY <1>1, <1>2 DEF writeLog_open, history
  <1>3. CASE writeLog(p)
    <2>1. /\ fd' = [fd EXCEPT ![p] = 0]
          /\ UNCHANGED <<alive, set, removed>>
          /\ \/ Show(p) /\ count' = [count EXCEPT ![p] = @ + 1]
             \/ UNCHANGED <<shown, count>>
      BY <1>3 DEF writeLog
    <2>2. shown' \in [Process -> Nat]
      BY <1>1, <2>1, ShowShows
    <2>3. count' \in [Process -> Nat]
      BY ONLY <1>1, <2>1
    <2>4. fd' = [q \in Process |-> fd'[q]]
      BY ONLY <1>1, <2>1
    <2> QED
      BY ONLY <1>1, <2>1, <2>2, <2>3, <2>4
  <1>4. CASE setLogFile(p)
    BY <1>1, <1>4 DEF setLogFile, history
  <1>5. CASE setLogSilentMode(p)
    BY <1>1, <1>5 DEF setLogSilentMode, history
  <1>6. CASE setLineWrap(p)
    BY <1>1, <1>6 DEF setLineWrap, history
  <1>7. CASE setLogDebugLevel(p)
    BY <1>1, <1>7 DEF setLogDebugLevel, history
  <1>8. CASE flushLog(p)
    <2>1. shown' \in [Process -> Nat]
      BY <1>1, <1>8, ShowShows DEF flushLog
    <2> QED
      BY <1>1, <1>8, <2>1 DEF flushLog
  <1>9. CASE flushLog_remove(p)
    <2> DEFINE f == set[p].logFile
    <2>1. /\ UNCHANGED <<set, fd, count, shown>>
          /\ removed' = removed \/ (f \in LogName /\ removed' = removed \union {<<p, f>>})
          /\ alive' = alive \/ alive' = [alive EXCEPT ![p] = "flush"]
      BY <1>9 DEF flushLog_remove, Removable
    <2> HIDE DEF f
    <2>2. removed' \subseteq Process \X LogName
      BY <1>1, <2>1
    <2>3. alive' \in [Process -> {"run", "exit", "flush", "crash", "connect"}]
      BY ONLY <1>1, <2>1
    <2> QED
      BY <1>1, <2>1, <2>2, <2>3
  <1>10. CASE flushLog_create(p)
    BY <1>1, <1>10 DEF flushLog_create, history
  <1>11. CASE loadConfig(p)
    <2>1. /\ UNCHANGED <<fd, count, shown, removed>>
          /\ alive' = alive \/ alive' = [alive EXCEPT ![p] = "crash"]
          /\ \/ set' = set
             \/ \E unset \in [1..Len(TextLines(config)) -> BOOLEAN] :
                   LET w == Wanted(set[p], TextLines(config), unset)
                   IN  set' = IF w.silent THEN [set EXCEPT ![p].logFile = w.logfile] ELSE set
      BY <1>11 DEF loadConfig, history
    <2>2. set' = set \/ \E g : set' = [set EXCEPT ![p].logFile = g]
      BY <2>1
    <2> QED
      BY <1>1, <2>1, <2>2
  <1> QED
    BY <1>2, <1>3, <1>4, <1>5, <1>6, <1>7, <1>8, <1>9, <1>10, <1>11 DEF LogStep

LEMMA LogKeepsBase ==
    ASSUME Base, NEW p \in Process, LogStep(p), UNCHANGED mainVars
    PROVE  Base'
  <1>1. OwnStep(p)
    BY LogStepIsOwn
  <1>2. FilesOK /\ OpenOK
    BY DEF Base, TypeOK, LogTypeOK, Shapes, FilesOK, OpenOK
  <1>3. FilesOK' /\ OpenOK'
    BY <1>2, LogKeepsFiles, LogKeepsOpen
  <1>4. /\ set' = [q \in Process |-> set'[q]]
        /\ fd' = [q \in Process |-> fd'[q]]
        /\ alive' \in [Process -> {"run", "exit", "flush", "crash", "connect"}]
        /\ count' \in [Process -> Nat]
        /\ shown' \in [Process -> Nat]
        /\ removed' \subseteq Process \X LogName
    BY LogKeepsWholes
  <1>5. set' \in [Process -> Settings]
    BY <1>1, <1>4, LogKeepsSettings
  <1>6. LogTypeOK'
    BY <1>3, <1>4, <1>5 DEF LogTypeOK, FilesOK, OpenOK
  <1>7. TypeOK'
    BY <1>1, <1>6 DEF Base, TypeOK, OwnStep
  <1>8. Shapes'
    BY <1>1, <1>3, <1>4 DEF Base, Shapes, FilesOK, OwnStep
  <1>9. \A q \in Process : CallsOf(q)'
    BY <1>1, LogCalls
  <1>10. Started' /\ Parsed'
    BY <1>1 DEF Base, Started, Parsed, OwnStep
  <1> QED
    BY <1>7, <1>8, <1>9, <1>10 DEF Base

LEMMA MainKeepsLog ==
    ASSUME Base, NEW p \in Process, MainStep(p),
           alive' \in [Process -> {"run", "exit", "flush", "crash", "connect"}]
    PROVE  LogTypeOK' /\ Shapes' /\ Started' /\ \A q \in Process : CallsOf(q)'
  <1>1. LogTypeOK'
    BY DEF Base, TypeOK, LogTypeOK, MainStep, fileVars
  <1>2. Shapes' /\ Started'
    BY DEF Base, Shapes, Started, MainStep, fileVars
  <1> QED
    BY <1>1, <1>2, MainCalls

LEMMA ParsedPara ==
    ASSUME Started, NEW p \in Process
    PROVE  Para(parse_commandline(argv[p]))
  <1>1. IsCommandLine(argv[p])
    BY StartedWell
  <1> QED
    BY <1>1, ParseMeans DEF Means

LEMMA ParseKeepsBase ==
    ASSUME Base, NEW p \in Process, Parse(p)
    PROVE  Base'
  <1>1. /\ MainStep(p) /\ pc[p] = "parse"
        /\ para'[p] = parse_commandline(argv[p])
        /\ pc'[p] \in {"quit", "bind", "connect"}
        /\ pc' \in [Process -> Stage]
        /\ alive' \in [Process -> {"run", "exit", "flush", "crash", "connect"}]
    BY ParseIsMain
  <1>2. LogTypeOK' /\ Shapes' /\ Started' /\ \A q \in Process : CallsOf(q)'
    BY <1>1, MainKeepsLog
  <1>3. UNCHANGED <<conn, met, argv>>
    BY DEF Parse
  <1>4. Para(para'[p])
    BY <1>1, ParsedPara DEF Base
  <1>5. \A q \in Process : pc'[q] # "parse" => /\ para'[q].port \in Shorts
                                             /\ para'[q].opterr \in BOOLEAN
                                             /\ para'[q].usage \in Nat
                                             /\ para'[q].crash \in BOOLEAN
    BY <1>1, <1>4 DEF Base, TypeOK, MainStep, Para
  <1>6. \A c \in Client : conn'[c] # NULL <=> pc'[c] = "loop"
    <2>1. \A c \in Client : c \in Process
      BY StartupAssumption
    <2>2. \A c \in Client : pc'[c] = "loop" <=> pc[c] = "loop"
      BY <1>1, <2>1 DEF MainStep
    <2> QED
      BY <1>3, <2>2 DEF Base, TypeOK
  <1>7. TypeOK'
    BY <1>1, <1>2, <1>3, <1>5, <1>6 DEF Base, TypeOK
  <1>8. Parsed'
    BY <1>1, <1>3 DEF Base, Parsed, MainStep
  <1> QED
    BY <1>2, <1>7, <1>8 DEF Base

LEMMA QuitKeepsBase ==
    ASSUME Base, NEW p \in Process, Quit(p)
    PROVE  Base'
  <1>1. /\ MainStep(p) /\ UNCHANGED <<pc, para, conn, met>>
        /\ alive' \in [Process -> {"run", "exit", "flush", "crash", "connect"}]
    BY QuitIsMain
  <1>2. LogTypeOK' /\ Shapes' /\ Started' /\ \A q \in Process : CallsOf(q)'
    BY <1>1, MainKeepsLog
  <1>3. TypeOK' /\ Parsed'
    BY <1>1, <1>2 DEF Base, TypeOK, Parsed, MainStep
  <1> QED
    BY <1>2, <1>3 DEF Base

LEMMA BindKeepsBase ==
    ASSUME Base, NEW s \in Server, Bind(s)
    PROVE  Base'
  <1>1. /\ s \in Process /\ MainStep(s) /\ pc[s] = "bind"
        /\ UNCHANGED <<para, conn, met>>
        /\ pc' \in [Process -> Stage]
        /\ alive' \in [Process -> {"run", "exit", "flush", "crash", "connect"}]
    BY BindIsMain
  <1>2. LogTypeOK' /\ Shapes' /\ Started' /\ \A q \in Process : CallsOf(q)'
    BY <1>1, MainKeepsLog
  <1>3. \A q \in Process \ {s} : pc'[q] = pc[q]
    BY <1>1 DEF MainStep
  <1>4. \A c \in Client : c \in Process \ {s}
    BY StartupAssumption
  <1>5. \A q \in Process : pc'[q] # "parse" => pc[q] # "parse"
    BY <1>1, <1>3
  <1>6. TypeOK' /\ Parsed'
    BY <1>1, <1>2, <1>3, <1>4, <1>5 DEF Base, TypeOK, Parsed, MainStep
  <1> QED
    BY <1>2, <1>6 DEF Base

LEMMA ConnectKeepsBase ==
    ASSUME Base, NEW c \in Client, Connect(c)
    PROVE  Base'
  <1>1. /\ c \in Process /\ MainStep(c) /\ pc[c] = "connect" /\ alive' = alive
        /\ UNCHANGED <<para, met>>
        /\ \/ /\ pc'[c] = "loop"
              /\ \E s \in Server : conn' = [conn EXCEPT ![c] = s]
           \/ pc'[c] = "refused" /\ conn' = conn
        /\ pc' \in [Process -> Stage]
    BY ConnectIsMain
  <1>2. alive' \in [Process -> {"run", "exit", "flush", "crash", "connect"}]
    BY <1>1 DEF Base, TypeOK, LogTypeOK
  <1>3. LogTypeOK' /\ Shapes' /\ Started' /\ \A q \in Process : CallsOf(q)'
    BY <1>1, <1>2, MainKeepsLog
  <1>4. \A q \in Process \ {c} : pc'[q] = pc[q]
    BY <1>1 DEF MainStep
  <1>5. \A q \in Process : pc'[q] # "parse" => pc[q] # "parse"
    BY <1>1, <1>4
  <1>6. /\ \A s \in Server : s # NULL
        /\ \A d \in Client : d \in Process
    BY StartupAssumption
  <1>7. /\ conn \in [Client -> Server \union {NULL}]
        /\ \A d \in Client : conn[d] # NULL <=> pc[d] = "loop"
        /\ met \in SUBSET {d \in Client : conn[d] # NULL}
    BY DEF Base, TypeOK
  <1>8. conn[c] = NULL
    BY <1>1, <1>7
  <1>9. /\ conn' \in [Client -> Server \union {NULL}]
        /\ \A d \in Client : conn'[d] # NULL <=> pc'[d] = "loop"
        /\ met' \in SUBSET {d \in Client : conn'[d] # NULL}
    <2>1. CASE pc'[c] = "loop" /\ \E s \in Server : conn' = [conn EXCEPT ![c] = s]
      <3>1. PICK s \in Server : conn' = [conn EXCEPT ![c] = s]
        BY <2>1
      <3>2. /\ conn' \in [Client -> Server \union {NULL}]
            /\ conn'[c] # NULL
            /\ \A d \in Client \ {c} : conn'[d] = conn[d]
        BY <1>6, <1>7, <3>1
      <3> QED
        BY <1>1, <1>4, <1>6, <1>7, <2>1, <3>2
    <2>2. CASE pc'[c] = "refused" /\ conn' = conn
      BY <1>1, <1>4, <1>6, <1>7, <1>8, <2>2
    <2> QED
      BY <1>1, <2>1, <2>2
  <1>10. TypeOK' /\ Parsed'
    BY <1>1, <1>3, <1>5, <1>9 DEF Base, TypeOK, Parsed, MainStep
  <1> QED
    BY <1>3, <1>10 DEF Base

LEMMA FailingKeepsBase ==
    ASSUME Base, NEW c \in Client, ConnectFails(c)
    PROVE  Base'
  <1>1. /\ c \in Process /\ MainStep(c) /\ UNCHANGED <<pc, para, conn, met>>
        /\ alive' \in [Process -> {"run", "exit", "flush", "crash", "connect"}]
    BY FailingIsMain
  <1>2. LogTypeOK' /\ Shapes' /\ Started' /\ \A q \in Process : CallsOf(q)'
    BY <1>1, MainKeepsLog
  <1>3. TypeOK' /\ Parsed'
    BY <1>1, <1>2 DEF Base, TypeOK, Parsed, MainStep
  <1> QED
    BY <1>2, <1>3 DEF Base

LEMMA ListenKeepsBase ==
    ASSUME Base, NEW s \in Server, NEW c \in Client, listen_cb(s, c)
    PROVE  Base'
  <1>1. /\ s \in Process /\ MainStep(s) /\ conn[c] = s /\ met' = met \union {c}
        /\ UNCHANGED <<alive, para, conn, pc>>
    BY ListenIsMain
  <1>2. alive' \in [Process -> {"run", "exit", "flush", "crash", "connect"}]
    BY <1>1 DEF Base, TypeOK, LogTypeOK
  <1>3. LogTypeOK' /\ Shapes' /\ Started' /\ \A q \in Process : CallsOf(q)'
    BY <1>1, <1>2, MainKeepsLog
  <1>4. conn[c] # NULL
    BY <1>1, StartupAssumption
  <1>5. TypeOK' /\ Parsed'
    BY <1>1, <1>3, <1>4 DEF Base, TypeOK, Parsed, MainStep
  <1> QED
    BY <1>3, <1>5 DEF Base

LEMMA BaseNext ==
    ASSUME Base, [Next]_vars
    PROVE  Base'
  <1>1. CASE UNCHANGED vars
    BY <1>1 DEF vars, logVars, fileVars, history, mainVars, Base, TypeOK, LogTypeOK, Shapes,
                CallsOf, Started, Parsed
  <1>2. CASE Next
    BY <1>2, LogKeepsBase, ParseKeepsBase, QuitKeepsBase, BindKeepsBase, ConnectKeepsBase,
       FailingKeepsBase, ListenKeepsBase DEF Next, Step
  <1> QED
    BY <1>1, <1>2

LEMMA FirstCallsAre ==
    /\ IsSequence(FirstCalls) /\ Len(FirstCalls) = 2
    /\ FirstCalls[1].op = "loadConfig"
    /\ FirstCalls[2].op = "setLogFile" /\ FirstCalls[2].file = "server.log"
  <1> DEFINE a == [op |-> "loadConfig"]
             b == [op |-> "setLogFile", file |-> "server.log"]
  <1>1. a.op = "loadConfig" /\ b.op = "setLogFile" /\ b.file = "server.log"
    OBVIOUS
  <1> HIDE DEF a, b
  <1>2. /\ <<a, b>> \in Seq({a, b}) /\ Len(<<a, b>>) = 2
        /\ <<a, b>>[1] = a /\ <<a, b>>[2] = b
    OBVIOUS
  <1>3. FirstCalls = <<a, b>>
    BY DEF FirstCalls, a, b
  <1>4. IsSequence(<<a, b>>)
    BY <1>2, SequenceOver
  <1> QED
    BY <1>1, <1>2, <1>3, <1>4

LEMMA InitFacts ==
    ASSUME Init
    PROVE  /\ LogInit /\ Started
           /\ calls = [p \in Process |-> IF p \in Server THEN FirstCalls ELSE <<>>]
           /\ para = [p \in Process |-> NULL]
           /\ pc = [p \in Process |-> "parse"]
           /\ conn = [c \in Client |-> NULL]
           /\ met = {}
  BY DEF Init, Started

LEMMA FirstSettings ==
    ASSUME NEW s, s = [dbgLevel |-> DEBUG, logFile |-> "default.log",
                       silentMode |-> FALSE, lineWrap |-> TRUE]
    PROVE  s \in Settings
  <1>1. DEBUG \in INFO..VERBOSE
    BY DEF DEBUG, INFO, VERBOSE
  <1>2. "default.log" \in LogName
    BY StartupAssumption
  <1> QED
    BY <1>1, <1>2 DEF Settings

LEMMA BaseInit == Init => Base
  <1> SUFFICES ASSUME Init PROVE Base
    OBVIOUS
  <1> USE InitFacts
  <1>1. LogTypeOK
    <2>1. set \in [Process -> Settings]
      BY FirstSettings DEF LogInit
    <2>2. /\ there \in [LogName -> BOOLEAN]
          /\ gen \in [LogName -> Nat]
          /\ \A f \in LogName : lines[f] = <<>>
          /\ \A f \in LogName : there[f] => gen[f] > 0
          /\ \A f \in LogName : f \in Unremovable => there[f]
      <3>1. there = [f \in LogName |-> f \in Unremovable]
        BY DEF LogInit
      <3>2. gen = [f \in LogName |-> IF there[f] THEN 1 ELSE 0] /\ lines = [f \in LogName |-> <<>>]
        BY DEF LogInit
      <3>3. /\ there \in [LogName -> BOOLEAN]
            /\ \A f \in LogName : there[f] = (f \in Unremovable)
        BY ONLY <3>1
      <3>4. /\ gen \in [LogName -> Nat]
            /\ \A f \in LogName : there[f] => gen[f] > 0
        BY ONLY <3>2, <3>3
      <3>5. \A f \in LogName : lines[f] = <<>>
        BY ONLY <3>2
      <3> QED
        BY ONLY <3>3, <3>4, <3>5
    <2>3. <<>> \in Seq(Line)
      OBVIOUS
    <2>4. /\ alive \in [Process -> {"run", "exit", "flush", "crash", "connect"}]
          /\ count \in [Process -> Nat]
          /\ shown \in [Process -> Nat]
          /\ removed = {}
          /\ \A p \in Process : fd[p] = 0
      BY DEF LogInit
    <2> QED
      BY <2>1, <2>2, <2>3, <2>4 DEF LogTypeOK
  <1>2. Shapes
    BY DEF Shapes, LogInit
  <1>3. ASSUME NEW p \in Process PROVE CallsOf(p)
    <2>1. fd[p] = 0
      BY DEF LogInit
    <2>2. CASE p \in Server
      <3>1. calls[p] = FirstCalls
        BY <2>2
      <3>2. \A i \in 1..Len(FirstCalls) : i = 1 \/ i = 2
        BY FirstCallsAre
      <3>3. \A i \in 2..Len(FirstCalls) : i = 2
        BY FirstCallsAre
      <3>4. GoodCall(FirstCalls[1]) /\ GoodCall(FirstCalls[2])
        BY FirstCallsAre, StartupAssumption DEF GoodCall
      <3> QED
        BY <2>1, <3>1, <3>2, <3>3, <3>4, FirstCallsAre DEF CallsOf
    <2>3. CASE p \notin Server
      <3>1. calls[p] = <<>>
        BY <2>3
      <3>2. IsSequence(<<>>)
        BY FewMessages DEF OnlyMessages
      <3>3. Len(<<>>) = 0
        OBVIOUS
      <3> QED
        BY <2>1, <3>1, <3>2, <3>3 DEF CallsOf
    <2> QED
      BY <2>2, <2>3
  <1>4. TypeOK
    <2>1. \A c \in Client : c \in Process
      BY StartupAssumption
    <2> QED
      BY <1>1, <2>1 DEF TypeOK, Stage
  <1>5. Parsed
    BY DEF Parsed
  <1> QED
    BY <1>1, <1>2, <1>3, <1>4, <1>5 DEF Base

LEMMA BaseInvariant == Spec => []Base
  <1>1. Base /\ [Next]_vars => Base'
    BY BaseNext
  <1> QED
    BY <1>1, BaseInit, PTL DEF Spec

\* The logger's settings, the files, the command line and main's stage have their types,
\* whatever the command lines and the configuration hold: simplog.c, config.c and the
\* two mains.
THEOREM TypeCorrect == Spec => []TypeOK
  <1>1. Base => TypeOK
    BY DEF Base
  <1> QED
    BY <1>1, BaseInvariant, PTL

-------------------------------------------------------------------------------
(* Every step of the system is a step of one process: in the logger, or of main. *)

LEMMA StepOfOne ==
    ASSUME Base, Next
    PROVE  \E p \in Process : \/ LogStep(p) /\ UNCHANGED mainVars
                             \/ MainStep(p)
  BY ParseIsMain, QuitIsMain, BindIsMain, ConnectIsMain, FailingIsMain, ListenIsMain
  DEF Next, Step

LEMMA MainIsQuiet ==
    ASSUME NEW p, MainStep(p)
    PROVE  UNCHANGED <<config, argv, set, fd, there, gen, lines, count, written, removed>>
  BY DEF MainStep, fileVars

\* A file goes only when some process removes it, which is remembered.
LEMMA GoneIfRemoved ==
    ASSUME Base, NEW p \in Process, LogStep(p)
    PROVE  /\ removed \subseteq removed'
           /\ \A f \in LogName : there[f] => \/ there'[f]
                                           \/ /\ <<p, f>> \in removed'
                                              /\ calls[p][1].op = "remove"
  <1>1. there \in [LogName -> BOOLEAN]
    BY DEF Base, TypeOK, LogTypeOK
  <1>2. ASSUME NEW f, OpenLog(f)
        PROVE  \A g \in LogName : there[g] => there'[g]
    BY <1>1, <1>2 DEF OpenLog
  <1>3. CASE writeLog_open(p)
    BY <1>2, <1>3 DEF writeLog_open, history
  <1>4. CASE flushLog_create(p)
    BY <1>2, <1>4 DEF flushLog_create, history
  <1>5. CASE flushLog_remove(p)
    <2> DEFINE f == set[p].logFile
    <2>1. calls[p][1].op = "remove"
      BY <1>5, CallFacts DEF Base, flushLog_remove
    <2>2. \/ removed' = removed /\ there' = there
          \/ /\ removed' = removed \union {<<p, f>>}
             /\ there' = [there EXCEPT ![f] = FALSE]
      BY <1>5 DEF flushLog_remove
    <2> HIDE DEF f
    <2> QED
      BY <1>1, <2>1, <2>2
  <1>6. CASE UNCHANGED <<there, removed>>
    BY <1>6
  <1> QED
    BY <1>3, <1>4, <1>5, <1>6
    DEF LogStep, writeLog, setLogFile, setLogSilentMode, setLineWrap, setLogDebugLevel,
        flushLog, loadConfig, fileVars, history

-------------------------------------------------------------------------------
(* flushLog. *)

RemovedByOther(p, f) == \E q \in Process \ {p} : <<q, f>> \in removed

\* Between looking and removing the file is there, if it is one that can be removed, or
\* another one has removed it.
FlushOf(p) ==
    /\ (/\ alive[p] = "run" /\ calls[p] # <<>>
        /\ calls[p][1].op = "remove" /\ set[p].logFile \notin Unremovable) =>
           /\ set[p].logFile \in LogName
           /\ there[set[p].logFile] \/ RemovedByOther(p, set[p].logFile)
    /\ alive[p] = "flush" => \/ set[p].logFile \in Unremovable
                             \/ RemovedByOther(p, set[p].logFile)

Flushes == \A p \in Process : FlushOf(p)

\* Where the head of the calls comes from: the step to "remove" follows the look.
LEMMA RemoveAfterLook ==
    ASSUME Base, NEW p \in Process, OwnStep(p),
           alive'[p] = "run", calls'[p] # <<>>, calls'[p][1].op = "remove"
    PROVE  /\ calls[p][1].op = "flushLog" /\ set'[p] = set[p]
           /\ Exists(set[p].logFile)
  <1> DEFINE c == calls[p]
             d == calls'[p]
  <1>1. /\ IsSequence(c) /\ Len(c) \in Nat \ {0}
        /\ \A i \in 2..Len(c) : c[i].op # "remove"
    BY SequenceLen DEF Base, CallsOf, OwnStep
  <1>2. /\ IsSequence(d) /\ Len(d) \in Nat \ {0}
        /\ \A x : Swapped(c, d, x) => x.op = "remove"
        /\ ~Popped(c, d)
    <2>1. CallsOf(p)'
      BY LogCalls
    <2>2. IsSequence(d) /\ Len(d) \in Nat \ {0}
      BY <2>1, SequenceLen DEF CallsOf
    <2>3. \A x : Swapped(c, d, x) => d[1] = x
      BY DEF Swapped
    <2>4. ASSUME Popped(c, d) PROVE FALSE
      <3>1. d[1] = c[2] /\ 2 \in 2..Len(c)
        BY <1>1, <2>2, <2>4 DEF Popped
      <3> QED
        BY <1>1, <3>1
    <2> QED
      BY <2>2, <2>3, <2>4
  <1>3. ~Swapped(c, d, Message(LOGGER)) /\ ~Swapped(c, d, [op |-> "create"])
    <2> HIDE DEF c, d
    <2> QED
      BY <1>2, MessageGood
  <1>4. CASE Loading(p)
    <2>1. PICK unset \in [1..Len(TextLines(config)) -> BOOLEAN] :
             d = Apply(Wanted(set[p], TextLines(config), unset)) \o Tail(c)
      BY <1>3, <1>4 DEF Loading
    <2> DEFINE w == Wanted(set[p], TextLines(config), unset)
               m == Apply(w)
    <2>2. Applied(w, m)
      BY WantedWish, ApplyApplied
    <2>3. d = m \o Tail(c)
      BY <2>1
    <2> HIDE DEF w, m, c, d
    <2>4. /\ IsSequence(m) /\ 1 \in 1..Len(m)
          /\ m[1].op \in {"setLogFile", "flushLog", "setLogSilentMode", "setLineWrap",
                          "setLogDebugLevel"}
      BY <2>2, SequenceLen DEF Applied
    <2>5. d[1] = m[1]
      <3>1. c # <<>>
        BY <1>1, SequenceLen
      <3> QED
        BY <1>1, <2>3, <2>4, <3>1, PutBefore
    <2> QED
      BY <2>4, <2>5 DEF d
  <1>5. CASE Flushing(p)
    BY <1>3, <1>5 DEF Flushing
  <1>6. CASE Opening(p) \/ Writing(p) \/ Setting1(p)
    BY <1>2, <1>3, <1>6 DEF Opening, Writing, Setting1, SetsTo
  <1> QED
    BY <1>4, <1>5, <1>6 DEF OwnStep

LEMMA LogKeepsFlushes ==
    ASSUME Base, Flushes, NEW p \in Process, LogStep(p), UNCHANGED mainVars
    PROVE  Flushes'
  <1>1. OwnStep(p)
    BY LogStepIsOwn
  <1>2. /\ removed \subseteq removed'
        /\ \A f \in LogName : there[f] => \/ there'[f]
                                        \/ /\ <<p, f>> \in removed'
                                           /\ calls[p][1].op = "remove"
    BY GoneIfRemoved
  <1>3. FlushOf(p)'
    <2>1. ASSUME alive'[p] = "run", calls'[p] # <<>>, calls'[p][1].op = "remove"
          PROVE  set'[p].logFile \notin Unremovable =>
                     set'[p].logFile \in LogName /\ there'[set'[p].logFile]
      <3>1. /\ calls[p][1].op = "flushLog" /\ set'[p] = set[p]
            /\ Exists(set[p].logFile)
        BY <1>1, <2>1, RemoveAfterLook
      <3> QED
        BY <1>2, <3>1 DEF Exists
    <2>2. ASSUME alive'[p] = "flush", set'[p].logFile \notin Unremovable
          PROVE  \E q \in Process \ {p} : <<q, set'[p].logFile>> \in removed'
      <3>1. /\ calls[p][1].op = "remove" /\ set' = set
            /\ ~Removable(set[p].logFile)
        BY <1>1, <2>2 DEF OwnStep, Opening, Writing, Setting1, SetsTo, Flushing, Loading
      <3>2. RemovedByOther(p, set[p].logFile)
        BY <1>1, <2>2, <3>1 DEF Flushes, FlushOf, OwnStep, Removable
      <3> QED
        BY <1>2, <3>1, <3>2 DEF RemovedByOther
    <2> QED
      BY <2>1, <2>2 DEF FlushOf, RemovedByOther
  <1>4. ASSUME NEW q \in Process \ {p} PROVE FlushOf(q)'
    <2>1. alive'[q] = alive[q] /\ calls'[q] = calls[q] /\ set'[q] = set[q]
      BY <1>1 DEF OwnStep, Others
    <2>2. FlushOf(q)
      BY DEF Flushes
    <2>3. \A f : RemovedByOther(q, f) => \E x \in Process \ {q} : <<x, f>> \in removed'
      BY <1>2 DEF RemovedByOther
    <2>4. \A f \in LogName :
             there[f] => there'[f] \/ \E x \in Process \ {q} : <<x, f>> \in removed'
      BY <1>2
    <2> QED
      BY <2>1, <2>2, <2>3, <2>4 DEF FlushOf, RemovedByOther
  <1> QED
    BY <1>3, <1>4 DEF Flushes

LEMMA MainKeepsFlushes ==
    ASSUME Base, Flushes, NEW p \in Process, MainStep(p)
    PROVE  Flushes'
  <1>1. UNCHANGED <<set, there, removed>>
    BY MainIsQuiet
  <1>2. FlushOf(p)'
    <2>1. alive'[p] # "flush" /\ OnlyMessages(calls'[p])
      BY DEF MainStep
    <2>2. calls'[p] # <<>> => calls'[p][1].op = "writeLog"
      <3>1. calls'[p] # <<>> => 1 \in 1..Len(calls'[p])
        BY <2>1, SequenceLen DEF OnlyMessages
      <3> QED
        BY <2>1, <3>1 DEF OnlyMessages
    <2> QED
      BY <2>1, <2>2 DEF FlushOf
  <1>3. ASSUME NEW q \in Process \ {p} PROVE FlushOf(q)'
    <2>1. alive'[q] = alive[q] /\ calls'[q] = calls[q] /\ FlushOf(q)
      BY DEF Flushes, MainStep
    <2> QED
      BY <1>1, <2>1 DEF FlushOf, RemovedByOther
  <1> QED
    BY <1>2, <1>3 DEF Flushes

\* flushLog ends a process only if its log is one that cannot be removed, or if another
\* process has removed it between the look and the removal: simplog.c, lines 415 to 421.
THEOREM FlushDies == Spec => []FlushDeath
  <1>1. Init => Flushes
    <2> SUFFICES ASSUME Init PROVE Flushes
      OBVIOUS
    <2>1. \A p \in Process : alive[p] = "run"
      BY DEF Init, LogInit
    <2>2. \A p \in Process : calls[p] # <<>> => calls[p][1].op = "loadConfig"
      BY InitFacts, FirstCallsAre
    <2> QED
      BY <2>1, <2>2 DEF Flushes, FlushOf
  <1>2. Base /\ Flushes /\ [Next]_vars => Flushes'
    <2> SUFFICES ASSUME Base, Flushes, [Next]_vars PROVE Flushes'
      OBVIOUS
    <2>1. CASE UNCHANGED vars
      BY <2>1 DEF vars, logVars, fileVars, history, mainVars, Flushes, FlushOf, RemovedByOther
    <2>2. CASE Next
      BY <2>2, StepOfOne, LogKeepsFlushes, MainKeepsFlushes
    <2> QED
      BY <2>1, <2>2
  <1>3. Flushes => FlushDeath
    BY DEF Flushes, FlushOf, RemovedByOther, FlushDeath
  <1> QED
    BY <1>1, <1>2, <1>3, BaseInvariant, PTL DEF Spec

-------------------------------------------------------------------------------
(* The command line, and where client and server meet. *)

LEMMA LastOptIs ==
    ASSUME NEW a, Len(a) \in Nat
    PROVE  \A opts : LastOpt(a, opts) = LastUpTo(a, Len(a), opts)
  BY DEF LastOpt, LastUpTo

LEMMA ParaMeans ==
    ASSUME Base, NEW p \in Process, pc[p] # "parse"
    PROVE  Len(argv[p]) \in Nat /\ Means(argv[p], Len(argv[p]), para[p])
  <1>1. para[p] = parse_commandline(argv[p]) /\ IsCommandLine(argv[p])
    BY StartedWell DEF Base, Parsed
  <1> QED
    BY <1>1, ParseMeans

\* However options are ordered and repeated, the last -h, -p and -f count, a last -o behind
\* each -f names the output, and one without meaning makes the line an error: config.c,
\* parse_commandline, for lines of any length.
THEOREM OptionsAreMeant == Spec => []OptionsMean
  <1>1. Base => OptionsMean
    <2> SUFFICES ASSUME Base, NEW p \in Process, pc[p] # "parse"
                 PROVE  LET a == argv[p]
                            r == para[p]
                        IN  /\ r.crash = \E k \in 1..Len(a) : a[k].opt = "p" /\ a[k].arg = NULL
                            /\ ~r.crash =>
                                /\ r.opterr = \E k \in 1..Len(a) : a[k].opt = "?"
                                /\ \A k \in LastOpt(a, {"h"}) : r.host = Text(a[k].arg)
                                /\ \A k \in LastOpt(a, {"p"}) : r.port = Short(a[k].arg)
                                /\ \A k \in LastOpt(a, {"f"}) : r.infile = a[k].arg
                                /\ \A k \in LastOpt(a, {"f", "o"}) :
                                       a[k].opt = "o" => r.outfile = Text(a[k].arg)
                                /\ \A k \in LastOpt(a, {"f"}) :
                                       LastOpt(a, {"o"}) = {} => r.outfile = basename[a[k].arg]
                                /\ LastOpt(a, {"h"}) = {} => r.host = HOST
                                /\ LastOpt(a, {"p"}) = {} => r.port = PORT
      BY DEF OptionsMean
    <2> DEFINE a == argv[p]
               r == para[p]
    <2>1. Len(a) \in Nat /\ Means(a, Len(a), r)
      BY ParaMeans
    <2> HIDE DEF a, r
    <2>2. /\ LastOpt(a, {"h"}) = LastUpTo(a, Len(a), {"h"})
          /\ LastOpt(a, {"p"}) = LastUpTo(a, Len(a), {"p"})
          /\ LastOpt(a, {"f"}) = LastUpTo(a, Len(a), {"f"})
          /\ LastOpt(a, {"o"}) = LastUpTo(a, Len(a), {"o"})
          /\ LastOpt(a, {"f", "o"}) = LastUpTo(a, Len(a), {"f", "o"})
      BY <2>1, LastOptIs
    <2>3. r.crash = \E k \in 1..Len(a) : a[k].opt = "p" /\ a[k].arg = NULL
      BY <2>1 DEF Means, Para
    <2>4. ASSUME ~r.crash
          PROVE  /\ r.opterr = \E k \in 1..Len(a) : a[k].opt = "?"
                 /\ \A k \in LastOpt(a, {"h"}) : r.host = Text(a[k].arg)
                 /\ \A k \in LastOpt(a, {"p"}) : r.port = Short(a[k].arg)
                 /\ \A k \in LastOpt(a, {"f"}) : r.infile = a[k].arg
                 /\ \A k \in LastOpt(a, {"f", "o"}) :
                        a[k].opt = "o" => r.outfile = Text(a[k].arg)
                 /\ \A k \in LastOpt(a, {"f"}) :
                        LastOpt(a, {"o"}) = {} => r.outfile = basename[a[k].arg]
                 /\ LastOpt(a, {"h"}) = {} => r.host = HOST
                 /\ LastOpt(a, {"p"}) = {} => r.port = PORT
      <3>1. Told(a, Len(a), r) /\ r.opterr \in BOOLEAN
        BY <2>1, <2>4 DEF Means, Para
      <3>2. r.opterr = \E k \in 1..Len(a) : a[k].opt = "?"
        BY <3>1 DEF Told
      <3>3. \A k \in LastOpt(a, {"p"}) : r.port = Short(a[k].arg)
        <4>1. \A k \in LastUpTo(a, Len(a), {"p"}) : a[k].arg # NULL
          BY <2>3, <2>4 DEF LastUpTo
        <4> QED
          BY <2>2, <3>1, <4>1 DEF Told
      <3>4. /\ \A k \in LastOpt(a, {"h"}) : r.host = Text(a[k].arg)
            /\ \A k \in LastOpt(a, {"f"}) : r.infile = a[k].arg
            /\ LastOpt(a, {"h"}) = {} => r.host = HOST
            /\ LastOpt(a, {"p"}) = {} => r.port = PORT
        BY <2>2, <3>1 DEF Told
      <3>5. /\ \A k \in LastOpt(a, {"f", "o"}) :
                   a[k].opt = "o" => r.outfile = Text(a[k].arg)
            /\ \A k \in LastOpt(a, {"f"}) :
                   LastOpt(a, {"o"}) = {} => r.outfile = basename[a[k].arg]
        BY <2>2, <3>1 DEF Told
      <3> QED
        BY <3>2, <3>3, <3>4, <3>5
    <2> QED
      BY <2>3, <2>4 DEF a, r
  <1> QED
    BY <1>1, BaseInvariant, PTL

Underway(p) == pc[p] \notin {"parse", "quit"}

\* Who got past the command line had one that can be read, and who is connected has a
\* server at the port that it asked for.
Meeting ==
    /\ \A p \in Process : Underway(p) => para[p].crash = FALSE
    /\ \A c \in Client : conn[c] # NULL =>
           /\ Underway(conn[c])
           /\ WirePort(para[conn[c]]) = WirePort(para[c])

\* main goes on from stage to stage, and reads its command line once.
LEMMA Onward ==
    ASSUME Base, [Next]_vars
    PROVE  /\ \A p \in Process : pc[p] # "parse" => para'[p] = para[p]
           /\ \A p \in Process : Underway(p) => pc'[p] \notin {"parse", "quit"}
           /\ \A p \in Process : pc'[p] \notin {"parse", "quit"} =>
                  Underway(p) \/ para'[p].crash = FALSE
           /\ \A c \in Client : \/ conn'[c] = conn[c]
                                \/ pc[c] = "connect" /\ conn'[c] \in Server
                                   /\ Answers(conn'[c], c)
  <1>1. CASE UNCHANGED <<pc, para, conn>>
    BY <1>1 DEF Underway
  <1>2. ASSUME NEW p \in Process, Parse(p)
        PROVE  /\ pc[p] = "parse"
               /\ pc'[p] = "quit" \/ para'[p].crash = FALSE
               /\ \A q \in Process \ {p} : pc'[q] = pc[q] /\ para'[q] = para[q]
               /\ conn' = conn
    <2>1. MainStep(p) /\ pc[p] = "parse" /\ (pc'[p] = "quit" \/ para'[p].crash = FALSE)
      BY <1>2, ParseIsMain
    <2> QED
      BY <1>2, <2>1 DEF MainStep, Parse
  <1>3. ASSUME NEW p \in Process, Parse(p) PROVE pc[p] = "parse"
    BY <1>3, ParseIsMain
  <1>4. ASSUME NEW s \in Server, Bind(s)
        PROVE  /\ s \in Process /\ pc[s] = "bind" /\ pc'[s] \in {"bind", "loop"}
               /\ \A q \in Process \ {s} : pc'[q] = pc[q]
               /\ para' = para /\ conn' = conn
    BY <1>4, BindIsMain DEF MainStep
  <1>5. ASSUME NEW c \in Client, Connect(c)
        PROVE  /\ c \in Process /\ pc[c] = "connect" /\ pc'[c] \in {"loop", "refused"}
               /\ \A q \in Process \ {c} : pc'[q] = pc[q]
               /\ para' = para
               /\ \A d \in Client : \/ conn'[d] = conn[d]
                                    \/ d = c /\ conn'[c] \in Server /\ Answers(conn'[c], c)
    <2>1. /\ MainStep(c) /\ c \in Process /\ pc[c] = "connect" /\ para' = para
          /\ pc'[c] \in {"loop", "refused"}
          /\ \/ \E s \in Server : Answers(s, c) /\ conn' = [conn EXCEPT ![c] = s]
             \/ conn' = conn
      BY <1>5, ConnectIsMain
    <2>2. conn \in [Client -> Server \union {NULL}]
      BY DEF Base, TypeOK
    <2>3. \A d \in Client : \/ conn'[d] = conn[d]
                            \/ d = c /\ conn'[c] \in Server /\ Answers(conn'[c], c)
      BY <2>1, <2>2
    <2> QED
      BY <2>1, <2>3 DEF MainStep
  <1>6. CASE \E p \in Process : Parse(p)
    BY <1>2, <1>3, <1>6 DEF Underway
  <1>7. CASE \E s \in Server : Bind(s)
    BY <1>4, <1>7 DEF Underway
  <1>8. CASE \E c \in Client : Connect(c)
    BY <1>5, <1>8 DEF Underway
  <1> QED
    BY <1>1, <1>6, <1>7, <1>8
    DEF Next, Step, Quit, ConnectFails, listen_cb, vars, mainVars

LEMMA MeetingHolds == Spec => []Meeting
  <1>1. Init => Meeting
    BY InitFacts, StartupAssumption DEF Meeting, Underway
  <1>2. Base /\ Meeting /\ [Next]_vars => Meeting'
    <2> SUFFICES ASSUME Base, Meeting, [Next]_vars PROVE Meeting'
      OBVIOUS
    <2>1. /\ \A p \in Process : pc[p] # "parse" => para'[p] = para[p]
          /\ \A p \in Process : Underway(p) => pc'[p] \notin {"parse", "quit"}
          /\ \A p \in Process : pc'[p] \notin {"parse", "quit"} =>
                 Underway(p) \/ para'[p].crash = FALSE
          /\ \A c \in Client : \/ conn'[c] = conn[c]
                               \/ pc[c] = "connect" /\ conn'[c] \in Server
                                  /\ Answers(conn'[c], c)
      BY Onward
    <2>2. /\ \A c \in Client : c \in Process
          /\ \A s \in Server : s \in Process
      BY StartupAssumption
    <2>3. \A p \in Process : pc'[p] \notin {"parse", "quit"} => para'[p].crash = FALSE
      BY <2>1 DEF Meeting, Underway
    <2>4. ASSUME NEW c \in Client, conn'[c] # NULL
          PROVE  /\ pc'[conn'[c]] \notin {"parse", "quit"}
                 /\ WirePort(para'[conn'[c]]) = WirePort(para'[c])
      <3>1. CASE conn'[c] = conn[c]
        <4>1. conn[c] \in Process /\ Underway(conn[c]) /\ pc[c] = "loop"
              /\ WirePort(para[conn[c]]) = WirePort(para[c])
          BY <2>2, <2>4, <3>1 DEF Base, TypeOK, Meeting
        <4>2. para'[conn[c]] = para[conn[c]] /\ para'[c] = para[c]
          BY <2>1, <2>2, <4>1 DEF Underway
        <4> QED
          BY <2>1, <3>1, <4>1, <4>2
      <3>2. CASE pc[c] = "connect" /\ conn'[c] \in Server /\ Answers(conn'[c], c)
        <4>1. conn'[c] \in Process /\ pc[conn'[c]] = "loop" /\ Underway(conn'[c])
              /\ WirePort(para[conn'[c]]) = WirePort(para[c])
          BY <2>2, <3>2 DEF Answers, Listening, Underway
        <4>2. para'[conn'[c]] = para[conn'[c]] /\ para'[c] = para[c]
          BY <2>1, <2>2, <3>2, <4>1
        <4> QED
          BY <2>1, <4>1, <4>2
      <3> QED
        BY <2>1, <3>1, <3>2
    <2> QED
      BY <2>3, <2>4 DEF Meeting, Underway
  <1> QED
    BY <1>1, <1>2, BaseInvariant, PTL DEF Spec

LEMMA AskedIsMeant ==
    ASSUME Base, Meeting, NEW p \in Process, Underway(p)
    PROVE  AskedPort(p) \in Int /\ WirePort(para[p]) = AskedPort(p) % 65536
  <1> DEFINE a == argv[p]
             r == para[p]
             last == LastUpTo(a, Len(a), {"p"})
  <1>1. Len(a) \in Nat /\ Means(a, Len(a), r) /\ r.crash = FALSE /\ IsCommandLine(a)
    BY ParaMeans, StartedWell DEF Underway, Meeting, Base
  <1>2. LastOpt(a, {"p"}) = last
    BY <1>1, LastOptIs
  <1>3. ASSUME NEW k \in last
        PROVE  a[k].arg \in Int /\ r.port = Short(a[k].arg) /\ \A j \in last : j = k
    <2>1. k \in 1..Len(a) /\ a[k].opt = "p"
      BY DEF last, LastUpTo
    <2>2. k \in DOMAIN a
      BY <1>1, <2>1, SequenceLen DEF IsCommandLine
    <2>3. a[k].arg # NULL /\ Told(a, Len(a), r)
      BY <1>1, <2>1 DEF Means
    <2>4. a[k].arg \in Int
      BY <1>1, <2>1, <2>2, <2>3 DEF IsCommandLine
    <2>5. r.port = Short(a[k].arg)
      BY <2>3 DEF Told
    <2>6. ASSUME NEW j \in last PROVE j = k
      BY <1>1 DEF LastUpTo
    <2> QED
      BY <2>4, <2>5, <2>6
  <1>4. CASE last = {}
    <2>1. Asked(p) = {}
      BY <1>2, <1>4 DEF Asked
    <2>2. r.port = PORT
      BY <1>1, <1>4 DEF Means, Told
    <2> QED
      BY <2>1, <2>2 DEF AskedPort, WirePort, PORT
  <1>5. ASSUME NEW k \in last
        PROVE  AskedPort(p) \in Int /\ WirePort(para[p]) = AskedPort(p) % 65536
    <2>1. Asked(p) = {a[k].arg}
      <3>1. Asked(p) = {a[j].arg : j \in last}
        BY <1>2 DEF Asked
      <3> HIDE DEF last
      <3> QED
        BY <1>3, <3>1
    <2>2. AskedPort(p) = a[k].arg
      BY <2>1 DEF AskedPort
    <2>3. r.port % 65536 = a[k].arg % 65536
      BY <1>3, ShortInRange
    <2> QED
      BY <1>3, <2>2, <2>3 DEF WirePort
  <1> QED
    BY <1>4, <1>5

LEMMA SameRest ==
    ASSUME NEW m \in Int, NEW n \in Int, m % 65536 = n % 65536
    PROVE  (m - n) % 65536 = 0
  OBVIOUS

\* A client and its server were given ports, or the default, that are equal in their last
\* 16 bits, whatever the numbers: config.h, line 19, config.c and htons in the two mains.
THEOREM MeetsOnPort == Spec => []MeetOnPort
  <1>1. Base /\ Meeting => MeetOnPort
    <2> SUFFICES ASSUME Base, Meeting, NEW c \in Client, conn[c] # NULL
                 PROVE  (AskedPort(c) - AskedPort(conn[c])) % 65536 = 0
      BY DEF MeetOnPort
    <2>1. conn[c] \in Process /\ c \in Process /\ Underway(conn[c]) /\ Underway(c)
      BY StartupAssumption DEF Base, TypeOK, Meeting, Underway
    <2>2. /\ AskedPort(c) \in Int /\ WirePort(para[c]) = AskedPort(c) % 65536
          /\ AskedPort(conn[c]) \in Int
          /\ WirePort(para[conn[c]]) = AskedPort(conn[c]) % 65536
      BY <2>1, AskedIsMeant
    <2>3. WirePort(para[c]) = WirePort(para[conn[c]])
      BY DEF Meeting
    <2> HIDE DEF AskedPort
    <2> QED
      BY <2>2, <2>3, SameRest
  <1> QED
    BY <1>1, BaseInvariant, MeetingHolds, PTL

-------------------------------------------------------------------------------
(* The lines of the log. *)

\* Nothing was written to a file that had not been created, and no line in a file has a
\* number that its process has not reached.
Numbered ==
    /\ \A w \in written : w[1] \in LogName /\ w[2] \in Nat /\ w[2] <= gen[w[1]]
    /\ \A f \in LogName : \A i \in 1..Len(lines[f]) :
           lines[f][i].n <= count[lines[f][i].by]

Kept == Numbered /\ LinesKept

LEMMA LinesAre ==
    ASSUME Base, NEW f \in LogName
    PROVE  /\ Len(lines[f]) \in Nat /\ lines[f] \in Seq(Line)
           /\ there[f] \in BOOLEAN /\ gen[f] \in Nat
           /\ \A i \in 1..Len(lines[f]) : /\ lines[f][i].by \in Process
                                          /\ lines[f][i].n \in Nat
                                          /\ count[lines[f][i].by] \in Nat
  <1>1. lines[f] \in Seq(Line) /\ count \in [Process -> Nat]
    BY DEF Base, TypeOK, LogTypeOK
  <1>2. Len(lines[f]) \in Nat /\ \A i \in 1..Len(lines[f]) : lines[f][i] \in Line
    BY <1>1, ElementOfSeq, LenProperties
  <1>3. \A l \in Line : l.by \in Process /\ l.n \in Nat
    BY DEF Line
  <1>4. there[f] \in BOOLEAN /\ gen[f] \in Nat
    BY DEF Base, TypeOK, LogTypeOK
  <1> QED
    BY <1>1, <1>2, <1>3, <1>4

LEMMA OpenKeepsLines ==
    ASSUME Base, Kept, NEW f \in LogName, OpenLog(f), UNCHANGED <<lines, count, written>>
    PROVE  Kept'
  <1>1. /\ there'[f] = TRUE
        /\ gen'[f] = IF there[f] THEN gen[f] ELSE gen[f] + 1
        /\ \A g \in LogName \ {f} : there'[g] = there[g] /\ gen'[g] = gen[g]
    BY DEF Base, TypeOK, LogTypeOK, OpenLog
  <1>2. \A g \in LogName : gen[g] \in Nat
    BY LinesAre
  <1>3. ASSUME NEW w \in written
        PROVE  /\ w[1] \in LogName /\ w[2] \in Nat /\ w[2] <= gen'[w[1]]
               /\ gen'[w[1]] = w[2] => (there[w[1]] /\ gen[w[1]] = w[2]) \/ w[1] # f
               /\ w[1] # f => there'[w[1]] = there[w[1]] /\ gen'[w[1]] = gen[w[1]]
    <2>1. w[1] \in LogName /\ w[2] \in Nat /\ w[2] <= gen[w[1]] /\ gen[w[1]] \in Nat
      BY <1>2 DEF Kept, Numbered
    <2>2. CASE w[1] # f
      BY <1>1, <2>1, <2>2
    <2>3. CASE w[1] = f
      BY <1>1, <2>1, <2>3
    <2> QED
      BY <2>2, <2>3
  <1>4. Numbered'
    BY <1>3 DEF Kept, Numbered
  <1>5. LinesKept'
    BY <1>3 DEF Kept, LinesKept
  <1> QED
    BY <1>4, <1>5 DEF Kept

LEMMA WriteKeepsLines ==
    ASSUME Base, Kept, NEW p \in Process, writeLog(p)
    PROVE  Kept'
  <1> DEFINE f == set[p].logFile
             line == [by |-> p, n |-> count[p] + 1, lvl |-> Head(calls[p]).lvl]
  <1>1. /\ UNCHANGED <<there, gen>>
        /\ \/ UNCHANGED <<lines, written, count>>
           \/ /\ count' = [count EXCEPT ![p] = @ + 1]
              /\ UNCHANGED <<lines, written>>
           \/ /\ count' = [count EXCEPT ![p] = @ + 1]
              /\ f \in LogName /\ there[f] /\ gen[f] = fd[p]
              /\ lines' = [lines EXCEPT ![f] = AppendLine(@, line)]
              /\ written' = written \union {<<f, fd[p], line>>}
    BY DEF writeLog
  <1>2. line.by = p /\ line.n = count[p] + 1 /\ count[p] \in Nat
    BY DEF Base, TypeOK, LogTypeOK
  <1> HIDE DEF line, f
  <1>3. CASE UNCHANGED <<lines, written, count>>
    BY <1>1, <1>3 DEF Kept, Numbered, LinesKept
  <1> SUFFICES ASSUME count' = [count EXCEPT ![p] = @ + 1]
               PROVE  Kept'
    BY <1>1, <1>3
  <1>4. /\ count'[p] = count[p] + 1
        /\ \A q \in Process \ {p} : count'[q] = count[q]
    BY DEF Base, TypeOK, LogTypeOK
  <1>5. \A g \in LogName : \A i \in 1..Len(lines[g]) :
           lines[g][i].n <= count'[lines[g][i].by] /\ lines[g][i].n \in Nat
    <2>1. Numbered
      BY DEF Kept
    <2>2. \A q \in Process : count[q] \in Nat /\ (count'[q] = count[q] \/ count'[q] = count[q] + 1)
      BY <1>4 DEF Base, TypeOK, LogTypeOK
    <2> SUFFICES ASSUME NEW g \in LogName, NEW i \in 1..Len(lines[g])
                 PROVE  lines[g][i].n <= count'[lines[g][i].by] /\ lines[g][i].n \in Nat
      OBVIOUS
    <2>3. lines[g][i].by \in Process /\ lines[g][i].n \in Nat
      BY LinesAre
    <2>4. lines[g][i].n <= count[lines[g][i].by]
      BY <2>1 DEF Numbered
    <2> QED
      BY <2>2, <2>3, <2>4
  <1>6. CASE UNCHANGED <<lines, written>>
    BY <1>1, <1>5, <1>6 DEF Kept, Numbered, LinesKept
  <1>7. CASE /\ f \in LogName /\ there[f] /\ gen[f] = fd[p]
             /\ lines' = [lines EXCEPT ![f] = AppendLine(@, line)]
             /\ written' = written \union {<<f, fd[p], line>>}
    <2> DEFINE n == Len(lines[f])
    <2>1. /\ lines'[f] = lines[f] \o <<line>>
          /\ \A g \in LogName \ {f} : lines'[g] = lines[g]
      BY <1>7 DEF Base, Shapes, AppendLine
    <2>2. n \in Nat /\ lines[f] \in Seq(Line) /\ gen[f] \in Nat
      BY <1>7, LinesAre
    <2>3. /\ Len(lines'[f]) = n + 1
          /\ \A i \in 1..n : lines'[f][i] = lines[f][i]
          /\ lines'[f][n + 1] = line
      BY <2>1, <2>2
    <2> HIDE DEF n
    <2>4. ASSUME NEW i \in 1..n + 1
          PROVE  \/ i \in 1..n /\ lines'[f][i] = lines[f][i]
                 \/ i = n + 1 /\ lines'[f][i] = line
      BY <2>2, <2>3
    <2>5. \A i \in 1..n : /\ lines[f][i].n <= count'[lines[f][i].by]
                          /\ lines[f][i].n \in Nat
                          /\ lines[f][i].by = p => lines[f][i].n < line.n
      <3>1. \A i \in 1..n : /\ lines[f][i].n \in Nat
                            /\ lines[f][i].n <= count[lines[f][i].by]
        BY <1>7, LinesAre DEF n, Kept, Numbered
      <3>2. \A i \in 1..n : lines[f][i].n <= count'[lines[f][i].by]
        BY <1>5, <1>7 DEF n
      <3> QED
        BY <1>2, <3>1, <3>2
    <2>6. ASSUME NEW g \in LogName, NEW i \in 1..Len(lines'[g])
          PROVE  lines'[g][i].n <= count'[lines'[g][i].by]
      <3>1. CASE g = f
        <4>1. i \in 1..n + 1
          BY ONLY <2>3, <2>6, <3>1
        <4>2. \/ i \in 1..n /\ lines'[f][i] = lines[f][i]
              \/ i = n + 1 /\ lines'[f][i] = line
          BY ONLY <2>4, <4>1
        <4>3. line.n <= count'[line.by]
          BY ONLY <1>2, <1>4
        <4> QED
          BY ONLY <2>5, <3>1, <4>2, <4>3
      <3>2. CASE g # f
        BY <1>5, <2>1, <3>2
      <3> QED
        BY <3>1, <3>2
    <2>7. ASSUME NEW w \in written'
          PROVE  w[1] \in LogName /\ w[2] \in Nat /\ w[2] <= gen'[w[1]]
      BY <1>1, <1>7, <2>2 DEF Kept, Numbered
    <2>8. ASSUME NEW w \in written', there'[w[1]], gen'[w[1]] = w[2]
          PROVE  \E i \in 1..Len(lines'[w[1]]) : lines'[w[1]][i] = w[3]
      <3>1. CASE w = <<f, fd[p], line>>
        <4>1. n + 1 \in 1..Len(lines'[f]) /\ w[1] = f /\ w[3] = line
          BY <2>2, <2>3, <3>1
        <4> QED
          BY <2>3, <4>1
      <3>2. CASE w \in written
        <4>1. PICK i \in 1..Len(lines[w[1]]) : lines[w[1]][i] = w[3]
          BY <1>1, <2>8, <3>2 DEF Kept, LinesKept
        <4>2. w[1] \in LogName
          BY <3>2 DEF Kept, Numbered
        <4>3. CASE w[1] = f
          <5>1. i \in 1..n /\ i \in 1..n + 1
            BY <2>2, <4>1, <4>3 DEF n
          <5> QED
            BY <2>3, <4>1, <4>3, <5>1
        <4>4. CASE w[1] # f
          BY <2>1, <4>1, <4>2, <4>4
        <4> QED
          BY <4>3, <4>4
      <3> QED
        BY <1>7, <3>1, <3>2
    <2>9. ASSUME NEW g \in LogName, NEW i \in 1..Len(lines'[g]), NEW j \in 1..Len(lines'[g]),
                 i < j, lines'[g][i].by = lines'[g][j].by
          PROVE  lines'[g][i].n < lines'[g][j].n
      <3>1. CASE g # f
        <4>1. lines'[g] = lines[g]
          BY <2>1, <3>1
        <4> QED
          BY <2>9, <4>1 DEF Kept, LinesKept
      <3>2. CASE g = f
        <4>1. i \in 1..n + 1 /\ j \in 1..n + 1
          BY <2>3, <3>2
        <4>2. i \in 1..n /\ lines'[f][i] = lines[f][i]
          BY <2>2, <2>4, <2>9, <4>1
        <4>3. CASE j \in 1..n /\ lines'[f][j] = lines[f][j]
          BY <1>7, <2>9, <3>2, <4>2, <4>3 DEF n, Kept, LinesKept
        <4>4. CASE j = n + 1 /\ lines'[f][j] = line
          BY <1>2, <2>5, <2>9, <3>2, <4>2, <4>4
        <4> QED
          BY <2>4, <4>1, <4>3, <4>4
      <3> QED
        BY <3>1, <3>2
    <2>10. Numbered'
      BY <2>6, <2>7 DEF Numbered
    <2>11. LinesKept'
      BY <2>8, <2>9 DEF LinesKept
    <2> QED
      BY <2>10, <2>11 DEF Kept
  <1> QED
    BY <1>1, <1>3, <1>6, <1>7

LEMMA RemoveKeepsLines ==
    ASSUME Base, Kept, NEW p \in Process, flushLog_remove(p)
    PROVE  Kept'
  <1> DEFINE f == set[p].logFile
  <1>1. /\ UNCHANGED <<gen, count, written>>
        /\ \/ UNCHANGED <<there, lines>>
           \/ /\ f \in LogName
              /\ there' = [there EXCEPT ![f] = FALSE]
              /\ lines' = [lines EXCEPT ![f] = <<>>]
    BY DEF flushLog_remove, Removable
  <1> HIDE DEF f
  <1>2. CASE UNCHANGED <<there, lines>>
    BY <1>1, <1>2 DEF Kept, Numbered, LinesKept
  <1>3. CASE /\ f \in LogName
             /\ there' = [there EXCEPT ![f] = FALSE]
             /\ lines' = [lines EXCEPT ![f] = <<>>]
    <2>1. /\ there'[f] = FALSE /\ lines'[f] = <<>>
          /\ \A g \in LogName \ {f} : lines'[g] = lines[g] /\ there'[g] = there[g]
      BY <1>3 DEF Base, Shapes, TypeOK, LogTypeOK
    <2>2. ASSUME NEW g \in LogName, NEW i \in 1..Len(lines'[g])
          PROVE  g # f /\ lines'[g] = lines[g]
      BY <2>1
    <2>3. ASSUME NEW w \in written, there'[w[1]]
          PROVE  there[w[1]] /\ lines'[w[1]] = lines[w[1]]
      <3>1. w[1] \in LogName
        BY DEF Kept, Numbered
      <3> QED
        BY <2>1, <2>3, <3>1
    <2>4. Numbered'
      BY <1>1, <2>2 DEF Kept, Numbered
    <2>5. LinesKept'
      BY <1>1, <2>2, <2>3 DEF Kept, LinesKept
    <2> QED
      BY <2>4, <2>5 DEF Kept
  <1> QED
    BY <1>1, <1>2, <1>3

LEMMA LogKeepsLines ==
    ASSUME Base, Kept, NEW p \in Process, LogStep(p)
    PROVE  Kept'
  <1>1. CASE writeLog_open(p)
    BY <1>1, OpenKeepsLines DEF writeLog_open, history
  <1>2. CASE writeLog(p)
    BY <1>2, WriteKeepsLines
  <1>3. CASE flushLog_remove(p)
    BY <1>3, RemoveKeepsLines
  <1>4. CASE flushLog_create(p) /\ set[p].logFile \in LogName
    BY <1>4, OpenKeepsLines DEF flushLog_create, history
  <1>5. CASE UNCHANGED <<there, gen, lines, count, written>>
    BY <1>5 DEF Kept, Numbered, LinesKept
  <1>6. CASE flushLog_create(p) /\ set[p].logFile \notin LogName
    BY <1>5, <1>6 DEF flushLog_create, history
  <1> QED
    BY <1>1, <1>2, <1>3, <1>4, <1>5, <1>6
    DEF LogStep, setLogFile, setLogSilentMode, setLineWrap, setLogDebugLevel, flushLog,
        loadConfig, fileVars, history

\* A line that was written to a log file stays there, in the order in which its process
\* wrote, as long as the file is not removed, whoever else writes to it: writeLog.
THEOREM LinesAreKept == Spec => []LinesKept
  <1>1. Init => Kept
    <2> SUFFICES ASSUME Init PROVE Kept
      OBVIOUS
    <2>1. written = {} /\ \A f \in LogName : lines[f] = <<>>
      BY DEF Init, LogInit
    <2>2. \A f \in LogName : 1..Len(lines[f]) = {}
      BY <2>1
    <2> QED
      BY <2>1, <2>2 DEF Kept, Numbered, LinesKept
  <1>2. Base /\ Kept /\ [Next]_vars => Kept'
    <2> SUFFICES ASSUME Base, Kept, [Next]_vars PROVE Kept'
      OBVIOUS
    <2>1. CASE UNCHANGED <<there, gen, lines, count, written>>
      BY <2>1 DEF Kept, Numbered, LinesKept
    <2>2. CASE Next
      BY <2>1, <2>2, StepOfOne, LogKeepsLines, MainIsQuiet
    <2> QED
      BY <2>1, <2>2 DEF vars, logVars, fileVars, history
  <1>3. Kept => LinesKept
    BY DEF Kept
  <1> QED
    BY <1>1, <1>2, <1>3, BaseInvariant, PTL DEF Spec

-------------------------------------------------------------------------------
(* The calls that set something, one after the other. *)

SetOps == {"setLogFile", "setLogSilentMode", "setLineWrap", "setLogDebugLevel"}

Pending(c, op) == \E i \in 1..Len(c) : c[i].op = op

\* From c to d the first call is done, wholly or in part; one that sets something is done
\* wholly, and a message takes its place.
Proceeds(c, d) ==
    /\ IsSequence(c) /\ IsSequence(d) /\ Len(c) > 0
    /\ \/ d = c /\ c[1].op \notin SetOps
       \/ Popped(c, d) /\ c[1].op \notin SetOps
       \/ \E x : Swapped(c, d, x) /\ x.op \notin SetOps

LEMMA Proceeding ==
    ASSUME NEW c, NEW d, Proceeds(c, d), NEW op \in SetOps
    PROVE  /\ \A i \in 1..Len(d) : d[i].op = op => \E j \in 1..Len(c) : d[i] = c[j]
           /\ Pending(c, op) => Pending(d, op) \/ c[1].op = op
           /\ c[Len(c)].op = op /\ Len(c) > 1 => Len(d) > 0 /\ d[Len(d)] = c[Len(c)]
           /\ c[1].op = op /\ Len(c) = 1 => ~Pending(d, op)
  <1>1. Len(c) \in Nat \ {0} /\ Len(d) \in Nat
    BY SequenceLen DEF Proceeds
  <1>2. CASE d = c /\ c[1].op \notin SetOps
    BY <1>1, <1>2 DEF Pending
  <1>3. CASE Popped(c, d) /\ c[1].op \notin SetOps
    <2>1. /\ Len(d) = Len(c) - 1
          /\ \A i \in 1..Len(d) : i + 1 \in 1..Len(c) /\ d[i] = c[i + 1]
          /\ c[1].op # op
      BY <1>3 DEF Popped
    <2>2. \A i \in 1..Len(d) : d[i].op = op => \E j \in 1..Len(c) : d[i] = c[j]
      BY <2>1
    <2>3. ASSUME Pending(c, op) PROVE Pending(d, op)
      <3>1. PICK j \in 1..Len(c) : c[j].op = op
        BY <2>3 DEF Pending
      <3>2. j - 1 \in 1..Len(d) /\ (j - 1) + 1 = j
        BY <1>1, <2>1, <3>1
      <3>3. d[j - 1] = c[j]
        BY <2>1, <3>2
      <3> QED
        BY <3>1, <3>2, <3>3 DEF Pending
    <2>4. ASSUME Len(c) > 1 PROVE Len(d) > 0 /\ d[Len(d)] = c[Len(c)]
      <3>1. Len(d) \in 1..Len(d) /\ Len(d) + 1 = Len(c)
        BY <1>1, <2>1, <2>4
      <3> QED
        BY <1>1, <2>1, <3>1
    <2> QED
      BY <2>1, <2>2, <2>3, <2>4
  <1>4. ASSUME NEW x, Swapped(c, d, x), x.op \notin SetOps
        PROVE  /\ \A i \in 1..Len(d) : d[i].op = op => \E j \in 1..Len(c) : d[i] = c[j]
               /\ Pending(c, op) => Pending(d, op) \/ c[1].op = op
               /\ c[Len(c)].op = op /\ Len(c) > 1 => Len(d) > 0 /\ d[Len(d)] = c[Len(c)]
               /\ c[1].op = op /\ Len(c) = 1 => ~Pending(d, op)
    <2>1. /\ Len(d) = Len(c) /\ d[1].op # op
          /\ \A i \in 2..Len(d) : d[i] = c[i]
      BY <1>4 DEF Swapped
    <2>2. \A i \in 1..Len(d) : i = 1 \/ i \in 2..Len(d)
      BY <1>1
    <2>3. \A i \in 1..Len(d) : d[i].op = op => \E j \in 1..Len(c) : d[i] = c[j]
      BY <2>1, <2>2
    <2>4. ASSUME Pending(c, op), c[1].op # op PROVE Pending(d, op)
      BY <2>1, <2>2, <2>4 DEF Pending
    <2>5. ASSUME Len(c) > 1 PROVE Len(d) > 0 /\ d[Len(d)] = c[Len(c)]
      BY <1>1, <2>1, <2>5
    <2>6. ASSUME Len(c) = 1 PROVE ~Pending(d, op)
      BY <1>1, <2>1, <2>6 DEF Pending
    <2> QED
      BY <2>3, <2>4, <2>5, <2>6
  <1> QED
    BY <1>2, <1>3, <1>4 DEF Proceeds

\* A step in the logger that does not read the configuration.
LEMMA LogProceeds ==
    ASSUME Base, NEW p \in Process, OwnStep(p), ~Loading(p)
    PROVE  LET e == calls[p][1]
           IN  /\ Proceeds(calls[p], calls'[p])
               /\ set'[p].silentMode = IF e.op = "setLogSilentMode" THEN e.on
                                                                  ELSE set[p].silentMode
               /\ set'[p].lineWrap = IF e.op = "setLineWrap" THEN e.on ELSE set[p].lineWrap
               /\ set'[p].dbgLevel = IF e.op = "setLogDebugLevel" THEN DebugLevel(e.level)
                                                                ELSE set[p].dbgLevel
               /\ set'[p].logFile = IF e.op = "setLogFile" THEN e.file ELSE set[p].logFile
  <1> DEFINE c == calls[p]
             d == calls'[p]
             e == c[1]
             s == set[p]
             t == set'[p]
  <1>1. IsSequence(c) /\ IsSequence(d) /\ Len(c) \in Nat \ {0}
    <2>1. CallsOf(p)'
      BY LogCalls
    <2> QED
      BY <2>1, SequenceLen DEF Base, CallsOf, OwnStep
  <1>2. s = [dbgLevel |-> s.dbgLevel, logFile |-> s.logFile, silentMode |-> s.silentMode,
             lineWrap |-> s.lineWrap]
    <2>1. s \in Settings
      BY DEF Base, TypeOK, LogTypeOK
    <2> HIDE DEF s
    <2> QED
      BY <2>1 DEF Settings
  <1>3. /\ Message(LOGGER).op \notin SetOps
        /\ [op |-> "remove"].op \notin SetOps
        /\ [op |-> "create"].op \notin SetOps
    BY DEF Message, SetOps
  <1>4. CASE Setting1(p)
    <2>1. Swapped(c, d, Message(LOGGER))
      BY <1>4 DEF Setting1, SetsTo
    <2>2. \/ e.op = "setLogFile" /\ t = [s EXCEPT !.logFile = e.file]
          \/ e.op = "setLogSilentMode" /\ t = [s EXCEPT !.silentMode = e.on]
          \/ e.op = "setLineWrap" /\ t = [s EXCEPT !.lineWrap = e.on]
          \/ e.op = "setLogDebugLevel" /\ t = [s EXCEPT !.dbgLevel = DebugLevel(e.level)]
      BY <1>4 DEF Setting1, SetsTo
    <2> HIDE DEF c, d, e, s, t
    <2>3. Proceeds(c, d)
      BY <1>1, <1>3, <2>1 DEF Proceeds
    <2>4. /\ t.silentMode = IF e.op = "setLogSilentMode" THEN e.on ELSE s.silentMode
          /\ t.lineWrap = IF e.op = "setLineWrap" THEN e.on ELSE s.lineWrap
          /\ t.dbgLevel = IF e.op = "setLogDebugLevel" THEN DebugLevel(e.level)
                                                       ELSE s.dbgLevel
          /\ t.logFile = IF e.op = "setLogFile" THEN e.file ELSE s.logFile
      BY <1>2, <2>2
    <2> QED
      BY <2>3, <2>4 DEF c, d, e, s, t
  <1>5. CASE Opening(p) \/ Writing(p) \/ Flushing(p)
    <2>1. e.op \in {"writeLog", "flushLog", "remove", "create"} /\ t = s
      BY <1>5 DEF Opening, Writing, Flushing
    <2>2. \/ d = c \/ Popped(c, d)
          \/ Swapped(c, d, [op |-> "remove"]) \/ Swapped(c, d, [op |-> "create"])
          \/ Swapped(c, d, Message(LOGGER))
      BY <1>5 DEF Opening, Writing, Flushing
    <2> HIDE DEF c, d, s, t
    <2>3. e.op \notin SetOps
      BY <2>1 DEF SetOps
    <2>4. Proceeds(c, d)
      BY <1>1, <1>3, <2>2, <2>3 DEF Proceeds
    <2> QED
      BY <2>1, <2>4 DEF c, d, s, t
  <1> QED
    BY <1>4, <1>5 DEF OwnStep

-------------------------------------------------------------------------------
(* The configuration. *)

\* The lines that count.
Asks == IF config.there THEN TextLines(config) ELSE <<>>

LastOf(var) == LastLine(Asks, var)

SilentGood(b) ==
    /\ \A k \in LastOf("silent") : /\ Asks[k].val = "true" => b = TRUE
                                   /\ Asks[k].val = "false" => b = FALSE
    /\ LastOf("silent") = {} => b = FALSE

WrapGood(b) ==
    /\ \A k \in LastOf("wrap") : /\ Asks[k].val = "true" => b = TRUE
                                 /\ Asks[k].val = "false" => b = FALSE
    /\ LastOf("wrap") = {} => b = TRUE

LevelGood(n) ==
    /\ \A k \in LastOf("debug") : n = Asks[k].val
    /\ LastOf("debug") = {} => n = DEBUG

\* Every value that the calls in c set is the one that the configuration asks for, and what
\* none of them sets is so already.
SilentDue(c, s) ==
    /\ \A i \in 1..Len(c) : c[i].op = "setLogSilentMode" => SilentGood(c[i].on)
    /\ Pending(c, "setLogSilentMode") \/ SilentGood(s.silentMode)

WrapDue(c, s) ==
    /\ \A i \in 1..Len(c) : c[i].op = "setLineWrap" => WrapGood(c[i].on)
    /\ Pending(c, "setLineWrap") \/ WrapGood(s.lineWrap)

LevelDue(c, s) ==
    /\ \A i \in 1..Len(c) : c[i].op = "setLogDebugLevel" => LevelGood(c[i].level)
    /\ \/ Pending(c, "setLogDebugLevel")
       \/ \E n : LevelGood(n) /\ s.dbgLevel = DebugLevel(n)

\* The name of the log comes last.
FileDue(c, s) ==
    \/ /\ Len(c) > 0
       /\ c[Len(c)].op = "setLogFile" /\ c[Len(c)].file = "server.log"
    \/ /\ ~Pending(c, "setLogFile")
       /\ s.logFile = "server.log"

AllDue(c, s) == SilentDue(c, s) /\ WrapDue(c, s) /\ LevelDue(c, s) /\ FileDue(c, s)

\* Before the configuration is read.
Fresh(p) ==
    /\ pc[p] = "parse"
    /\ Len(calls[p]) = 2
    /\ calls[p][1].op = "loadConfig"
    /\ calls[p][2].op = "setLogFile" /\ calls[p][2].file = "server.log"
    /\ set[p].silentMode = FALSE /\ set[p].lineWrap = TRUE /\ set[p].dbgLevel = DEBUG
    /\ shown[p] = 0

LEMMA DueStays ==
    ASSUME Base, NEW p \in Process, OwnStep(p), ~Loading(p), AllDue(calls[p], set[p])
    PROVE  AllDue(calls'[p], set'[p])
  <1> DEFINE c == calls[p]
             d == calls'[p]
             s == set[p]
             t == set'[p]
  <1>1. /\ Proceeds(c, d)
        /\ t.silentMode = IF c[1].op = "setLogSilentMode" THEN c[1].on ELSE s.silentMode
        /\ t.lineWrap = IF c[1].op = "setLineWrap" THEN c[1].on ELSE s.lineWrap
        /\ t.dbgLevel = IF c[1].op = "setLogDebugLevel" THEN DebugLevel(c[1].level)
                                                      ELSE s.dbgLevel
        /\ t.logFile = IF c[1].op = "setLogFile" THEN c[1].file ELSE s.logFile
    BY LogProceeds
  <1>2. AllDue(c, s)
    OBVIOUS
  <1> HIDE DEF c, d, s, t
  <1>3. Len(c) \in Nat \ {0} /\ 1 \in 1..Len(c)
    BY <1>1, SequenceLen DEF Proceeds
  <1>4. SilentDue(d, t)
    <2>1. /\ \A i \in 1..Len(d) : d[i].op = "setLogSilentMode" =>
                 \E j \in 1..Len(c) : d[i] = c[j]
          /\ Pending(c, "setLogSilentMode") =>
                 Pending(d, "setLogSilentMode") \/ c[1].op = "setLogSilentMode"
      BY <1>1, Proceeding DEF SetOps
    <2>2. SilentDue(c, s)
      BY <1>2 DEF AllDue
    <2>3. \A i \in 1..Len(d) : d[i].op = "setLogSilentMode" => SilentGood(d[i].on)
      BY <2>1, <2>2 DEF SilentDue
    <2>4. Pending(d, "setLogSilentMode") \/ SilentGood(t.silentMode)
      BY <1>1, <1>3, <2>1, <2>2 DEF SilentDue
    <2> QED
      BY <2>3, <2>4 DEF SilentDue
  <1>5. WrapDue(d, t)
    <2>1. /\ \A i \in 1..Len(d) : d[i].op = "setLineWrap" => \E j \in 1..Len(c) : d[i] = c[j]
          /\ Pending(c, "setLineWrap") => Pending(d, "setLineWrap") \/ c[1].op = "setLineWrap"
      BY <1>1, Proceeding DEF SetOps
    <2>2. WrapDue(c, s)
      BY <1>2 DEF AllDue
    <2>3. \A i \in 1..Len(d) : d[i].op = "setLineWrap" => WrapGood(d[i].on)
      BY <2>1, <2>2 DEF WrapDue
    <2>4. Pending(d, "setLineWrap") \/ WrapGood(t.lineWrap)
      BY <1>1, <1>3, <2>1, <2>2 DEF WrapDue
    <2> QED
      BY <2>3, <2>4 DEF WrapDue
  <1>6. LevelDue(d, t)
    <2>1. /\ \A i \in 1..Len(d) : d[i].op = "setLogDebugLevel" =>
                 \E j \in 1..Len(c) : d[i] = c[j]
          /\ Pending(c, "setLogDebugLevel") =>
                 Pending(d, "setLogDebugLevel") \/ c[1].op = "setLogDebugLevel"
      BY <1>1, Proceeding DEF SetOps
    <2>2. LevelDue(c, s)
      BY <1>2 DEF AllDue
    <2>3. \A i \in 1..Len(d) : d[i].op = "setLogDebugLevel" => LevelGood(d[i].level)
      BY <2>1, <2>2 DEF LevelDue
    <2>4. \/ Pending(d, "setLogDebugLevel")
          \/ \E n : LevelGood(n) /\ t.dbgLevel = DebugLevel(n)
      BY <1>1, <1>3, <2>1, <2>2 DEF LevelDue
    <2> QED
      BY <2>3, <2>4 DEF LevelDue
  <1>7. FileDue(d, t)
    <2>1. /\ \A i \in 1..Len(d) : d[i].op = "setLogFile" => \E j \in 1..Len(c) : d[i] = c[j]
          /\ c[Len(c)].op = "setLogFile" /\ Len(c) > 1 => Len(d) > 0 /\ d[Len(d)] = c[Len(c)]
          /\ c[1].op = "setLogFile" /\ Len(c) = 1 => ~Pending(d, "setLogFile")
      BY <1>1, Proceeding DEF SetOps
    <2>2. FileDue(c, s)
      BY <1>2 DEF AllDue
    <2>3. CASE /\ Len(c) > 1
               /\ c[Len(c)].op = "setLogFile" /\ c[Len(c)].file = "server.log"
      BY <2>1, <2>3 DEF FileDue
    <2>4. CASE /\ Len(c) = 1
               /\ c[1].op = "setLogFile" /\ c[1].file = "server.log"
      BY <1>1, <2>1, <2>4 DEF FileDue
    <2>5. CASE ~Pending(c, "setLogFile") /\ s.logFile = "server.log"
      <3>1. c[1].op # "setLogFile" /\ ~Pending(d, "setLogFile")
        BY <1>3, <2>1, <2>5 DEF Pending
      <3> QED
        BY <1>1, <2>5, <3>1 DEF FileDue
    <2>6. Len(c) > 1 \/ Len(c) = 1
      <3>1. \A n \in Nat \ {0} : n > 1 \/ n = 1
        OBVIOUS
      <3> QED
        BY <1>3, <3>1, Zenon
    <2>7. Len(c) = 1 => c[Len(c)] = c[1]
      OBVIOUS
    <2> QED
      BY <2>2, <2>3, <2>4, <2>5, <2>6, <2>7 DEF FileDue
  <1> QED
    BY <1>4, <1>5, <1>6, <1>7 DEF AllDue, c, d, s, t

\* What is wished when all lines are read is what the configuration asks for.
LEMMA WishGood ==
    ASSUME Base, NEW p \in Process, config.there, Fresh(p), NEW w,
           WishMeans(set[p], TextLines(config), Len(TextLines(config)), w)
    PROVE  SilentGood(w.silent) /\ WrapGood(w.wrap) /\ LevelGood(w.debug)
  <1>1. /\ Asks = TextLines(config)
        /\ \A var : LastOf(var) = LastLineTo(Asks, Len(Asks), var)
    BY DEF Asks, LastOf, LastLine, LastLineTo
  <1>2. /\ LastOf("silent") = LastLineTo(Asks, Len(Asks), "silent")
        /\ LastOf("wrap") = LastLineTo(Asks, Len(Asks), "wrap")
        /\ LastOf("debug") = LastLineTo(Asks, Len(Asks), "debug")
    BY <1>1
  <1>3. WishMeans(set[p], Asks, Len(Asks), w)
    BY <1>1
  <1>4. set[p].silentMode = FALSE /\ set[p].lineWrap = TRUE /\ set[p].dbgLevel = DEBUG
    BY DEF Fresh
  <1>5. SilentGood(w.silent)
    BY <1>2, <1>3, <1>4 DEF WishMeans, SilentGood
  <1>6. WrapGood(w.wrap)
    BY <1>2, <1>3, <1>4 DEF WishMeans, WrapGood
  <1>7. LevelGood(w.debug)
    BY <1>2, <1>3, <1>4 DEF WishMeans, LevelGood
  <1> QED
    BY <1>5, <1>6, <1>7

LEMMA LoadMakesDue ==
    ASSUME Base, NEW p \in Process, Fresh(p), OwnStep(p), Loading(p)
    PROVE  Fresh(p)' \/ AllDue(calls'[p], set'[p])
  <1> DEFINE c == calls[p]
             d == calls'[p]
             s == set[p]
             t == set'[p]
             text == TextLines(config)
  <1>1. /\ IsSequence(c) /\ c # <<>> /\ Len(c) = 2
        /\ c[2].op = "setLogFile" /\ c[2].file = "server.log"
        /\ s.silentMode = FALSE /\ s.lineWrap = TRUE /\ s.dbgLevel = DEBUG
    BY DEF Base, CallsOf, Fresh, OwnStep
  <1>2. CASE set' = set /\ calls' = calls
    BY <1>2 DEF Fresh, OwnStep, Loading
  <1>3. CASE ~config.there /\ Swapped(c, d, Message(LOGGER)) /\ set' = set
    <2>1. /\ Len(d) = 2 /\ d[1].op = "writeLog" /\ d[2] = c[2]
          /\ t = s
      BY <1>1, <1>3, MessageGood DEF Swapped
    <2>2. LastOf("silent") = {} /\ LastOf("wrap") = {} /\ LastOf("debug") = {}
      <3>1. Asks = <<>>
        BY <1>3 DEF Asks
      <3>2. Len(Asks) = 0
        BY <3>1
      <3>3. 1..Len(Asks) = {}
        BY <3>2
      <3> QED
        BY <3>3 DEF LastOf, LastLine
    <2> HIDE DEF c, d, s, t
    <2>3. SilentGood(t.silentMode) /\ WrapGood(t.lineWrap) /\ LevelGood(t.dbgLevel)
      BY <1>1, <2>1, <2>2 DEF SilentGood, WrapGood, LevelGood
    <2>4. t.dbgLevel = DebugLevel(t.dbgLevel)
      BY <1>1, <2>1 DEF DebugLevel, DEBUG, INFO, VERBOSE
    <2>5. \A i \in 1..Len(d) : i = 1 \/ i = 2
      BY <2>1
    <2>6. SilentDue(d, t) /\ WrapDue(d, t) /\ LevelDue(d, t)
      BY <1>1, <2>1, <2>3, <2>4, <2>5 DEF SilentDue, WrapDue, LevelDue
    <2>7. FileDue(d, t)
      BY <1>1, <2>1 DEF FileDue
    <2> QED
      BY <2>6, <2>7 DEF AllDue, d, t
  <1>4. CASE config.there /\ alive' = alive
             /\ \E unset \in [1..Len(text) -> BOOLEAN] :
                   LET w == Wanted(s, text, unset)
                   IN  d = Apply(w) \o Tail(c)
    <2>1. PICK unset \in [1..Len(text) -> BOOLEAN] :
             d = Apply(Wanted(s, text, unset)) \o Tail(c)
      BY <1>4
    <2> DEFINE w == Wanted(s, text, unset)
               m == Apply(w)
    <2>2. WishMeans(s, text, Len(text), w) /\ w \in Wish
      BY WantedWish
    <2>3. Applied(w, m)
      BY <2>2, ApplyApplied
    <2>4. d = m \o Tail(c)
      BY <2>1
    <2> HIDE DEF w, m
    <2>5. SilentGood(w.silent) /\ WrapGood(w.wrap) /\ LevelGood(w.debug)
      BY <1>4, <2>2, WishGood
    <2> HIDE DEF c, d, s, t, text
    <2>6. IsSequence(m) /\ Len(m) \in Nat
      BY <2>3, SequenceLen DEF Applied
    <2>7. /\ Len(d) = Len(m) + 1
          /\ \A i \in 1..Len(m) : d[i] = m[i]
          /\ d[Len(m) + 1] = c[2]
      <3>0. IsSequence(c) /\ c # <<>> /\ IsSequence(m)
        BY <1>1, <2>6
      <3>1. /\ Len(m \o Tail(c)) = Len(m) + Len(c) - 1
            /\ \A i \in 1..Len(m) : (m \o Tail(c))[i] = m[i]
            /\ \A i \in 2..Len(c) : (m \o Tail(c))[Len(m) + i - 1] = c[i]
        BY <3>0, PutBefore
      <3>2. d[Len(m) + 2 - 1] = c[2]
        BY <1>1, <2>4, <3>1
      <3>3. Len(m) + 2 - 1 = Len(m) + 1
        BY <2>6
      <3> QED
        BY <1>1, <2>4, <2>6, <3>1, <3>2, <3>3
    <2>8. \A i \in 1..Len(d) : \/ i \in 1..Len(m) /\ d[i] = m[i]
                               \/ d[i].op = "setLogFile"
      BY <1>1, <2>6, <2>7
    <2>9. \A i \in 1..Len(m) : i \in 1..Len(d)
      BY <2>6, <2>7
    <2>10. SilentDue(d, t)
      <3>1. Pending(d, "setLogSilentMode")
        BY <2>3, <2>7, <2>9 DEF Applied, Pending
      <3>2. \A i \in 1..Len(m) : m[i].op = "setLogSilentMode" => m[i].on = w.silent
        BY <2>3 DEF Applied
      <3> QED
        BY <2>5, <2>8, <3>1, <3>2 DEF SilentDue
    <2>11. WrapDue(d, t)
      <3>1. Pending(d, "setLineWrap")
        BY <2>3, <2>7, <2>9 DEF Applied, Pending
      <3>2. \A i \in 1..Len(m) : m[i].op = "setLineWrap" => m[i].on = w.wrap
        BY <2>3 DEF Applied
      <3> QED
        BY <2>5, <2>8, <3>1, <3>2 DEF WrapDue
    <2>12. LevelDue(d, t)
      <3>1. Pending(d, "setLogDebugLevel")
        BY <2>3, <2>7, <2>9 DEF Applied, Pending
      <3>2. \A i \in 1..Len(m) : m[i].op = "setLogDebugLevel" => m[i].level = w.debug
        BY <2>3 DEF Applied
      <3> QED
        BY <2>5, <2>8, <3>1, <3>2 DEF LevelDue
    <2>13. FileDue(d, t)
      BY <1>1, <2>6, <2>7 DEF FileDue
    <2> QED
      BY <2>10, <2>11, <2>12, <2>13 DEF AllDue, d, t
  <1> QED
    BY <1>2, <1>3, <1>4 DEF Loading

LEMMA GoodStays ==
    ASSUME config' = config, NEW p, AllDue(calls'[p], set'[p])
    PROVE  AllDue(calls[p], set[p])'
  <1>1. Asks' = Asks
    BY DEF Asks, TextLines
  <1>2. /\ LastOf("silent")' = LastOf("silent")
        /\ LastOf("wrap")' = LastOf("wrap")
        /\ LastOf("debug")' = LastOf("debug")
    BY <1>1 DEF LastOf
  <1>3. /\ \A b : SilentGood(b) => SilentGood(b)'
        /\ \A b : WrapGood(b) => WrapGood(b)'
        /\ \A n : LevelGood(n) => LevelGood(n)'
    BY <1>1, <1>2 DEF SilentGood, WrapGood, LevelGood
  <1>4. SilentDue(calls[p], set[p])'
    BY <1>3 DEF AllDue, SilentDue
  <1>5. WrapDue(calls[p], set[p])'
    BY <1>3 DEF AllDue, WrapDue
  <1>6. LevelDue(calls[p], set[p])'
    BY <1>3 DEF AllDue, LevelDue
  <1>7. FileDue(calls[p], set[p])'
    BY DEF AllDue, FileDue
  <1> QED
    BY <1>4, <1>5, <1>6, <1>7 DEF AllDue

\* The configuration is read only at first.
LEMMA LoadsFirst ==
    ASSUME Base, NEW p \in Process, OwnStep(p),
           calls'[p] # <<>>, calls'[p][1].op = "loadConfig"
    PROVE  /\ calls[p][1].op = "loadConfig" /\ calls'[p] = calls[p]
           /\ set'[p] = set[p] /\ shown'[p] = shown[p]
  <1> DEFINE c == calls[p]
             d == calls'[p]
  <1>1. /\ IsSequence(c) /\ c # <<>> /\ Len(c) \in Nat \ {0}
        /\ \A i \in 2..Len(c) : c[i].op # "loadConfig"
    BY SequenceLen DEF Base, CallsOf, OwnStep
  <1>2. IsSequence(d) /\ Len(d) \in Nat \ {0}
    <2>1. CallsOf(p)'
      BY LogCalls
    <2> QED
      BY <2>1, SequenceLen DEF CallsOf
  <1>3. ASSUME Popped(c, d) PROVE FALSE
    <2>1. d[1] = c[2] /\ 2 \in 2..Len(c)
      BY <1>1, <1>2, <1>3 DEF Popped
    <2> QED
      BY <1>1, <2>1
  <1>4. /\ ~Swapped(c, d, Message(LOGGER))
        /\ ~Swapped(c, d, [op |-> "remove"])
        /\ ~Swapped(c, d, [op |-> "create"])
    <2>1. \A x : Swapped(c, d, x) => x.op = "loadConfig"
      BY DEF Swapped
    <2>2. /\ Message(LOGGER).op # "loadConfig"
          /\ [op |-> "remove"].op # "loadConfig"
          /\ [op |-> "create"].op # "loadConfig"
      BY DEF Message
    <2> HIDE DEF c, d
    <2> QED
      BY <2>1, <2>2
  <1>5. CASE Opening(p) \/ Writing(p) \/ Setting1(p) \/ Flushing(p)
    BY <1>3, <1>4, <1>5 DEF Opening, Writing, Setting1, SetsTo, Flushing
  <1>6. CASE Loading(p)
    <2>1. CASE d = c /\ set' = set
      BY <1>6, <2>1 DEF Loading
    <2>2. ASSUME NEW unset \in [1..Len(TextLines(config)) -> BOOLEAN],
                 d = Apply(Wanted(set[p], TextLines(config), unset)) \o Tail(c)
          PROVE  FALSE
      <3> DEFINE w == Wanted(set[p], TextLines(config), unset)
                 m == Apply(w)
      <3>1. Applied(w, m)
        BY WantedWish, ApplyApplied
      <3>2. d = m \o Tail(c)
        BY <2>2
      <3> HIDE DEF w, m, c, d
      <3>3. /\ IsSequence(m) /\ 1 \in 1..Len(m)
            /\ m[1].op # "loadConfig"
        BY <3>1, SequenceLen DEF Applied
      <3>4. IsSequence(c) /\ c # <<>>
        BY <1>1
      <3>5. (m \o Tail(c))[1] = m[1]
        BY <3>3, <3>4, PutBefore
      <3> QED
        BY <3>2, <3>3, <3>5 DEF d
    <2>3. \/ d = c /\ set' = set
          \/ \E unset \in [1..Len(TextLines(config)) -> BOOLEAN] :
                d = Apply(Wanted(set[p], TextLines(config), unset)) \o Tail(c)
      BY <1>4, <1>6 DEF Loading
    <2> QED
      BY <2>1, <2>2, <2>3
  <1> QED
    BY <1>5, <1>6 DEF OwnStep

LEMMA NoneDue ==
    ASSUME NEW c, OnlyMessages(c)
    PROVE  \A op \in SetOps : ~Pending(c, op)
  BY DEF OnlyMessages, Pending, SetOps

LEMMA DueOfMessages ==
    ASSUME NEW c, NEW d, NEW s, OnlyMessages(c), OnlyMessages(d), AllDue(c, s)
    PROVE  AllDue(d, s)
  <1>1. \A op \in SetOps : ~Pending(c, op) /\ ~Pending(d, op)
    BY NoneDue
  <1>2. /\ ~Pending(c, "setLogSilentMode") /\ ~Pending(d, "setLogSilentMode")
        /\ ~Pending(c, "setLineWrap") /\ ~Pending(d, "setLineWrap")
        /\ ~Pending(c, "setLogDebugLevel") /\ ~Pending(d, "setLogDebugLevel")
        /\ ~Pending(c, "setLogFile") /\ ~Pending(d, "setLogFile")
    BY <1>1 DEF SetOps
  <1>3. SilentDue(d, s) /\ WrapDue(d, s) /\ LevelDue(d, s)
    BY <1>2 DEF AllDue, SilentDue, WrapDue, LevelDue, Pending
  <1>4. FileDue(d, s)
    <2>1. ~(Len(c) > 0 /\ c[Len(c)].op = "setLogFile" /\ c[Len(c)].file = "server.log")
      <3>1. Len(c) \in Nat
        BY SequenceLen DEF OnlyMessages
      <3>2. Len(c) > 0 => Len(c) \in 1..Len(c)
        BY <3>1
      <3> QED
        BY <1>2, <3>2 DEF Pending
    <2> QED
      BY <1>2, <2>1 DEF AllDue, FileDue
  <1> QED
    BY <1>3, <1>4 DEF AllDue

\* A client, and who has parsed its command line, only has messages to write.
Settled ==
    \A p \in Process : p \in Client \/ pc[p] # "parse" =>
        /\ OnlyMessages(calls[p])
        /\ p \in Client => set[p].logFile = "default.log"

OfServer(s) ==
    /\ calls[s] # <<>> /\ calls[s][1].op = "loadConfig" => Fresh(s)
    /\ Fresh(s) \/ AllDue(calls[s], set[s])

Configured == Settled /\ \A s \in Server : OfServer(s)

LEMMA LogKeepsSettled ==
    ASSUME Base, Settled, NEW p \in Process, OwnStep(p)
    PROVE  Settled'
  <1>1. ASSUME NEW q \in Process \ {p}, q \in Client \/ pc'[q] # "parse"
        PROVE  OnlyMessages(calls'[q]) /\ (q \in Client => set'[q].logFile = "default.log")
    <2>1. calls'[q] = calls[q] /\ set'[q] = set[q] /\ pc' = pc
      BY DEF OwnStep, Others
    <2> QED
      BY <1>1, <2>1 DEF Settled
  <1>2. ASSUME p \in Client \/ pc'[p] # "parse"
        PROVE  OnlyMessages(calls'[p]) /\ (p \in Client => set'[p].logFile = "default.log")
    <2>1. /\ OnlyMessages(calls[p]) /\ (p \in Client => set[p].logFile = "default.log")
          /\ calls[p] # <<>>
      BY <1>2 DEF Settled, OwnStep
    <2>2. calls[p][1].op = "writeLog"
      <3>1. 1 \in 1..Len(calls[p])
        BY <2>1, SequenceLen DEF OnlyMessages
      <3> QED
        BY <2>1, <3>1 DEF OnlyMessages
    <2>3. /\ set' = set
          /\ calls'[p] = calls[p] \/ Popped(calls[p], calls'[p])
      BY <2>2 DEF OwnStep, Opening, Writing, Setting1, Flushing, Loading
    <2>4. ASSUME Popped(calls[p], calls'[p]) PROVE OnlyMessages(calls'[p])
      BY <2>1, <2>4 DEF Popped, OnlyMessages
    <2> QED
      BY <2>1, <2>3, <2>4
  <1> QED
    BY <1>1, <1>2 DEF Settled, OnlyMessages

LEMMA LogKeepsConfigured ==
    ASSUME Base, Configured, NEW p \in Process, LogStep(p), UNCHANGED mainVars
    PROVE  Configured'
  <1>1. OwnStep(p)
    BY LogStepIsOwn
  <1>2. Settled'
    BY <1>1, LogKeepsSettled DEF Configured
  <1>3. config' = config /\ pc' = pc
    BY <1>1 DEF OwnStep
  <1>4. ASSUME NEW s \in Server, s # p PROVE OfServer(s)'
    <2>1. /\ calls'[s] = calls[s] /\ set'[s] = set[s] /\ shown'[s] = shown[s]
          /\ OfServer(s)
      BY <1>1, <1>4, StartupAssumption DEF OwnStep, Others, Configured
    <2>2. Fresh(s) => Fresh(s)'
      BY <1>3, <2>1 DEF Fresh
    <2>3. AllDue(calls[s], set[s]) => AllDue(calls[s], set[s])'
      BY <1>3, <2>1, GoodStays
    <2> QED
      BY <2>1, <2>2, <2>3 DEF OfServer
  <1>5. ASSUME p \in Server PROVE OfServer(p)'
    <2>1. OfServer(p)
      BY <1>5 DEF Configured
    <2>2. calls'[p] # <<>> /\ calls'[p][1].op = "loadConfig" => Fresh(p)'
      <3>1. ASSUME calls'[p] # <<>>, calls'[p][1].op = "loadConfig" PROVE Fresh(p)'
        <4>1. /\ calls[p][1].op = "loadConfig" /\ calls'[p] = calls[p]
              /\ set'[p] = set[p] /\ shown'[p] = shown[p]
          BY <1>1, <3>1, LoadsFirst
        <4> QED
          BY <1>3, <2>1, <3>1, <4>1 DEF OfServer, Fresh
      <3> QED
        BY <3>1
    <2>3. CASE Loading(p)
      <3>1. Fresh(p)
        BY <1>1, <2>1, <2>3 DEF OfServer, OwnStep, Loading
      <3>2. Fresh(p)' \/ AllDue(calls'[p], set'[p])
        BY <1>1, <2>3, <3>1, LoadMakesDue
      <3> QED
        BY <1>3, <2>2, <3>2, GoodStays DEF OfServer
    <2>4. CASE ~Loading(p)
      <3>1. ~Fresh(p)
        BY <1>1, <2>4 DEF OwnStep, Opening, Writing, Setting1, Flushing, Fresh
      <3>2. AllDue(calls'[p], set'[p])
        BY <1>1, <2>1, <2>4, <3>1, DueStays DEF OfServer
      <3> QED
        BY <1>3, <2>2, <3>2, GoodStays DEF OfServer
    <2> QED
      BY <2>3, <2>4
  <1> QED
    BY <1>2, <1>4, <1>5 DEF Configured

LEMMA MainKeepsConfigured ==
    ASSUME Base, Configured, NEW p \in Process, MainStep(p)
    PROVE  Configured'
  <1>1. /\ calls[p] = <<>> /\ OnlyMessages(calls'[p])
        /\ UNCHANGED <<config, set>>
        /\ \A q \in Process \ {p} : /\ calls'[q] = calls[q] /\ pc'[q] = pc[q]
                                    /\ shown'[q] = shown[q]
    BY MainIsQuiet DEF MainStep
  <1>2. Settled'
    <2>1. ASSUME NEW q \in Process, q \in Client \/ pc'[q] # "parse"
          PROVE  OnlyMessages(calls'[q]) /\ (q \in Client => set'[q].logFile = "default.log")
      BY <1>1, <2>1 DEF Configured, Settled
    <2> QED
      BY <2>1 DEF Settled, OnlyMessages
  <1>3. ASSUME NEW s \in Server, s # p PROVE OfServer(s)'
    <2>1. /\ OfServer(s)
          /\ calls'[s] = calls[s] /\ pc'[s] = pc[s] /\ shown'[s] = shown[s]
      BY <1>1, <1>3, StartupAssumption DEF Configured
    <2>2. Fresh(s) => Fresh(s)'
      BY <1>1, <2>1 DEF Fresh
    <2>3. AllDue(calls[s], set[s]) => AllDue(calls[s], set[s])'
      BY <1>1, <2>1, GoodStays
    <2> QED
      BY <2>1, <2>2, <2>3 DEF OfServer
  <1>4. ASSUME p \in Server PROVE OfServer(p)'
    <2>1. ~Fresh(p)
      BY <1>1 DEF Fresh
    <2>2. AllDue(calls[p], set[p])
      BY <1>4, <2>1 DEF Configured, OfServer
    <2>3. OnlyMessages(calls[p])
      BY <1>1, FewMessages
    <2>4. AllDue(calls'[p], set'[p])
      BY <1>1, <2>2, <2>3, DueOfMessages
    <2>5. calls'[p] # <<>> => calls'[p][1].op # "loadConfig"
      <3>1. calls'[p] # <<>> => 1 \in 1..Len(calls'[p])
        BY <1>1, SequenceLen DEF OnlyMessages
      <3> QED
        BY <1>1, <3>1 DEF OnlyMessages
    <2> QED
      BY <1>1, <2>4, <2>5, GoodStays DEF OfServer
  <1> QED
    BY <1>2, <1>3, <1>4 DEF Configured

LEMMA ConfiguredHolds == Spec => []Configured
  <1>1. Init => Configured
    <2> SUFFICES ASSUME Init PROVE Configured
      OBVIOUS
    <2>1. /\ calls = [p \in Process |-> IF p \in Server THEN FirstCalls ELSE <<>>]
          /\ pc = [p \in Process |-> "parse"]
          /\ set = [p \in Process |-> [dbgLevel |-> DEBUG, logFile |-> "default.log",
                                       silentMode |-> FALSE, lineWrap |-> TRUE]]
          /\ shown = [p \in Process |-> 0]
      BY InitFacts DEF LogInit
    <2>2. \A c \in Client : c \in Process /\ c \notin Server
      BY StartupAssumption
    <2>3. Settled
      BY <2>1, <2>2, FewMessages DEF Settled
    <2>4. ASSUME NEW s \in Server PROVE Fresh(s)
      <3>1. s \in Process
        BY StartupAssumption
      <3>2. /\ calls[s] = FirstCalls /\ pc[s] = "parse" /\ shown[s] = 0
            /\ set[s].silentMode = FALSE /\ set[s].lineWrap = TRUE
            /\ set[s].dbgLevel = DEBUG
        BY <2>1, <3>1
      <3> QED
        BY <3>2, FirstCallsAre DEF Fresh
    <2> QED
      BY <2>3, <2>4 DEF Configured, OfServer
  <1>2. Base /\ Configured /\ [Next]_vars => Configured'
    <2> SUFFICES ASSUME Base, Configured, [Next]_vars PROVE Configured'
      OBVIOUS
    <2>1. CASE UNCHANGED vars
      <3>1. UNCHANGED <<config, calls, set, shown, pc>>
        BY <2>1 DEF vars, logVars, history, mainVars
      <3>2. Settled'
        BY <3>1 DEF Configured, Settled, OnlyMessages
      <3>3. ASSUME NEW s \in Server PROVE OfServer(s)'
        <4>1. Fresh(s) => Fresh(s)'
          BY <3>1 DEF Fresh
        <4>2. AllDue(calls[s], set[s]) => AllDue(calls[s], set[s])'
          BY <3>1, GoodStays
        <4> QED
          BY <3>1, <4>1, <4>2 DEF Configured, OfServer
      <3> QED
        BY <3>2, <3>3 DEF Configured
    <2>2. CASE Next
      BY <2>2, StepOfOne, LogKeepsConfigured, MainKeepsConfigured
    <2> QED
      BY <2>1, <2>2
  <1> QED
    BY <1>1, <1>2, BaseInvariant, PTL DEF Spec

\* Who has parsed its command line has no setting to come: the log is server.log, and the
\* rest is as the configuration says.
LEMMA SettledServer ==
    ASSUME Configured, NEW s \in Server, pc[s] # "parse"
    PROVE  /\ set[s].logFile = "server.log"
           /\ SilentGood(set[s].silentMode)
           /\ WrapGood(set[s].lineWrap)
           /\ \E n : LevelGood(n) /\ set[s].dbgLevel = DebugLevel(n)
  <1>1. OnlyMessages(calls[s])
    BY StartupAssumption DEF Configured, Settled
  <1>2. AllDue(calls[s], set[s])
    BY DEF Configured, OfServer, Fresh
  <1>3. OnlyMessages(<<>>)
    BY FewMessages
  <1>4. AllDue(<<>>, set[s])
    BY <1>1, <1>2, <1>3, DueOfMessages
  <1>5. Len(<<>>) = 0 /\ \A op : ~Pending(<<>>, op)
    BY DEF Pending
  <1> QED
    BY <1>4, <1>5 DEF AllDue, SilentDue, WrapDue, LevelDue, FileDue

\* When a server parses its command line its logger is set as the last line for each
\* variable says among those that are read, which end within the file's first 1024 bytes,
\* and its log is server.log: loadConfig and main in file_serv.c.
THEOREM SetAsConfigured == Spec => []AsConfigured
  <1>1. Base /\ Configured => AsConfigured
    <2> SUFFICES ASSUME Base, Configured, NEW s \in Server, pc[s] # "parse"
                 PROVE  /\ set[s].logFile = "server.log"
                        /\ \A k \in LastOf("silent") : Asks[k].val \in {"true", "false"} =>
                               set[s].silentMode = (Asks[k].val = "true")
                        /\ \A k \in LastOf("wrap") : Asks[k].val \in {"true", "false"} =>
                               set[s].lineWrap = (Asks[k].val = "true")
                        /\ LastOf("silent") = {} => ~set[s].silentMode
                        /\ LastOf("wrap") = {} => set[s].lineWrap
                        /\ set[s].dbgLevel \in
                               {DEBUG} \union {Asks[k].val : k \in LastOf("debug")}
                        /\ \A k \in LastOf("debug") :
                               Asks[k].val \in INFO..VERBOSE => set[s].dbgLevel = Asks[k].val
      BY DEF AsConfigured, LastOf, Asks
    <2>1. /\ set[s].logFile = "server.log"
          /\ SilentGood(set[s].silentMode)
          /\ WrapGood(set[s].lineWrap)
          /\ \E n : LevelGood(n) /\ set[s].dbgLevel = DebugLevel(n)
      BY SettledServer
    <2>2. set[s].silentMode \in BOOLEAN /\ set[s].lineWrap \in BOOLEAN
      BY StartupAssumption DEF Base, TypeOK, LogTypeOK, Settings
    <2>3. /\ \A k \in LastOf("silent") : Asks[k].val \in {"true", "false"} =>
                 set[s].silentMode = (Asks[k].val = "true")
          /\ LastOf("silent") = {} => ~set[s].silentMode
      BY <2>1, <2>2 DEF SilentGood
    <2>4. /\ \A k \in LastOf("wrap") : Asks[k].val \in {"true", "false"} =>
                 set[s].lineWrap = (Asks[k].val = "true")
          /\ LastOf("wrap") = {} => set[s].lineWrap
      BY <2>1, <2>2 DEF WrapGood
    <2>5. PICK n : LevelGood(n) /\ set[s].dbgLevel = DebugLevel(n)
      BY <2>1
    <2>6. \A k \in LastOf("debug") :
             Asks[k].val \in INFO..VERBOSE => set[s].dbgLevel = Asks[k].val
      BY <2>5 DEF LevelGood, DebugLevel
    <2>7. set[s].dbgLevel \in {DEBUG} \union {Asks[k].val : k \in LastOf("debug")}
      BY <2>5 DEF LevelGood, DebugLevel
    <2> QED
      BY <2>1, <2>3, <2>4, <2>6, <2>7
  <1> QED
    BY <1>1, BaseInvariant, ConfiguredHolds, PTL

-------------------------------------------------------------------------------
(* Silent mode. *)

SilentAsked == \E k \in LastOf("silent") : Asks[k].val = "true"

FlushAsked == LastOf("flush") # {}

\* Where a server is that has to be silent, and how much it may have shown until then:
\* silent mode comes first, but for flushLog and its message.
QuietAt(c, s, n) ==
    \/ /\ Len(c) > 0 /\ c[1].op = "setLogSilentMode"
       /\ n <= IF FlushAsked THEN 2 ELSE 0
    \/ /\ FlushAsked
       /\ Len(c) > 1 /\ c[2].op = "setLogSilentMode"
       /\ \/ c[1].op \in {"flushLog", "remove"} /\ n = 0
          \/ c[1].op \in {"create", "writeLog"} /\ n <= 1
    \/ /\ s.silentMode = TRUE
       /\ n <= IF FlushAsked THEN 2 ELSE 0

\* What the logger of s has shown.
ByLogger(s) == shown[s] - Usages(s)

Quiet == \A s \in Server : SilentAsked => Fresh(s) \/ QuietAt(calls[s], set[s], ByLogger(s))

LEMMA SilentIsTrue ==
    ASSUME SilentAsked, NEW b, SilentGood(b)
    PROVE  b = TRUE
  BY DEF SilentAsked, SilentGood

\* The head of the calls when the configuration has been read.
LEMMA LoadIsQuiet ==
    ASSUME Base, NEW p \in Process, Fresh(p), OwnStep(p), Loading(p), SilentAsked
    PROVE  Fresh(p)' \/ QuietAt(calls'[p], set'[p], shown'[p])
  <1> DEFINE c == calls[p]
             d == calls'[p]
             s == set[p]
             t == set'[p]
             text == TextLines(config)
  <1>1. /\ IsSequence(c) /\ c # <<>> /\ Len(c) = 2
        /\ shown[p] = 0 /\ shown' = shown
        /\ pc' = pc
    BY DEF Base, CallsOf, Fresh, OwnStep, Loading
  <1>2. CASE set' = set /\ calls' = calls
    BY <1>1, <1>2 DEF Fresh
  <1>3. config.there
    <2>1. ~config.there => 1..Len(Asks) = {}
      <3>1. ~config.there => Asks = <<>>
        BY DEF Asks
      <3>2. Asks = <<>> => Len(Asks) = 0
        OBVIOUS
      <3>3. Len(Asks) = 0 => 1..Len(Asks) = {}
        OBVIOUS
      <3> QED
        BY <3>1, <3>2, <3>3
    <2> QED
      BY <2>1 DEF SilentAsked, LastOf, LastLine
  <1>4. ASSUME NEW unset \in [1..Len(text) -> BOOLEAN],
               d = Apply(Wanted(s, text, unset)) \o Tail(c)
        PROVE  QuietAt(d, t, shown'[p])
    <2> DEFINE w == Wanted(s, text, unset)
               m == Apply(w)
    <2>1. WishMeans(s, text, Len(text), w) /\ w \in Wish
      BY WantedWish
    <2>2. Applied(w, m)
      BY <2>1, ApplyApplied
    <2>3. d = m \o Tail(c)
      BY <1>4
    <2> HIDE DEF w, m
    <2>4. w.silent = TRUE
      <3>1. SilentGood(w.silent)
        BY <1>3, <2>1, WishGood
      <3> QED
        BY <3>1, SilentIsTrue
    <2>5. w.flush = TRUE => FlushAsked
      <3>1. Asks = text
        BY <1>3 DEF Asks
      <3>2. LastOf("flush") = LastLineTo(text, Len(text), "flush")
        BY <3>1 DEF LastOf, LastLine, LastLineTo
      <3> QED
        BY <2>1, <3>2 DEF WishMeans, FlushAsked
    <2> HIDE DEF c, d, s, t, text
    <2>6. IsSequence(m) /\ Len(m) \in Nat /\ Len(m) >= 3 /\ 1 \in 1..Len(m) /\ 2 \in 1..Len(m)
      BY <2>2, SequenceLen DEF Applied
    <2>7. IsSequence(c) /\ c # <<>> /\ IsSequence(m)
      BY <1>1, <2>6
    <2>8. /\ Len(m \o Tail(c)) = Len(m) + Len(c) - 1
          /\ \A i \in 1..Len(m) : (m \o Tail(c))[i] = m[i]
      BY <2>7, PutBefore
    <2>9. Len(d) > 1 /\ d[1] = m[1] /\ d[2] = m[2]
      BY <1>1, <2>3, <2>6, <2>8
    <2>10. \/ m[1].op = "setLogSilentMode"
           \/ w.flush = TRUE /\ m[1].op = "flushLog" /\ m[2].op = "setLogSilentMode"
      BY <2>2, <2>4 DEF Applied
    <2> QED
      BY <1>1, <2>5, <2>9, <2>10 DEF QuietAt
  <1>5. \/ set' = set /\ calls' = calls
        \/ \E unset \in [1..Len(text) -> BOOLEAN] :
              d = Apply(Wanted(s, text, unset)) \o Tail(c)
    BY <1>3 DEF Loading
  <1> QED
    BY <1>2, <1>4, <1>5

\* The other steps.
LEMMA QuietStays ==
    ASSUME Base, NEW p \in Process, OwnStep(p), ~Loading(p), SilentAsked, NEW u \in Nat,
           AllDue(calls[p], set[p]), QuietAt(calls[p], set[p], shown[p] - u)
    PROVE  QuietAt(calls'[p], set'[p], shown'[p] - u)
  <1> DEFINE c == calls[p]
             d == calls'[p]
             s == set[p]
             t == set'[p]
             n == shown[p] - u
             m == shown'[p] - u
  <1>1. /\ IsSequence(c) /\ Len(c) \in Nat \ {0} /\ IsSequence(d) /\ Len(d) \in Nat
        /\ n \in Int /\ shown[p] \in Nat
    <2>1. CallsOf(p)'
      BY LogCalls
    <2> QED
      BY <2>1, SequenceLen DEF Base, CallsOf, OwnStep, TypeOK, LogTypeOK
  <1>2. QuietAt(c, s, n)
    OBVIOUS
  <1>3. /\ t.silentMode = IF c[1].op = "setLogSilentMode" THEN c[1].on ELSE s.silentMode
        /\ c[1].op = "setLogSilentMode" => c[1].on = TRUE
    <2>1. t.silentMode = IF c[1].op = "setLogSilentMode" THEN c[1].on ELSE s.silentMode
      BY LogProceeds
    <2>2. c[1].op = "setLogSilentMode" => SilentGood(c[1].on)
      BY <1>1 DEF AllDue, SilentDue
    <2> QED
      BY <2>1, <2>2, SilentIsTrue
  <1>4. CASE Setting1(p)
    <2>1. m = n /\ c[1].op \in SetOps
      BY <1>4 DEF Setting1, SetsTo, SetOps
    <2> HIDE DEF c, d, s, t, n, m
    <2>2. t.silentMode = TRUE /\ n <= IF FlushAsked THEN 2 ELSE 0
      BY <1>2, <1>3, <2>1 DEF QuietAt, SetOps
    <2> QED
      BY <2>1, <2>2 DEF QuietAt, t, d, m
  <1>5. CASE Opening(p) \/ Writing(p) \/ Flushing(p)
    <2>0. /\ shown'[p] = shown[p] => m = n
          /\ shown'[p] = shown[p] + 1 => m = n + 1
      BY <1>1
    <2>1. /\ t = s
          /\ m = n \/ (s.silentMode = FALSE /\ m = n + 1)
          /\ \/ c[1].op = "writeLog" /\ ((d = c /\ m = n) \/ Popped(c, d))
             \/ c[1].op = "flushLog" /\ m = n /\ Swapped(c, d, [op |-> "remove"])
             \/ c[1].op = "flushLog" /\ Swapped(c, d, [op |-> "create"])
             \/ c[1].op = "remove" /\ m = n /\ Swapped(c, d, [op |-> "create"])
             \/ c[1].op = "remove" /\ m = n /\ d = c
             \/ c[1].op = "create" /\ m = n /\ Swapped(c, d, Message(LOGGER))
      <3> HIDE DEF n, m
      <3> QED
        BY <1>5, <2>0 DEF Opening, Writing, Flushing, Shows
    <2>2. /\ Message(LOGGER).op = "writeLog"
          /\ [op |-> "remove"].op = "remove"
          /\ [op |-> "create"].op = "create"
      BY DEF Message
    <2> SUFFICES QuietAt(d, t, m)
      OBVIOUS
    <2> HIDE DEF c, d, s, t, n, m
    <2>3. /\ \A x : Swapped(c, d, x) => /\ Len(d) = Len(c) /\ d[1] = x
                                        /\ Len(c) > 1 => d[2] = c[2]
          /\ Popped(c, d) => /\ Len(c) > 1 => Len(d) > 0 /\ d[1] = c[2]
      <3>1. ASSUME NEW x, Swapped(c, d, x), Len(c) > 1 PROVE d[2] = c[2]
        <4>1. 2 \in 2..Len(d)
          BY <1>1, <3>1 DEF Swapped
        <4> QED
          BY <3>1, <4>1 DEF Swapped
      <3>2. ASSUME Popped(c, d), Len(c) > 1 PROVE Len(d) > 0 /\ d[1] = c[2]
        <4>1. Len(d) > 0 /\ 1 \in 1..Len(d)
          BY <1>1, <3>2 DEF Popped
        <4> QED
          BY <3>2, <4>1 DEF Popped
      <3> QED
        BY <3>1, <3>2 DEF Swapped
    <2>4. CASE s.silentMode = TRUE /\ n <= IF FlushAsked THEN 2 ELSE 0
      BY <2>1, <2>4 DEF QuietAt
    <2>5. CASE /\ FlushAsked
               /\ Len(c) > 1 /\ c[2].op = "setLogSilentMode"
               /\ \/ c[1].op \in {"flushLog", "remove"} /\ n = 0
                  \/ c[1].op \in {"create", "writeLog"} /\ n <= 1
      <3>1. CASE c[1].op = "writeLog" /\ Popped(c, d)
        <4>1. Len(d) > 0 /\ d[1].op = "setLogSilentMode" /\ m <= 2
          BY <1>1, <2>1, <2>3, <2>5, <3>1
        <4> QED
          BY <2>5, <4>1 DEF QuietAt
      <3>2. CASE d = c /\ m = n
        BY <2>5, <3>2 DEF QuietAt
      <3>3. CASE c[1].op = "flushLog" /\ m = n /\ Swapped(c, d, [op |-> "remove"])
        <4>1. Len(d) > 1 /\ d[2].op = "setLogSilentMode" /\ d[1].op = "remove" /\ m = 0
          BY <2>2, <2>3, <2>5, <3>3
        <4> QED
          BY <2>5, <4>1 DEF QuietAt
      <3>4. CASE c[1].op \in {"flushLog", "remove"} /\ Swapped(c, d, [op |-> "create"])
        <4>1. /\ Len(d) > 1 /\ d[2].op = "setLogSilentMode" /\ d[1].op = "create"
              /\ m <= 1
          BY <2>1, <2>2, <2>3, <2>5, <3>4
        <4> QED
          BY <2>5, <4>1 DEF QuietAt
      <3>5. CASE c[1].op = "create" /\ m = n /\ Swapped(c, d, Message(LOGGER))
        <4>1. Len(d) > 1 /\ d[2].op = "setLogSilentMode" /\ d[1].op = "writeLog" /\ m <= 1
          BY <2>2, <2>3, <2>5, <3>5
        <4> QED
          BY <2>5, <4>1 DEF QuietAt
      <3> QED
        BY <2>1, <3>1, <3>2, <3>3, <3>4, <3>5
    <2> QED
      BY <1>2, <2>1, <2>4, <2>5 DEF QuietAt
  <1> QED
    BY <1>4, <1>5 DEF OwnStep

LEMMA SilentStays ==
    ASSUME config' = config
    PROVE  /\ SilentAsked' <=> SilentAsked
           /\ FlushAsked' <=> FlushAsked
  <1>1. Asks' = Asks
    BY DEF Asks, TextLines
  <1>2. LastOf("silent")' = LastOf("silent") /\ LastOf("flush")' = LastOf("flush")
    BY <1>1 DEF LastOf
  <1> QED
    BY <1>1, <1>2 DEF SilentAsked, FlushAsked

LEMMA UsagesTyped ==
    ASSUME Base, NEW p \in Process
    PROVE  Usages(p) \in Nat /\ shown[p] \in Nat
  BY DEF Base, TypeOK, LogTypeOK, Usages

LEMMA LogKeepsQuiet ==
    ASSUME Base, Configured, Quiet, NEW p \in Process, LogStep(p), UNCHANGED mainVars
    PROVE  Quiet'
  <1>1. OwnStep(p) /\ config' = config /\ pc' = pc /\ para' = para
    BY LogStepIsOwn DEF OwnStep
  <1>2. (SilentAsked' <=> SilentAsked) /\ (FlushAsked' <=> FlushAsked)
    BY <1>1, SilentStays
  <1>3. \A s : Usages(s)' = Usages(s)
    BY <1>1 DEF Usages
  <1>4. ASSUME NEW s \in Server, s # p, SilentAsked
        PROVE  Fresh(s)' \/ QuietAt(calls'[s], set'[s], ByLogger(s)')
    <2>1. calls'[s] = calls[s] /\ set'[s] = set[s] /\ shown'[s] = shown[s]
      BY <1>1, <1>4, StartupAssumption DEF OwnStep, Others
    <2>2. Fresh(s) => Fresh(s)'
      BY <1>1, <2>1 DEF Fresh
    <2>3. ByLogger(s)' = ByLogger(s)
      BY <1>3, <2>1 DEF ByLogger
    <2> QED
      BY <1>4, <2>1, <2>2, <2>3 DEF Quiet
  <1>5. ASSUME p \in Server, SilentAsked
        PROVE  Fresh(p)' \/ QuietAt(calls'[p], set'[p], ByLogger(p)')
    <2>1. ByLogger(p)' = shown'[p] - Usages(p) /\ Usages(p) \in Nat
      BY <1>3, UsagesTyped DEF ByLogger
    <2>2. CASE Loading(p)
      <3>1. Fresh(p)
        BY <1>1, <1>5, <2>2 DEF Configured, OfServer, OwnStep, Loading
      <3>2. Fresh(p)' \/ QuietAt(calls'[p], set'[p], shown'[p])
        BY <1>1, <1>5, <2>2, <3>1, LoadIsQuiet
      <3>3. shown'[p] = 0 /\ Usages(p) = 0
        BY <2>2, <3>1 DEF Fresh, Loading, Usages
      <3>4. ByLogger(p)' = shown'[p]
        BY <2>1, <3>3
      <3> QED
        BY <3>2, <3>4
    <2>3. CASE ~Loading(p)
      <3>1. ~Fresh(p)
        BY <1>1, <2>3 DEF OwnStep, Opening, Writing, Setting1, Flushing, Fresh
      <3>2. AllDue(calls[p], set[p]) /\ QuietAt(calls[p], set[p], ByLogger(p))
        BY <1>5, <3>1 DEF Configured, OfServer, Quiet
      <3>3. QuietAt(calls[p], set[p], shown[p] - Usages(p))
        BY <3>2 DEF ByLogger
      <3> QED
        BY <1>1, <1>5, <2>1, <2>3, <3>2, <3>3, QuietStays
    <2> QED
      BY <2>2, <2>3
  <1>6. ASSUME NEW s \in Server, SilentAsked
        PROVE  Fresh(s)' \/ QuietAt(calls'[s], set'[s], ByLogger(s)')
    BY <1>4, <1>5, <1>6
  <1> QED
    BY <1>2, <1>6 DEF Quiet, QuietAt

\* main shows the usage, which the logger's bound leaves out.
LEMMA MainKeepsByLogger ==
    ASSUME Base, NEW p \in Process, MainStep(p)
    PROVE  \A q \in Process : ByLogger(q)' = ByLogger(q)
  <1>1. ASSUME NEW q \in Process \ {p} PROVE ByLogger(q)' = ByLogger(q)
    BY DEF MainStep, ByLogger, Usages
  <1>2. ByLogger(p)' = ByLogger(p)
    <2>1. CASE shown' = shown /\ Usages(p)' = Usages(p)
      BY <2>1 DEF ByLogger
    <2>2. CASE /\ Usages(p) = 0 /\ Usages(p)' \in Nat
               /\ shown'[p] = shown[p] + Usages(p)'
      <3>1. shown[p] \in Nat /\ shown'[p] \in Nat
        BY UsagesTyped DEF MainStep
      <3>2. Usages(p)' \in Nat
        BY <2>2
      <3> QED
        BY <2>2, <3>1, <3>2 DEF ByLogger
    <2> QED
      BY <2>1, <2>2 DEF MainStep
  <1> QED
    BY <1>1, <1>2

LEMMA MainKeepsQuiet ==
    ASSUME Base, Configured, Quiet, NEW p \in Process, MainStep(p)
    PROVE  Quiet'
  <1>1. /\ calls[p] = <<>> /\ config' = config /\ set' = set
        /\ \A q \in Process \ {p} : /\ calls'[q] = calls[q] /\ pc'[q] = pc[q]
                                    /\ shown'[q] = shown[q]
        /\ \A q \in Process : ByLogger(q)' = ByLogger(q)
    BY MainIsQuiet, MainKeepsByLogger DEF MainStep
  <1>2. (SilentAsked' <=> SilentAsked) /\ (FlushAsked' <=> FlushAsked)
    BY <1>1, SilentStays
  <1>3. ASSUME NEW s \in Server, s # p, SilentAsked
        PROVE  Fresh(s)' \/ QuietAt(calls'[s], set'[s], ByLogger(s)')
    <2>1. /\ calls'[s] = calls[s] /\ pc'[s] = pc[s] /\ shown'[s] = shown[s]
          /\ ByLogger(s)' = ByLogger(s)
      BY <1>1, <1>3, StartupAssumption
    <2>2. Fresh(s) => Fresh(s)'
      BY <1>1, <2>1 DEF Fresh
    <2> QED
      BY <1>1, <1>3, <2>1, <2>2 DEF Quiet
  <1>4. ASSUME p \in Server, SilentAsked
        PROVE  QuietAt(calls'[p], set'[p], ByLogger(p)')
    <2>1. Len(calls[p]) = 0
      BY <1>1
    <2>2. ~Fresh(p)
      BY <2>1 DEF Fresh
    <2>3. QuietAt(calls[p], set[p], ByLogger(p))
      BY <1>4, <2>2 DEF Quiet
    <2>4. ByLogger(p)' = ByLogger(p)
      BY <1>1
    <2> QED
      BY <1>1, <2>1, <2>3, <2>4 DEF QuietAt
  <1>5. ASSUME NEW s \in Server, SilentAsked
        PROVE  Fresh(s)' \/ QuietAt(calls'[s], set'[s], ByLogger(s)')
    BY <1>3, <1>4, <1>5
  <1> QED
    BY <1>2, <1>5 DEF Quiet, QuietAt

LEMMA RefusedShown ==
    ASSUME Base, NEW s \in Process
    PROVE  Usages(s) <= Cardinality(Refused(s)) /\ Cardinality(Refused(s)) \in Nat
  <1>1. CASE pc[s] = "parse"
    <2>1. Refused(s) = {} /\ Usages(s) = 0
      BY <1>1 DEF Refused, Usages
    <2> QED
      BY <2>1, FS_EmptySet
  <1>2. CASE pc[s] # "parse"
    <2>1. Len(argv[s]) \in Nat /\ Means(argv[s], Len(argv[s]), para[s])
      BY <1>2, ParaMeans
    <2>2. Refused(s) = UnknownTo(argv[s], Len(argv[s])) /\ Usages(s) = para[s].usage
      BY <1>2 DEF Refused, UnknownTo, Usages
    <2>3. para[s].usage <= Cardinality(UnknownTo(argv[s], Len(argv[s])))
      BY <2>1 DEF Means
    <2> QED
      BY <2>1, <2>2, <2>3, OneMoreUnknown
  <1> QED
    BY <1>1, <1>2

\* A configuration with silent=true keeps the logger's messages from the server's terminal
\* and all else from its standard output, but for two texts of flushLog, which runs before
\* silent mode is set, and a usage text for each option that does not exist: loadConfig,
\* and config.c, line 28.
THEOREM SilentOnTerminal == Spec => []SilentTerminal
  <1>1. Init => Quiet
    <2> SUFFICES ASSUME Init, NEW s \in Server PROVE Fresh(s)
      BY DEF Quiet
    <2>1. s \in Process
      BY StartupAssumption
    <2>2. /\ calls[s] = FirstCalls /\ pc[s] = "parse" /\ shown[s] = 0
          /\ set[s] = [dbgLevel |-> DEBUG, logFile |-> "default.log",
                       silentMode |-> FALSE, lineWrap |-> TRUE]
      BY <2>1, InitFacts DEF LogInit
    <2> QED
      BY <2>2, FirstCallsAre DEF Fresh
  <1>2. Base /\ Configured /\ Quiet /\ [Next]_vars => Quiet'
    <2> SUFFICES ASSUME Base, Configured, Quiet, [Next]_vars PROVE Quiet'
      OBVIOUS
    <2>1. CASE UNCHANGED vars
      <3>1. UNCHANGED <<config, calls, set, shown, pc, para>>
        BY <2>1 DEF vars, logVars, history, mainVars
      <3>2. (SilentAsked' <=> SilentAsked) /\ (FlushAsked' <=> FlushAsked)
        BY <3>1, SilentStays
      <3>3. \A s \in Server : (Fresh(s) => Fresh(s)') /\ ByLogger(s)' = ByLogger(s)
        BY <3>1 DEF Fresh, ByLogger, Usages
      <3> QED
        BY <3>1, <3>2, <3>3 DEF Quiet, QuietAt
    <2>2. CASE Next
      BY <2>2, StepOfOne, LogKeepsQuiet, MainKeepsQuiet
    <2> QED
      BY <2>1, <2>2
  <1>3. Base /\ Quiet => SilentTerminal
    <2> SUFFICES ASSUME Base, Quiet, NEW s \in Server,
                        NEW k \in LastLine(TextLines(config), "silent"),
                        config.there, TextLines(config)[k].val = "true"
                 PROVE  shown[s] <= (IF LastLine(TextLines(config), "flush") = {} THEN 0
                                                                                  ELSE 2)
                                    + Cardinality(Refused(s))
      BY DEF SilentTerminal
    <2>1. /\ SilentAsked
          /\ FlushAsked <=> LastLine(TextLines(config), "flush") # {}
      BY DEF SilentAsked, FlushAsked, LastOf, Asks
    <2>2. Fresh(s) \/ QuietAt(calls[s], set[s], ByLogger(s))
      BY <2>1 DEF Quiet
    <2>3. s \in Process /\ shown[s] \in Nat /\ Usages(s) \in Nat
      BY StartupAssumption, UsagesTyped
    <2>4. shown[s] - Usages(s) <= IF FlushAsked THEN 2 ELSE 0
      <3>1. CASE Fresh(s)
        BY <2>3, <3>1 DEF Fresh
      <3>2. CASE QuietAt(calls[s], set[s], ByLogger(s))
        BY <2>3, <3>2 DEF QuietAt, ByLogger
      <3> QED
        BY <2>2, <3>1, <3>2
    <2>5. Usages(s) <= Cardinality(Refused(s)) /\ Cardinality(Refused(s)) \in Nat
      BY <2>3, RefusedShown
    <2> QED
      BY <2>1, <2>3, <2>4, <2>5
  <1> QED
    BY <1>1, <1>2, <1>3, BaseInvariant, ConfiguredHolds, PTL DEF Spec

-------------------------------------------------------------------------------
(* What a program says before it gives up. *)

LogOf(p) == IF p \in Server THEN "server.log" ELSE "default.log"

FatalThere(p) ==
    \E i \in 1..Len(lines[LogOf(p)]) : /\ lines[LogOf(p)][i].by = p
                                       /\ lines[LogOf(p)][i].lvl = FATAL

\* The file that p has open is the one of this name, or another one has removed it.
HoldsLog(p) ==
    fd[p] # 0 => \/ there[set[p].logFile] /\ gen[set[p].logFile] = fd[p]
                 \/ RemovedByOther(p, set[p].logFile)

\* A program that refuses its command line still has the reason to write, or has.
FatalOf(p) ==
    /\ alive[p] = "exit" => pc[p] = "quit"
    /\ pc[p] = "quit" /\ alive[p] \in {"run", "exit"} =>
           \/ /\ alive[p] = "run"
              /\ Len(calls[p]) = 1
              /\ calls[p][1].op = "writeLog" /\ calls[p][1].lvl = FATAL
           \/ /\ calls[p] = <<>>
              /\ FatalThere(p) \/ RemovedByOther(p, LogOf(p))

Fatals == \A p \in Process : HoldsLog(p) /\ FatalOf(p)

LEMMA LogOfSettled ==
    ASSUME Configured, NEW p \in Process, pc[p] # "parse"
    PROVE  set[p].logFile = LogOf(p) /\ LogOf(p) \in LogName /\ OnlyMessages(calls[p])
  <1>1. OnlyMessages(calls[p]) /\ (p \in Client => set[p].logFile = "default.log")
    BY DEF Configured, Settled
  <1>2. p \in Server => set[p].logFile = "server.log"
    BY SettledServer
  <1> QED
    BY <1>1, <1>2, StartupAssumption DEF LogOf

\* What a step does to a file that is there, unless it removes it.
LEMMA FileStays ==
    ASSUME Base, NEW p \in Process, LogStep(p), NEW f \in LogName
    PROVE  /\ there[f] => gen'[f] = gen[f]
           /\ \/ \A i \in 1..Len(lines[f]) : /\ i \in 1..Len(lines'[f])
                                             /\ lines'[f][i] = lines[f][i]
              \/ <<p, f>> \in removed' /\ calls[p][1].op = "remove"
  <1>1. /\ there \in [LogName -> BOOLEAN] /\ gen \in [LogName -> Nat]
        /\ lines = [g \in LogName |-> lines[g]]
        /\ Len(lines[f]) \in Nat /\ lines[f] \in Seq(Line)
    BY LinesAre DEF Base, TypeOK, LogTypeOK, Shapes
  <1>2. ASSUME NEW g, OpenLog(g) PROVE there[f] => gen'[f] = gen[f]
    BY <1>1, <1>2 DEF OpenLog
  <1>3. CASE writeLog_open(p)
    <2>1. lines' = lines /\ OpenLog(set[p].logFile)
      BY <1>3 DEF writeLog_open
    <2> QED
      BY <1>2, <2>1
  <1>4. CASE writeLog(p)
    <2> DEFINE g == set[p].logFile
               line == [by |-> p, n |-> count[p] + 1, lvl |-> Head(calls[p]).lvl]
    <2>1. /\ gen' = gen
          /\ \/ lines' = lines
             \/ g \in LogName /\ lines' = [lines EXCEPT ![g] = @ \o <<line>>]
      BY <1>4 DEF writeLog, AppendLine
    <2> HIDE DEF g, line
    <2>2. CASE lines' = lines
      BY <2>1, <2>2
    <2>3. CASE g = f /\ lines' = [lines EXCEPT ![g] = @ \o <<line>>]
      <3>1. lines'[f] = lines[f] \o <<line>>
        BY <1>1, <2>3
      <3>2. Len(lines'[f]) = Len(lines[f]) + 1
            /\ \A i \in 1..Len(lines[f]) : lines'[f][i] = lines[f][i]
        BY <1>1, <3>1
      <3> QED
        BY <1>1, <2>1, <3>2
    <2>4. CASE g # f /\ g \in LogName /\ lines' = [lines EXCEPT ![g] = @ \o <<line>>]
      <3>1. lines'[f] = lines[f]
        BY <1>1, <2>4
      <3> QED
        BY <2>1, <3>1
    <2> QED
      BY <2>1, <2>2, <2>3, <2>4
  <1>5. CASE flushLog_remove(p)
    <2> DEFINE g == set[p].logFile
    <2>1. /\ gen' = gen
          /\ calls[p][1].op = "remove"
          /\ \/ lines' = lines
             \/ /\ g \in LogName
                /\ lines' = [lines EXCEPT ![g] = <<>>]
                /\ removed' = removed \union {<<p, g>>}
      BY <1>5, CallFacts DEF Base, flushLog_remove, Removable
    <2> HIDE DEF g
    <2>2. lines' = lines \/ lines'[f] = lines[f] \/ <<p, f>> \in removed'
      BY <1>1, <2>1
    <2> QED
      BY <2>1, <2>2
  <1>6. CASE flushLog_create(p)
    <2>1. lines' = lines /\ (gen' = gen \/ OpenLog(set[p].logFile))
      BY <1>6 DEF flushLog_create
    <2> QED
      BY <1>2, <2>1
  <1>7. CASE UNCHANGED <<gen, lines>>
    BY <1>7
  <1> QED
    BY <1>3, <1>4, <1>5, <1>6, <1>7
    DEF LogStep, setLogFile, setLogSilentMode, setLineWrap, setLogDebugLevel, flushLog,
        loadConfig, fileVars

LEMMA LogKeepsHeld ==
    ASSUME Base, Fatals, NEW p \in Process, LogStep(p), UNCHANGED mainVars, NEW q \in Process
    PROVE  HoldsLog(q)'
  <1> SUFFICES ASSUME fd'[q] # 0
               PROVE  \/ there'[set'[q].logFile] /\ gen'[set'[q].logFile] = fd'[q]
                      \/ \E x \in Process \ {q} : <<x, set'[q].logFile>> \in removed'
    BY DEF HoldsLog, RemovedByOther
  <1>1. /\ removed \subseteq removed'
        /\ \A f \in LogName : there[f] => \/ there'[f]
                                        \/ /\ <<p, f>> \in removed'
                                           /\ calls[p][1].op = "remove"
    BY GoneIfRemoved
  <1>2. CASE fd'[q] = fd[q] /\ set'[q] = set[q]
    <2> DEFINE f == set[q].logFile
    <2>1. f \in LogName /\ calls[q][1].op = "writeLog"
      BY <1>2 DEF Base, CallsOf
    <2>2. (there[f] /\ gen[f] = fd[q]) \/ RemovedByOther(q, f)
      BY <1>2 DEF Fatals, HoldsLog
    <2> HIDE DEF f
    <2>3. CASE there[f] /\ gen[f] = fd[q]
      <3>1. gen'[f] = gen[f]
        BY <2>1, <2>3, FileStays
      <3>2. there'[f] \/ (<<p, f>> \in removed' /\ p # q)
        BY <1>1, <2>1, <2>3
      <3> QED
        BY <1>2, <2>3, <3>1, <3>2 DEF f
    <2>4. CASE RemovedByOther(q, f)
      BY <1>1, <1>2, <2>4 DEF f, RemovedByOther
    <2> QED
      BY <2>2, <2>3, <2>4
  <1>3. CASE /\ q = p /\ writeLog_open(p) /\ set' = set
             /\ fd'[p] = gen'[set[p].logFile] /\ set[p].logFile \in LogName
    <2>1. OpenLog(set[p].logFile)
      BY <1>3 DEF writeLog_open
    <2>2. there'[set[p].logFile] = TRUE
      BY <1>3, <2>1 DEF OpenLog, Base, TypeOK, LogTypeOK
    <2> QED
      BY <1>3, <2>2
  <1> QED
    BY <1>2, <1>3, OpenStays

\* A fatal error is always written, and to a file that is there unless another one has
\* removed it.
LEMMA FatalWritten ==
    ASSUME Base, NEW p \in Process, writeLog(p), HoldsLog(p),
           calls[p][1].lvl = FATAL, set[p].logFile = LogOf(p), LogOf(p) \in LogName
    PROVE  \/ FatalThere(p)'
           \/ RemovedByOther(p, LogOf(p))
  <1> DEFINE f == LogOf(p)
             line == [by |-> p, n |-> count[p] + 1, lvl |-> FATAL]
  <1>1. Head(calls[p]) = calls[p][1]
    BY CallFacts DEF Base, writeLog
  <1>2. Valid(set[p], FATAL)
    BY DEF Valid, FATAL, INFO
  <1>3. fd[p] # 0
    BY DEF writeLog
  <1>4. \/ RemovedByOther(p, f)
        \/ there[f] /\ gen[f] = fd[p]
    BY <1>3 DEF HoldsLog
  <1>5. CASE there[f] /\ gen[f] = fd[p]
    <2>1. lines' = [lines EXCEPT ![f] = AppendLine(@, line)]
      BY <1>1, <1>2, <1>5 DEF writeLog
    <2>2. lines[f] \in Seq(Line) /\ Len(lines[f]) \in Nat
      BY LinesAre
    <2>3. line.by = p /\ line.lvl = FATAL
      OBVIOUS
    <2>4. FatalThere(p)' <=> \E i \in 1..Len(lines'[f]) : lines'[f][i].by = p
                                                       /\ lines'[f][i].lvl = FATAL
      BY DEF FatalThere, LogOf
    <2> HIDE DEF line, f
    <2>5. lines'[f] = lines[f] \o <<line>>
      BY <2>1 DEF Base, Shapes, AppendLine, f
    <2>6. /\ Len(lines[f]) + 1 \in 1..Len(lines'[f])
          /\ lines'[f][Len(lines[f]) + 1] = line
      BY <2>2, <2>5
    <2> QED
      BY <2>3, <2>4, <2>6
  <1> QED
    BY <1>4, <1>5

LEMMA ThereStays ==
    ASSUME Base, NEW p \in Process, LogStep(p), NEW q \in Process, LogOf(q) \in LogName,
           FatalThere(q), p = q => calls[p][1].op # "remove"
    PROVE  FatalThere(q)' \/ RemovedByOther(q, LogOf(q))'
  <1> DEFINE f == LogOf(q)
  <1>1. /\ FatalThere(q)' <=> \E i \in 1..Len(lines'[f]) : lines'[f][i].by = q
                                                        /\ lines'[f][i].lvl = FATAL
        /\ RemovedByOther(q, LogOf(q))' <=> \E x \in Process \ {q} : <<x, f>> \in removed'
    BY DEF FatalThere, RemovedByOther, LogOf
  <1>2. PICK i \in 1..Len(lines[f]) : lines[f][i].by = q /\ lines[f][i].lvl = FATAL
    BY DEF FatalThere
  <1>3. \/ \A j \in 1..Len(lines[f]) : /\ j \in 1..Len(lines'[f])
                                       /\ lines'[f][j] = lines[f][j]
        \/ <<p, f>> \in removed' /\ calls[p][1].op = "remove"
    BY FileStays
  <1> HIDE DEF f
  <1> QED
    BY <1>1, <1>2, <1>3

LEMMA LogKeepsFatal ==
    ASSUME Base, Configured, Fatals, NEW p \in Process, LogStep(p), UNCHANGED mainVars,
           NEW q \in Process
    PROVE  FatalOf(q)'
  <1>1. OwnStep(p) /\ pc' = pc
    BY LogStepIsOwn DEF OwnStep
  <1>2. alive'[q] = "exit" => alive[q] = "exit"
    BY <1>1 DEF OwnStep, Others, Opening, Writing, Setting1, SetsTo, Flushing, Loading
  <1>3. FatalOf(q) /\ HoldsLog(q)
    BY DEF Fatals
  <1>4. alive'[q] = "exit" => pc'[q] = "quit"
    BY <1>1, <1>2, <1>3 DEF FatalOf
  <1>5. ASSUME pc'[q] = "quit", alive'[q] \in {"run", "exit"}
        PROVE  \/ /\ alive'[q] = "run"
                  /\ Len(calls'[q]) = 1
                  /\ calls'[q][1].op = "writeLog" /\ calls'[q][1].lvl = FATAL
               \/ /\ calls'[q] = <<>>
                  /\ FatalThere(q)' \/ RemovedByOther(q, LogOf(q))'
    <2>1. pc[q] = "quit" /\ alive[q] \in {"run", "exit"}
      BY <1>1, <1>2, <1>5 DEF OwnStep, Others, Opening, Writing, Setting1, SetsTo, Flushing, Loading
    <2>2. set[q].logFile = LogOf(q) /\ LogOf(q) \in LogName /\ OnlyMessages(calls[q])
      BY <2>1, LogOfSettled
    <2>3. RemovedByOther(q, LogOf(q)) => RemovedByOther(q, LogOf(q))'
      <3>1. removed \subseteq removed'
        BY GoneIfRemoved
      <3> QED
        BY <3>1 DEF RemovedByOther, LogOf
    <2>4. CASE q # p
      <3>1. calls'[q] = calls[q] /\ alive'[q] = alive[q]
        BY <1>1, <2>4 DEF OwnStep, Others
      <3>2. FatalThere(q) => FatalThere(q)' \/ RemovedByOther(q, LogOf(q))'
        BY <2>2, <2>4, ThereStays
      <3> QED
        BY <1>3, <2>1, <2>3, <3>1, <3>2 DEF FatalOf
    <2>5. CASE q = p
      <3>1. /\ alive[p] = "run" /\ calls[p] # <<>>
            /\ Len(calls[p]) = 1
            /\ calls[p][1].op = "writeLog" /\ calls[p][1].lvl = FATAL
        BY <1>1, <1>3, <2>1, <2>5 DEF OwnStep, FatalOf
      <3>2. CASE Opening(p)
        BY <2>5, <3>1, <3>2 DEF Opening
      <3>3. CASE Writing(p)
        <4>1. IsSequence(calls'[p]) /\ Len(calls'[p]) = 0
          BY <3>1, <3>3 DEF Writing, Popped
        <4>2. calls'[p] = <<>>
          BY <4>1, SequenceLen
        <4>3. writeLog(p)
          <5>1. writeLog_open(p) => calls' = calls
            BY DEF writeLog_open
          <5>2. CASE writeLog_open(p)
            BY <3>1, <4>1, <5>1, <5>2
          <5>3. \A op : Call(p, op) => op = "writeLog"
            BY <3>1, CallFacts DEF Base
          <5> QED
            BY <5>2, <5>3
            DEF LogStep, setLogFile, setLogSilentMode, setLineWrap, setLogDebugLevel,
                flushLog, flushLog_remove, flushLog_create, loadConfig
        <4>4. FatalThere(p)' \/ RemovedByOther(p, LogOf(p))
          BY <1>3, <2>2, <2>5, <3>1, <4>3, FatalWritten
        <4> QED
          BY <2>3, <2>5, <4>2, <4>4
      <3> QED
        BY <1>1, <3>1, <3>2, <3>3 DEF OwnStep, Setting1, Flushing, Loading
    <2> QED
      BY <2>4, <2>5
  <1> QED
    BY <1>4, <1>5 DEF FatalOf

LEMMA MainKeepsOthersFatal ==
    ASSUME Base, Fatals, NEW p \in Process, MainStep(p)
    PROVE  /\ \A q \in Process : HoldsLog(q)'
           /\ \A q \in Process \ {p} : FatalOf(q)'
           /\ FatalThere(p) => FatalThere(p)'
           /\ RemovedByOther(p, LogOf(p)) => RemovedByOther(p, LogOf(p))'
  <1>1. UNCHANGED <<set, fd, there, gen, lines, removed>>
    BY MainIsQuiet
  <1>2. \A q \in Process : HoldsLog(q)'
    BY <1>1 DEF Fatals, HoldsLog, RemovedByOther
  <1>3. \A q : /\ FatalThere(q) => FatalThere(q)'
               /\ RemovedByOther(q, LogOf(q)) => RemovedByOther(q, LogOf(q))'
    BY <1>1 DEF FatalThere, RemovedByOther, LogOf
  <1>4. ASSUME NEW q \in Process \ {p} PROVE FatalOf(q)'
    <2>1. alive'[q] = alive[q] /\ calls'[q] = calls[q] /\ pc'[q] = pc[q] /\ FatalOf(q)
      BY DEF MainStep, Fatals
    <2> QED
      BY <1>3, <2>1 DEF FatalOf
  <1> QED
    BY <1>2, <1>3, <1>4

LEMMA FatalsNext ==
    ASSUME Base, Configured, Fatals, [Next]_vars
    PROVE  Fatals'
  <1>1. CASE UNCHANGED vars
    BY <1>1 DEF vars, logVars, fileVars, history, mainVars, Fatals, HoldsLog, FatalOf,
                FatalThere, RemovedByOther, LogOf
  <1>2. ASSUME NEW p \in Process, LogStep(p), UNCHANGED mainVars PROVE Fatals'
    BY <1>2, LogKeepsHeld, LogKeepsFatal DEF Fatals
  <1>3. ASSUME NEW p \in Process, MainStep(p), FatalOf(p)' PROVE Fatals'
    BY <1>3, MainKeepsOthersFatal DEF Fatals
  <1>4. ASSUME NEW p \in Process, Parse(p) PROVE Fatals'
    <2>1. /\ MainStep(p)
          /\ \/ alive'[p] = "crash" /\ pc'[p] = "quit"
             \/ /\ alive'[p] = "run" /\ pc'[p] = "quit"
                /\ calls'[p] = <<Message(FATAL)>>
             \/ /\ alive'[p] = "run"
                /\ pc'[p] = IF p \in Server THEN "bind" ELSE "connect"
      BY <1>4, ParseIsMain
    <2>2. calls'[p] = <<Message(FATAL)>> =>
             Len(calls'[p]) = 1 /\ calls'[p][1].op = "writeLog" /\ calls'[p][1].lvl = FATAL
      BY MessageGood
    <2>3. FatalOf(p)'
      BY <2>1, <2>2 DEF FatalOf
    <2> QED
      BY <1>3, <2>1, <2>3
  <1>5. ASSUME NEW p \in Process, Quit(p) PROVE Fatals'
    <2>1. MainStep(p) /\ pc[p] = "quit" /\ alive'[p] = "exit" /\ pc' = pc /\ calls' = calls
      BY <1>5, QuitIsMain
    <2>2. alive[p] = "run" /\ calls[p] = <<>> /\ FatalOf(p)
      BY <2>1 DEF MainStep, Fatals
    <2>3. FatalThere(p) \/ RemovedByOther(p, LogOf(p))
      <3>1. Len(calls[p]) # 1
        BY <2>2
      <3> QED
        BY <2>1, <2>2, <3>1 DEF FatalOf
    <2>4. FatalThere(p)' \/ RemovedByOther(p, LogOf(p))'
      BY <2>1, <2>3, MainKeepsOthersFatal
    <2>5. FatalOf(p)'
      BY <2>1, <2>2, <2>4 DEF FatalOf
    <2> QED
      BY <1>3, <2>1, <2>5
  <1>6. ASSUME NEW p \in Process, MainStep(p), pc'[p] # "quit", alive'[p] # "exit"
        PROVE  Fatals'
    BY <1>3, <1>6 DEF FatalOf
  <1>7. ASSUME NEW s \in Server, Bind(s) PROVE Fatals'
    BY <1>6, <1>7, BindIsMain
  <1>8. ASSUME NEW c \in Client, Connect(c) PROVE Fatals'
    <2>1. c \in Process /\ MainStep(c) /\ alive' = alive /\ pc'[c] \in {"loop", "refused"}
      BY <1>8, ConnectIsMain
    <2> QED
      BY <1>6, <2>1 DEF MainStep
  <1>9. ASSUME NEW s \in Server, NEW c \in Client, listen_cb(s, c) PROVE Fatals'
    <2>1. s \in Process /\ MainStep(s) /\ pc[s] = "loop" /\ UNCHANGED <<alive, pc>>
      BY <1>9, ListenIsMain
    <2> QED
      BY <1>6, <2>1 DEF MainStep
  <1>10. ASSUME NEW c \in Client, ConnectFails(c) PROVE Fatals'
    <2>1. /\ c \in Process /\ MainStep(c) /\ pc[c] = "connect" /\ pc' = pc
          /\ alive'[c] = "connect"
      BY <1>10, FailingIsMain
    <2> QED
      BY <1>6, <2>1
  <1> QED
    BY <1>1, <1>2, <1>4, <1>5, <1>7, <1>8, <1>9, <1>10 DEF Next, Step

\* A program that refuses its command line has left the reason in its log, whatever level
\* and file the configuration names, unless another one has flushed that file: main in
\* file_serv.c and file_client.c, and writeLog.
THEOREM FatalLeftInLog == Spec => []FatalInLog
  <1>1. Init => Fatals
    <2> SUFFICES ASSUME Init PROVE Fatals
      OBVIOUS
    <2>1. \A p \in Process : fd[p] = 0 /\ alive[p] = "run" /\ pc[p] = "parse"
      BY InitFacts DEF LogInit
    <2> QED
      BY <2>1 DEF Fatals, HoldsLog, FatalOf
  <1>2. Base /\ Configured /\ Fatals /\ [Next]_vars => Fatals'
    BY FatalsNext
  <1>3. Fatals => FatalInLog
    <2> SUFFICES ASSUME Fatals, NEW p \in Process, alive[p] = "exit"
                 PROVE  FatalThere(p) \/ RemovedByOther(p, LogOf(p))
      BY DEF FatalInLog, FatalThere, RemovedByOther, LogOf
    <2> QED
      BY DEF Fatals, FatalOf
  <1> QED
    BY <1>1, <1>2, <1>3, BaseInvariant, ConfiguredHolds, PTL DEF Spec

===============================================================================
