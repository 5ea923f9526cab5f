---------------------------- MODULE SequenceFacts -----------------------------
(***************************************************************************)
(* Facts about sequences that the proofs about several programs use.  A    *)
(* stream is taken apart by SubSeq and put together by \o all the time.     *)
(***************************************************************************)
EXTENDS Naturals, Integers, Sequences, Gaps, SequenceTheorems, TLAPS

\* Part of a sequence over S is one, of the length its bounds say.
LEMMA SubSeqIsSeq ==
    ASSUME NEW S, NEW s \in Seq(S), NEW m \in Nat \ {0}, NEW n \in Int, n <= Len(s)
    PROVE  /\ SubSeq(s, m, n) \in Seq(S)
           /\ Len(SubSeq(s, m, n)) = IF m <= n THEN n - m + 1 ELSE 0
           /\ \A i \in 1..(n - m + 1) : SubSeq(s, m, n)[i] = s[m + i - 1]
  <1>1. \A i \in m..n : s[i] \in S
    BY LenProperties, ElementOfSeq
  <1> QED
    BY <1>1, SubSeqProperties

\* Taking k elements off the front.
LEMMA Split ==
    ASSUME NEW S, NEW s \in Seq(S), NEW k \in 0..Len(s)
    PROVE  /\ SubSeq(s, 1, k) \in Seq(S)
           /\ Len(SubSeq(s, 1, k)) = k
           /\ SubSeq(s, k + 1, Len(s)) \in Seq(S)
           /\ Len(SubSeq(s, k + 1, Len(s))) = Len(s) - k
           /\ SubSeq(s, 1, k) \o SubSeq(s, k + 1, Len(s)) = s
  <1>1. Len(s) \in Nat
    BY LenProperties
  <1>2. /\ SubSeq(s, 1, k) \in Seq(S)
        /\ Len(SubSeq(s, 1, k)) = k
    BY <1>1, SubSeqIsSeq
  <1>3. /\ SubSeq(s, k + 1, Len(s)) \in Seq(S)
        /\ Len(SubSeq(s, k + 1, Len(s))) = Len(s) - k
    BY <1>1, SubSeqIsSeq
  <1>4. SubSeq(s, 1, k) \o SubSeq(s, k + 1, Len(s)) = SubSeq(s, 1, Len(s))
    <2>1. 1 \in 1..(Len(s) + 1) /\ k \in (1 - 1)..Len(s) /\ Len(s) \in k..Len(s)
      BY <1>1
    <2> QED
      BY ONLY <2>1, ConcatAdjacentSubSeq, s \in Seq(S)
  <1> QED
    BY <1>2, <1>3, <1>4, SubSeqFull

\* The two parts of a concatenation, element by element.
LEMMA ConcatParts ==
    ASSUME NEW S, NEW s \in Seq(S), NEW t \in Seq(S)
    PROVE  /\ s \o t \in Seq(S)
           /\ Len(s \o t) = Len(s) + Len(t)
           /\ Len(s) \in Nat /\ Len(t) \in Nat
           /\ \A i \in 1..Len(s) : (s \o t)[i] = s[i]
           /\ \A i \in 1..Len(t) : (s \o t)[Len(s) + i] = t[i]
  <1>1. /\ Len(s) \in Nat /\ Len(t) \in Nat
        /\ s \o t \in Seq(S) /\ Len(s \o t) = Len(s) + Len(t)
        /\ \A i \in 1..(Len(s) + Len(t)) :
               (s \o t)[i] = IF i <= Len(s) THEN s[i] ELSE t[i - Len(s)]
    BY LenProperties, ConcatProperties
  <1> DEFINE u == s \o t
  <1> HIDE DEF u
  <1>2. ASSUME NEW i \in 1..Len(s) PROVE u[i] = s[i]
    BY <1>1 DEF u
  <1>3. ASSUME NEW i \in 1..Len(t) PROVE u[Len(s) + i] = t[i]
    <2>1. /\ Len(s) + i \in 1..(Len(s) + Len(t))
          /\ ~(Len(s) + i <= Len(s))
          /\ Len(s) + i - Len(s) = i
      BY <1>1
    <2> QED
      BY <1>1, <2>1 DEF u
  <1> QED
    BY <1>1, <1>2, <1>3 DEF u

\* The end of a concatenation is cut off by cutting off the end of its second part.
LEMMA CutConcat ==
    ASSUME NEW S, NEW s \in Seq(S), NEW t \in Seq(S), NEW n \in 0..Len(t)
    PROVE  SubSeq(s \o t, 1, Len(s \o t) - n) = s \o SubSeq(t, 1, Len(t) - n)
  <1>1. /\ Len(s) \in Nat /\ Len(t) \in Nat
        /\ s \o t \in Seq(S) /\ Len(s \o t) = Len(s) + Len(t)
        /\ \A i \in 1..(Len(s) + Len(t)) :
               (s \o t)[i] = IF i <= Len(s) THEN s[i] ELSE t[i - Len(s)]
    BY LenProperties, ConcatProperties
  <1> DEFINE u == s \o t
             m == Len(t) - n
             r == SubSeq(t, 1, m)
             l == SubSeq(u, 1, Len(u) - n)
             w == s \o r
  <1>2. m \in Nat /\ m <= Len(t) /\ Len(u) - n = Len(s) + m
    BY <1>1
  <1>3. r \in Seq(S) /\ Len(r) = m /\ \A i \in 1..m : r[i] = t[i]
    BY <1>1, <1>2, SubSeqIsSeq
  <1>4. /\ l \in Seq(S) /\ Len(l) = Len(s) + m
        /\ \A i \in 1..(Len(s) + m) : l[i] = u[i]
    <2>1. Len(u) - n <= Len(u) /\ Len(u) - n \in Nat
      BY <1>1, <1>2
    <2> HIDE DEF u
    <2> QED
      BY <1>1, <1>2, <2>1, SubSeqIsSeq DEF u
  <1> HIDE DEF r, l, u
  <1>5. /\ w \in Seq(S) /\ Len(w) = Len(s) + m
        /\ \A i \in 1..Len(s) : w[i] = s[i]
        /\ \A i \in 1..m : w[Len(s) + i] = r[i]
    <2>1. w \in Seq(S) /\ Len(w) = Len(s) + Len(r)
      BY <1>3, ConcatParts
    <2>2. \A i \in 1..Len(s) : w[i] = s[i]
      BY <1>3, ConcatParts
    <2>3. \A i \in 1..Len(r) : w[Len(s) + i] = r[i]
      BY <1>3, ConcatParts
    <2> HIDE DEF w
    <2> QED
      BY <1>3, <2>1, <2>2, <2>3
  <1>6. ASSUME NEW i \in 1..(Len(s) + m) PROVE l[i] = w[i]
    <2>1. u \in Seq(S) /\ \A j \in 1..Len(s) : u[j] = s[j]
      BY ConcatParts DEF u
    <2>2. \A j \in 1..Len(t) : u[Len(s) + j] = t[j]
      BY ConcatParts DEF u
    <2>3. CASE i \in 1..Len(s)
      BY <1>4, <1>5, <2>1, <2>3
    <2>4. CASE i \notin 1..Len(s)
      <3>1. PICK j \in 1..m : i = Len(s) + j
        <4>1. i - Len(s) \in 1..m /\ i = Len(s) + (i - Len(s))
          BY <1>1, <1>2, <2>4
        <4> QED
          BY <4>1
      <3>2. j \in 1..Len(t)
        BY <1>1, <1>2
      <3>3. l[i] = t[j]
        BY <1>4, <2>2, <3>1, <3>2
      <3>4. w[i] = r[j]
        BY <1>5, <3>1
      <3> QED
        BY <1>3, <3>3, <3>4
    <2> QED
      BY <2>3, <2>4
  <1>7. l = w
    BY <1>4, <1>5, <1>6, SeqEqual
  <1> QED
    BY <1>7 DEF l, r, u

\* The first of two parts is the beginning of the whole.
LEMMA FirstPart ==
    ASSUME NEW S, NEW s \in Seq(S), NEW t \in Seq(S)
    PROVE  /\ Len(s) \in 0..Len(s \o t)
           /\ SubSeq(s \o t, 1, Len(s)) = s
  <1>1. Len(s) \in Nat /\ Len(t) \in Nat /\ Len(s \o t) = Len(s) + Len(t)
    BY LenProperties, ConcatProperties
  <1>2. CASE s = <<>>
    BY <1>1, <1>2, SubSeqEmpty, EmptySeq
  <1>3. CASE s # <<>>
    <2>1. 1 \in 1..Len(s) /\ Len(s) \in 1..Len(s)
      BY <1>3, EmptySeq
    <2>2. SubSeq(s \o t, 1, Len(s)) = SubSeq(s, 1, Len(s))
      BY <2>1, SubSeqOfConcat1
    <2> QED
      BY <1>1, <2>2, SubSeqFull
  <1> QED
    BY <1>2, <1>3

\* A beginning of the first part is one of the whole.
LEMMA FirstOfFirst ==
    ASSUME NEW S, NEW s \in Seq(S), NEW t \in Seq(S), NEW n \in 0..Len(s)
    PROVE  /\ n \in 0..Len(s \o t)
           /\ SubSeq(s \o t, 1, n) = SubSeq(s, 1, n)
  <1>1. /\ Len(s) \in Nat /\ Len(t) \in Nat /\ Len(s \o t) = Len(s) + Len(t)
        /\ s \o t \in Seq(S)
    BY LenProperties, ConcatProperties
  <1>2. n \in 0..Len(s \o t)
    BY <1>1
  <1>3. CASE n = 0
    BY <1>1, <1>3, SubSeqEmpty
  <1>4. CASE n # 0
    <2>1. 1 \in 1..Len(s) /\ n \in 1..Len(s)
      BY <1>1, <1>4
    <2> QED
      BY <1>2, <2>1, SubSeqOfConcat1
  <1> QED
    BY <1>2, <1>3, <1>4

\* What follows the same beginning in the same whole is the same.
LEMMA SameEnd ==
    ASSUME NEW S, NEW s \in Seq(S), NEW t \in Seq(S), NEW u \in Seq(S), s \o t = s \o u
    PROVE  t = u
  <1>1. /\ Len(s) \in Nat /\ Len(t) \in Nat /\ Len(u) \in Nat
        /\ Len(s \o t) = Len(s) + Len(t) /\ Len(s \o u) = Len(s) + Len(u)
    BY LenProperties, ConcatProperties
  <1>2. Len(t) = Len(u)
    BY <1>1
  <1>3. ASSUME NEW i \in 1..Len(t) PROVE t[i] = u[i]
    <2>1. (s \o t)[Len(s) + i] = t[i]
      BY ConcatParts
    <2>2. (s \o u)[Len(s) + i] = u[i]
      BY <1>2, ConcatParts
    <2> QED
      BY <2>1, <2>2
  <1> QED
    BY <1>2, <1>3, SeqEqual

-------------------------------------------------------------------------------
(* What is left of a sequence when elements of it are lost. *)

\* It is a sequence of the same elements, and no longer.
LEMMA GappedType ==
    ASSUME NEW S, NEW s \in Seq(S), NEW part \in Gapped(s)
    PROVE  part \in Seq(S) /\ Len(part) \in 0..Len(s)
  <1>0. PICK n \in 0..Len(s) : part \in {Picked(s, d) : d \in Places(n, Len(s))}
    BY DEF Gapped
  <1>1. PICK d \in Places(n, Len(s)) : part = Picked(s, d)
    BY <1>0
  <1>2. Len(s) \in Nat /\ \A i \in 1..Len(s) : s[i] \in S
    BY LenProperties, ElementOfSeq
  <1>3. d \in [1..n -> 0..Len(s)-n]
    BY DEF Places
  <1>4. \A i \in 1..n : i + d[i] \in 1..Len(s)
    BY ONLY <1>2, <1>3, n \in 0..Len(s)
  <1>5. part \in [1..n -> S]
    BY <1>1, <1>2, <1>3, <1>4 DEF Picked
  <1> QED
    BY <1>2, <1>5

\* When s is a piece of t, what is left of s is also left of t.
LEMMA GappedInPiece ==
    ASSUME NEW S, NEW s \in Seq(S), NEW t \in Seq(S), NEW m \in Nat,
           \A i \in 1..Len(s) : m + i \in 1..Len(t) /\ s[i] = t[m + i],
           NEW part \in Gapped(s)
    PROVE  IsGapped(part, t)
  <1>0. PICK n \in 0..Len(s) : part \in {Picked(s, d) : d \in Places(n, Len(s))}
    BY DEF Gapped
  <1>1. PICK d \in Places(n, Len(s)) : part = Picked(s, d)
    BY <1>0
  <1>2. Len(s) \in Nat /\ Len(t) \in Nat /\ n \in 0..Len(s)
    BY LenProperties
  <1>3. /\ d \in [1..n -> 0..Len(s)-n]
        /\ \A i, j \in 1..n : i < j => d[i] <= d[j]
    BY DEF Places
  <1> DEFINE g == [i \in 1..n |-> m + d[i]]
  <1>4. \A i \in 1..n : d[i] \in Nat /\ i + d[i] \in 1..Len(s)
    BY ONLY <1>2, <1>3
  <1>5. g \in [1..n -> 0..Len(t)-n]
    <2>1. ASSUME NEW i \in 1..n PROVE m + d[i] \in 0..Len(t)-n
      <3>1. m + Len(s) \in 1..Len(t)
        BY <1>2
      <3>2. d[i] \in 0..Len(s)-n
        BY ONLY <1>3
      <3> QED
        BY ONLY <1>2, <3>1, <3>2, m \in Nat
    <2> QED
      BY ONLY <2>1
  <1>6. ASSUME NEW i \in 1..n, NEW j \in 1..n, i < j PROVE g[i] <= g[j]
    <2>1. d[i] <= d[j] /\ d[i] \in Nat /\ d[j] \in Nat
      BY ONLY <1>3, <1>4, <1>6
    <2> QED
      BY ONLY <2>1, m \in Nat
  <1>7. \A i \in 1..n : s[i + d[i]] = t[i + g[i]]
    <2>1. ASSUME NEW i \in 1..n PROVE m + (i + d[i]) = i + g[i]
      BY ONLY <1>4, m \in Nat
    <2> QED
      BY <1>4, <2>1
  <1>8. part = Picked(t, g)
    BY <1>1, <1>3, <1>5, <1>7 DEF Picked
  <1>9. Len(part) = n
    <2>1. part \in [1..n -> S]
      <3>1. \A i \in 1..Len(s) : s[i] \in S
        BY ElementOfSeq
      <3> QED
        BY <1>1, <1>3, <1>4, <3>1 DEF Picked
    <2> QED
      BY <1>2, <2>1
  <1> QED
    BY <1>5, <1>6, <1>8, <1>9 DEF IsGapped, Places

===============================================================================
