--------------------------------- MODULE Gaps ---------------------------------
(***************************************************************************)
(* What is left of a sequence when some of its elements are lost: the      *)
(* others, in their order.  (AllSubSeqs of SequencesExt is the same set,   *)
(* folded together; here how far each element moves is a function, which a *)
(* proof can name.)                                                        *)
(***************************************************************************)
EXTENDS Naturals, Sequences

\* The ways to keep n out of m elements: d[i] is how many are lost before the i-th kept.
Places(n, m) ==
    {d \in [1..n -> 0..m-n] : \A i, j \in 1..n : i < j => d[i] <= d[j]}

Picked(s, d) == [i \in DOMAIN d |-> s[i + d[i]]]

\* Everything that can be left of s.
Gapped(s) ==
    UNION {{Picked(s, d) : d \in Places(n, Len(s))} : n \in 0..Len(s)}

\* part is one of them.
IsGapped(part, s) ==
    \E d \in Places(Len(part), Len(s)) : part = Picked(s, d)

===============================================================================
