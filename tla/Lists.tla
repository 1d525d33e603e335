------------------------------- MODULE Lists -------------------------------
(***************************************************************************)
(* What the code does with its lists: comprehensions with a condition,     *)
(* sorted, and slices from the front.                                      *)
(***************************************************************************)
EXTENDS Integers, Sequences, FiniteSets

\* The members of s with an index in I, in their order: [v for v in s if ...].
Chosen(s, I) ==
    LET place == [i \in I |-> 1 + Cardinality({j \in I : j < i})]
    IN  [n \in 1..Cardinality(I) |-> s[CHOOSE i \in I : place[i] = n]]

FirstOf(n, s) == SubSeq(s, 1, IF Len(s) < n THEN Len(s) ELSE n)

\* sorted by a key for every index: ascending, and stable.
SortedBy(s, key) ==
    LET place == [i \in DOMAIN s |->
                    1 + Cardinality({j \in DOMAIN s : \/ key[j] < key[i]
                                                     \/ (key[j] = key[i] /\ j < i)})]
    IN  [n \in DOMAIN s |-> s[CHOOSE i \in DOMAIN s : place[i] = n]]
=============================================================================
