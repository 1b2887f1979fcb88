------------------------------- MODULE Listing ------------------------------
(***************************************************************************)
(* Two operations of the code on lists, stated by where each element goes. *)
(***************************************************************************)
EXTENDS Integers, Sequences, FiniteSets

\* What a filter keeps: the elements of s at the indices I, in their order.
Only(s, I) ==
    LET place(i) == Cardinality({j \in I : j < i}) + 1
    IN [p \in 1..Cardinality(I) |-> s[CHOOSE i \in I : place(i) = p]]

\* sorted(): by key, the first of two equal ones first.
Sorted(s, key) ==
    LET before(i, j) == key[i] < key[j] \/ (key[i] = key[j] /\ i < j)
        place(i) == Cardinality({j \in DOMAIN s : before(j, i)}) + 1
    IN [p \in DOMAIN s |-> s[CHOOSE i \in DOMAIN s : place(i) = p]]
=============================================================================
