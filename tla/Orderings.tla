------------------------------ MODULE Orderings ------------------------------
(***************************************************************************)
(* Sorting a set and filtering a sequence, defined by the rank of each     *)
(* element.  They agree with SetToSortSeq and SelectSeq, which tlapm knows *)
(* nothing about; Orderings_proofs has the facts about them.               *)
(***************************************************************************)
EXTENDS Naturals, Sequences, FiniteSets

\* The elements of the finite set S, first to last in the strict total order
\* `before`, a set of pairs.
Enumerate(S, before) ==
    [k \in 1 .. Cardinality(S) |->
        CHOOSE x \in S : Cardinality({y \in S : <<y, x>> \in before}) = k - 1]

\* The elements of the sequence s at the positions in I.
Pick(s, I) ==
    LET position == Enumerate(I, {p \in I \X I : p[1] < p[2]})
    IN  [k \in 1 .. Cardinality(I) |-> s[position[k]]]

\* What is left of the sequence s when only members of S are kept.
Keep(s, S) == Pick(s, {i \in DOMAIN s : s[i] \in S})
=============================================================================
