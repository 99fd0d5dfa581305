------------------------------- MODULE SeqSets -------------------------------
(* A sequence of handles seen as a set.                                    *)
EXTENDS Integers, Sequences

\* The handles in q, and: none of them occurs twice.
Elems(q) == {q[i] : i \in DOMAIN q}
Once(q)  == \A i, j \in DOMAIN q : q[i] = q[j] => i = j
=============================================================================
