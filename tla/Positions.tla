----------------------------- MODULE Positions -----------------------------
(***************************************************************************)
(* The elements of a sequence at some of its positions, in their order:    *)
(* what SelectSeq leaves of a sequence, for the positions that pass its    *)
(* test.  SelectSeq is defined by recursion, which proofs cannot follow;   *)
(* this definition counts.                                                 *)
(***************************************************************************)
EXTENDS Integers, Sequences, FiniteSets

(* What a sequence holds.                                                  *)
Elems(q) == {q[i] : i \in DOMAIN q}

(* How many members of I are not above i, and the n-th member of I.        *)
Rank(I, i) == Cardinality({j \in I : j <= i})
Nth(I, n) == CHOOSE i \in I : Rank(I, i) = n

ElementsAt(s, I) == [n \in 1 .. Cardinality(I) |-> s[Nth(I, n)]]
=============================================================================
