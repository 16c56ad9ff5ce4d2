----------------------------- MODULE Selection ------------------------------
(***************************************************************************)
(* The elements of a sequence at some of its positions, in their order:    *)
(* what Array.prototype.filter keeps.  The positions are a set, so that    *)
(* the selection needs no recursion.                                       *)
(***************************************************************************)
EXTENDS Naturals, Sequences, FiniteSets

(* How many of the positions are not after i. *)
Rank(positions, i) == Cardinality({j \in positions : j <= i})

Selected(s, positions) ==
    [n \in 1..Cardinality(positions) |->
        s[CHOOSE i \in positions : Rank(positions, i) = n]]
=============================================================================
