------------------------------ MODULE Listing -------------------------------
(***************************************************************************)
(* The two operations on lists that several modules share, written as      *)
(* recursive and plain functions: what a filter keeps, and the sorted list *)
(* of a set.                                                               *)
(***************************************************************************)
EXTENDS Integers, Sequences, FiniteSets

\* The elements of a sequence that belong to S, in their order.
Chosen(s, S) ==
    LET kept[n \in 0 .. Len(s)] ==
            IF n = 0 THEN <<>>
            ELSE IF s[n] \in S THEN Append(kept[n - 1], s[n]) ELSE kept[n - 1] IN
    kept[Len(s)]

\* A finite set in the order of R, a set of pairs that orders it strictly.
Arranged(S, R) ==
    [i \in 1 .. Cardinality(S) |-> CHOOSE x \in S : Cardinality({y \in S : <<y, x>> \in R}) = i - 1]
=============================================================================
