---------------------------- MODULE MCSourcing ----------------------------
(* Small instances of Sourcing. *)
EXTENDS Sourcing, TLC

\* Lists, campaigns and requests are interchangeable.
Symmetry == Permutations(Lists) \cup Permutations(Campaigns) \cup Permutations(Callers)
=============================================================================
