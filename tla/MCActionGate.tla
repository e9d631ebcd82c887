---------------------------- MODULE MCActionGate ----------------------------
(***************************************************************************)
(* Instances of ActionGate for TLC; action rows are interchangeable, and   *)
(* so are the callers.                                                     *)
(***************************************************************************)
EXTENDS ActionGate, TLC

OneEach == [type \in Types |-> 1]
GateSymmetry == Permutations(RowIds) \cup Permutations(Callers)
=============================================================================
