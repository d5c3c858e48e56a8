------------------------------- MODULE MCDList -------------------------------
(***************************************************************************)
(* DList on a small instance.  Nodes and values are interchangeable, and   *)
(* the properties are about safety, for which symmetry is sound.           *)
(***************************************************************************)
EXTENDS DList, TLC

MCSymmetry == Permutations(Node) \cup Permutations(Value)
=============================================================================
