------------------------------- MODULE MCDict -------------------------------
(***************************************************************************)
(* Instances of Dict for TLC.  Keys are numbers so that the hash can be    *)
(* chosen to make them collide or spread.                                  *)
(***************************************************************************)
EXTENDS Dict

CONSTANT KeyCount       \* how many keys an instance has

MCKey == 1..KeyCount

\* Every hash bit matters: the keys part company at each doubling.
SpreadHash == [k \in MCKey |-> k]

MCTableSizes == {2, 4, 8, 16}
=============================================================================
