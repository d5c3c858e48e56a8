------------------------------- MODULE MCText --------------------------------
(* An instance of Text for TLC. *)
EXTENDS Text, TLC

\* One name for each arity; a name is also a possible key.
MCArity == (<<"s">> :> 3) @@ (<<"g">> :> 2) @@ (<<"g", "s">> :> 1)

MCMinFree == -6
=============================================================================
