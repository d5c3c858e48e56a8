----------------------------- MODULE MCDictIter -----------------------------
(* Instances of DictIter for TLC, with the keys and hash of MCDict. *)
EXTENDS MCDict, DictIter
=============================================================================
