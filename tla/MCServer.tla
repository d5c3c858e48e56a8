------------------------------ MODULE MCServer ------------------------------
(* Instances of Server for TLC. *)
EXTENDS Server

\* "save a" writes temp-a.rdb; "load a" reads a.
MCFile == {"a", "temp-a.rdb"}
MCTempName == [x \in {"a"} |-> "temp-a.rdb"]

\* Files of another program: an unknown type byte, and a pair under a database
\* number out of range, on either side.
MCForeign ==
    {<<TypeByte("OTHER"), TypeByte("SELECTDB"), Field("num", n),
       TypeByte("STRING"), Field("key", k), Field("val", v), TypeByte("EOF")>> :
           n \in {-1, DBCount}, k \in Key \ CtrlZ, v \in Value \ CtrlZ}
NoForeign == {}
=============================================================================
