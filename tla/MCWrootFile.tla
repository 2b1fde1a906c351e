------------------------------ MODULE MCWrootFile ------------------------------
(* The trees that Analysis creates in its file, in this order. *)
EXTENDS WrootFile

MCObjects == <<"Event", "Geometry">>

================================================================================
