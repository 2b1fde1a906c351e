---------------------------- MODULE MCVectorFile ----------------------------
(***************************************************************************)
(* A file of three records that ends with "stop", one with blank lines     *)
(* between two records and at the end, one that ends with its record, one  *)
(* that is cut off in a header and in the tracks, and two with a long line *)
(* (the end of a record, a track).  A record may have no particle to shoot *)
(* or one that is not known.                                               *)
(***************************************************************************)
EXTENDS VectorFile

L(word, r, role) == [word |-> word, record |-> r, role |-> role, long |-> FALSE]
Long(file, k) == [file EXCEPT ![k].long = TRUE]
CutOff(file, n) == SubSeq(file, 1, Len(file) - n)

Record(r, tracks) ==
  <<L("begin", r, "begin"), L("nuance", r, "nuance"), L("vertex", r, "vertex"),
    L("track", r, "beam"), L("track", r, "target"), L("info", r, "info")>>
  \o [n \in DOMAIN tracks |-> L("track", r, tracks[n])]
  \o <<L("end", r, "end")>>

MCFiles ==
  {Record(1, <<"initial", "known", "unknown">>) \o Record(2, <<"initial">>)
     \o Record(3, <<"known", "initial", "known">>) \o <<L("stop", 0, "none")>>,
   Record(1, <<"known">>) \o <<Blank, Blank>> \o Record(2, <<>>) \o <<Blank>>,
   Record(1, <<"known", "known">>),
   CutOff(Record(1, <<"known">>) \o Record(2, <<"known">>), 3),
   CutOff(Record(1, <<"known">>) \o Record(2, <<"initial", "known">>), 1),
   Long(Record(1, <<"known">>) \o Record(2, <<"known">>), 8),
   Long(Record(1, <<"known">>) \o Record(2, <<"known">>), 7)}
=============================================================================
