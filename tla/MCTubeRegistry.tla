--------------------------- MODULE MCTubeRegistry ---------------------------
(***************************************************************************)
(* The tank of the constructor and the one that the messenger offers,      *)
(* scaled down: 35 tubes, then 30 in a shorter tank whose two outer parts  *)
(* differ in length.  Of the 16 cells of the second tank's cap, the four   *)
(* at the corners get no tube; the first one has an odd number of cells.   *)
(***************************************************************************)
EXTENDS TubeRegistry

MC12inch == [WCLength |-> 32, WCCapLength |-> 4, WCVetoShieldLength |-> 8,
             WCRadius |-> 14, WCPMTRadius |-> 1, cell |-> 4, sheet |-> 2, extra |-> 1]
MC8inch  == [WCCapLength |-> 2, barrel |-> 12, back |-> 6, front |-> 2,
             WCRadius |-> 15, edge |-> 4, nphi |-> 3, nrings |-> 2, ncell |-> 4,
             cell |-> 6, limit |-> 14, WCPMTRadius |-> 1, sheet |-> 2]
=============================================================================
