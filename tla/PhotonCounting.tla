--------------------------- MODULE PhotonCounting ---------------------------
(***************************************************************************)
(* What the sensitive detector of the PMTs promises: in each event the     *)
(* photo-electron count of a tube goes up by one for every photon that the *)
(* tube's photocathode detects, and a photon is counted at most once, in   *)
(* one tube.  WCSD is the detailed module that implements it.              *)
(***************************************************************************)
EXTENDS Integers

CONSTANTS Photon, Tube

VARIABLES
  pe,       \* photo-electrons counted in each tube
  counted   \* the photons counted so far in the event

Init == pe = [t \in Tube |-> 0] /\ counted = {}

NewEvent == pe' = [t \in Tube |-> 0] /\ counted' = {}

Count(p, t) ==
  /\ p \notin counted
  /\ counted' = counted \cup {p}
  /\ pe' = [pe EXCEPT ![t] = @ + 1]

Next == NewEvent \/ \E p \in Photon, t \in Tube : Count(p, t)

Spec == Init /\ [][Next]_<<pe, counted>>
=============================================================================
