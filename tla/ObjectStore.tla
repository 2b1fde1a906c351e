------------------------------ MODULE ObjectStore ------------------------------
(***************************************************************************)
(* What a file promises to whoever opens it, at any moment: the objects of *)
(* the program appear in it all at once, and none disappears.  After an    *)
(* object refused or a write failed they may appear in parts.              *)
(***************************************************************************)

CONSTANT Objects

VARIABLES
  found,    \* the objects that can be read back
  intact    \* has everything succeeded so far?

storeVars == <<found, intact>>

StoreInit == found = {} /\ intact = TRUE

Publish == intact /\ found' = Objects /\ UNCHANGED intact

Degrade ==
  /\ intact' = FALSE
  /\ \E more \in SUBSET Objects : found' = found \cup more

StoreNext == Publish \/ Degrade

StoreSpec == StoreInit /\ [][StoreNext]_storeVars

================================================================================
