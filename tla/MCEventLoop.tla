----------------------------- MODULE MCEventLoop -----------------------------
(***************************************************************************)
(* A muon (13) that radiates and decays to an electron (11), photons, and  *)
(* a gamma above and below the save threshold.                             *)
(***************************************************************************)
EXTENDS EventLoop

K(p, e, c) == [pdg |-> p, energy |-> e, creator |-> c]

MCSpecies     == {0, 11, 13, 22}
MCCharged     == {11, 13}
MCEnergy      == {1, 2}
MCPrimaryKind == {K(13, 2, "none")}
Photon        == K(0, 1, "other")
MCDaughters   == [p \in MCSpecies |->
  CASE p = 13 -> {Photon, K(11, 1, "Decay")}
    [] p = 11 -> {Photon, K(22, 1, "other"), K(22, 2, "other")}
    [] OTHER  -> {}]
=============================================================================
