---------------------------- MODULE MCEventTable ----------------------------
(***************************************************************************)
(* A neutrino interaction with up to two muons, electrons or pions; a      *)
(* radiating particle makes photons, gammas above the save threshold and,  *)
(* when a muon decays, an electron; a pion decays into a muon.             *)
(***************************************************************************)
EXTENDS EventTable

K(p, e, c) == [pdg |-> p, energy |-> e, creator |-> c]

MCSpecies     == {0, 11, 13, -13, 22, 211}
MCCharged     == {11, 13, -13, 211}
MCEnergy      == {1, 2, 3}
MCPrimaryKind == {K(13, 2, "none"), K(-13, 3, "none"), K(11, 1, "none"), K(211, 2, "none")}
MuonDaughters == {K(0, 1, "other"), K(22, 2, "other"), K(11, 1, "Decay")}
MCDaughters   == [p \in MCSpecies |->
  CASE p \in {13, -13} -> MuonDaughters
    [] p = 211 -> {K(-13, 1, "Decay"), K(0, 1, "other")}
    [] p = 11 -> {K(0, 1, "other"), K(22, 1, "other")}
    [] OTHER  -> {}]
=============================================================================
