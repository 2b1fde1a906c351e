------------------------------ MODULE EventTable ------------------------------
(***************************************************************************)
(* EventAction::EndOfEventAction: the track table of the Event tree.       *)
(*                                                                         *)
(* When the event loop is over, EndOfEventAction writes a row for the      *)
(* beam, a row for the target, one row per trajectory that carries the     *)
(* save flag, in the order of the trajectory container, and at last the    *)
(* event row, which points into the table with leptonIndex and             *)
(* protonIndex.  The rows are computed in ONE pass over the container,     *)
(* so whatever a row says of another track depends on the order in which   *)
(* EventLoop finished the tracks: that dependency is what is checked here. *)
(*                                                                         *)
(* A row keeps the columns the properties tell apart.  `track' stands for  *)
(* what the trajectory copied from its track when it was created.          *)
(***************************************************************************)
EXTENDS EventLoop

CONSTANT TargetIsKnown   \* may FindParticle(targetpdg) succeed, may it fail?

ASSUME EventTableAssumption == TargetIsKnown \subseteq BOOLEAN

VARIABLES
  filling,          \* is EndOfEventAction inside its loop?
  i,                \* the loop's index, counted from 0
  rows,             \* the track tree
  lists,            \* pizeroList, muonList, ...: track IDs by PDG code
  leadingLepton,    \* leadingLeptonIndex and tmpEnergyleadingLepton
  outgoingProton,   \* outgoingProtonIndex and tmpEnergyoutgoingProton
  eventRow,         \* the last row filled in the Event tree
  eventsGenerated   \* RunAction::numberOfEventsGenerated

loopVars  == <<filling, i, rows, lists, leadingLepton, outgoingProton>>
tableVars == <<loopVars, eventRow, eventsGenerated>>
allVars   == <<vars, tableVars>>

ListedParent == {111, 13, -13, 211, -211}
NoIdentifiedParent == 999
Muons == {13, -13}
Protons == {11, -11}   \* what the code tests for the outgoing proton

Row == [id : Nat, pdg : Int, parent : Int, energy : Int]
BeamRow   == [id |-> 0, pdg |-> 14, parent |-> 0, energy |-> 0]
TargetRow == [id |-> 0, pdg |-> 8016, parent |-> 0, energy |-> 0]

NoIndex == [index |-> -1, energy |-> -1]

\* An index of the table: the first two rows are the beam and the target.
Index == {-1} \cup (Nat \ {0, 1})
NoEventRow == [event |-> 0, nPart |-> 0, leptonIndex |-> -1, protonIndex |-> -1]

TableInit ==
  /\ filling = FALSE /\ i = 0 /\ rows = <<>>
  /\ lists = [p \in ListedParent |-> {}]
  /\ leadingLepton = NoIndex /\ outgoingProton = NoIndex
  /\ eventRow = NoEventRow
  /\ eventsGenerated = 0

\* The track tree is reset at each event.  The mutant appends to the old one.
BeamAndTargetMutant(known) == rows \o <<BeamRow, TargetRow>>
BeamAndTarget(known) ==
  IF known THEN <<BeamRow, TargetRow>> ELSE <<BeamRow>>

\* The lists and the leading particles are local variables of the function.
\* In the mutant the leading lepton outlives its event.
LocalsMutant ==
  /\ i' = 0
  /\ lists' = [p \in ListedParent |-> {}]
  /\ outgoingProton' = NoIndex
  /\ UNCHANGED leadingLepton

Locals ==
  /\ i' = 0
  /\ lists' = [p \in ListedParent |-> {}]
  /\ leadingLepton' = NoIndex /\ outgoingProton' = NoIndex

\* The sub-trees are reset and the beam row is filled; an unknown target is
\* an early return that leaves the event without target, tracks or event row.
FillBeamAndTarget ==
  /\ phase = "end" /\ ~filling
  /\ \E known \in TargetIsKnown :
       /\ rows' = BeamAndTarget(known)
       /\ filling' = known
       /\ phase' = IF known THEN "end" ELSE "idle"
  /\ Locals
  /\ UNCHANGED <<event, track, stackVars, legVars, container, aborted,
                 eventRow, eventsGenerated>>

\* Mutant: the list of the anti-muons is not looked at.
ParentColumnMutant(parentIndex, listed) ==
  IF parentIndex = 0 THEN 0
  ELSE IF \E p \in ListedParent \ {-13} : parentIndex \in listed[p]
  THEN CHOOSE p \in ListedParent \ {-13} : parentIndex \in listed[p]
  ELSE NoIdentifiedParent

\* The parent column, from the trajectories met so far in the loop.
ParentColumn(parentIndex, listed) ==
  IF parentIndex = 0 THEN 0
  ELSE IF \E p \in ListedParent : parentIndex \in listed[p]
  THEN CHOOSE p \in ListedParent : parentIndex \in listed[p]
  ELSE NoIdentifiedParent

\* A primary of one of the pdgs with more energy than the previous ones.
MostEnergetic(best, pdgs, row) ==
  IF row.parent = 0 /\ row.pdg \in pdgs /\ row.energy > best.energy
  THEN [index |-> i, energy |-> row.energy]
  ELSE best

TrajectoryLeft == i < Len(container)

\* One turn of the loop over the trajectories.
FillTrack ==
  /\ filling /\ TrajectoryLeft
  /\ LET trj == container[i + 1]
         t   == track[trj.id]
         pId == t.kind.pdg
         row == [id |-> trj.id, pdg |-> pId, energy |-> t.kind.energy,
                 parent |-> ParentColumn(t.parent, lists')]
     IN /\ lists' = IF pId \in ListedParent
                    THEN [lists EXCEPT ![pId] = @ \cup {trj.id}] ELSE lists
        /\ IF trj.save
           THEN /\ rows' = Append(rows, row)
                /\ leadingLepton' = MostEnergetic(leadingLepton, Muons, row)
                /\ outgoingProton' = MostEnergetic(outgoingProton, Protons, row)
                /\ eventsGenerated' = eventsGenerated + 1
           ELSE UNCHANGED <<rows, leadingLepton, outgoingProton, eventsGenerated>>
  /\ i' = i + 1
  /\ UNCHANGED <<filling, vars, eventRow>>

\* The beam and the target are counted in; -1 stays -1.
TableIndex(best) == IF best.index # -1 THEN best.index + 2 ELSE -1

FillEvent ==
  /\ filling /\ ~TrajectoryLeft
  /\ eventRow' = [event |-> event, nPart |-> Len(rows),
                  leptonIndex |-> TableIndex(leadingLepton),
                  protonIndex |-> TableIndex(outgoingProton)]
  /\ filling' = FALSE
  /\ phase' = "idle"
  /\ UNCHANGED <<i, rows, lists, leadingLepton, outgoingProton, eventsGenerated,
                 event, track, stackVars, legVars, container, aborted>>

TableNext ==
  \/ Processing /\ UNCHANGED tableVars
  \/ FillBeamAndTarget
  \/ FillTrack
  \/ FillEvent

TableSpec ==
  Init /\ TableInit /\ [][TableNext]_allVars /\ WF_allVars(TableNext)
-----------------------------------------------------------------------------
TableTypeOK ==
  /\ TypeOK
  /\ filling \in BOOLEAN
  /\ i \in Nat
  /\ rows \in Seq(Row)
  /\ lists \in [ListedParent -> SUBSET Nat]
  /\ {leadingLepton, outgoingProton} \subseteq [index : Int, energy : Int]
  /\ eventRow \in [event : Nat, nPart : Nat, leptonIndex : Index, protonIndex : Index]
  /\ eventsGenerated \in Nat

\* The event has just been written: its row and its track table are final.
Written == phase = "idle" /\ event > 0 /\ eventRow.event = event

\* The rows a given index column points to, in the reader's numbering from 0.
RowAt(index) == rows[index + 1]
Primaries(pdgs) ==
  {k \in DOMAIN rows : k > 2 /\ rows[k].parent = 0 /\ rows[k].pdg \in pdgs}

IndexNamesTheBest(index, pdgs) ==
  IF Primaries(pdgs) = {} THEN index = -1
  ELSE /\ index + 1 \in Primaries(pdgs)
       /\ \A k \in Primaries(pdgs) : rows[k].energy <= RowAt(index).energy

\* leptonIndex names the most energetic primary muon of the table, if there
\* is one (EventAction.cpp:258, 389).  It is an index of the container plus 2,
\* which is the row number only if no trajectory is skipped by the loop.
LeptonIndexIsLepton == Written => IndexNamesTheBest(eventRow.leptonIndex, Muons)

\* The table is complete: of an event that was not aborted it has exactly one
\* row for every tracked particle that TrackingAction finds worth saving.
TableComplete ==
  Written /\ ~aborted =>
    /\ eventRow.nPart = Len(rows)
    /\ \A k, l \in 3 .. Len(rows) : rows[k].id = rows[l].id => k = l
    /\ {rows[k].id : k \in 3 .. Len(rows)} =
         {id \in DOMAIN track : track[id].stacked /\ SaveAPriori(track[id])}

\* Cerenkov may have suspended a track that has a photon for a daughter.
MaySuspend(id) ==
  TrackSecondariesFirst /\
    \E t \in DOMAIN track : track[t].parent = id /\ track[t].kind.pdg = OpticalPhoton

\* A secondary of a listed particle has that particle in its parent column,
\* and 999 means that its parent is none of them (EventAction.cpp:315): the
\* loop has met the parent's trajectory before the secondary's.  Only a
\* parent that was suspended may finish after its secondary, whose column
\* then is 999; no row ever names a particle that is not its parent.
ParentKnown ==
  filling \/ Written => \A k \in 3 .. Len(rows) :
    track[rows[k].id].parent # 0 =>
      LET p == track[track[rows[k].id].parent].kind.pdg
          known == IF p \in ListedParent THEN p ELSE NoIdentifiedParent
      IN  rows[k].parent \in
            {known} \cup (IF MaySuspend(track[rows[k].id].parent)
                         THEN {NoIdentifiedParent} ELSE {})

=============================================================================
