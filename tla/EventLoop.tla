------------------------------ MODULE EventLoop ------------------------------
(***************************************************************************)
(* The processing of one event after another, as MEMPHYS_sim runs it.      *)
(*                                                                         *)
(* G4EventManager::DoProcessing stacks the primaries, then pops one track  *)
(* at a time and hands it to G4TrackingManager until both stacks of        *)
(* G4StackManager are empty.  The MEMPHYS hooks decide along the way:      *)
(* StackingAction what is stacked and where, TrackingAction which          *)
(* trajectories are kept and which are marked for the track table.         *)
(*                                                                         *)
(* G4Cerenkov runs with SetTrackSecondariesFirst(true): a charged track    *)
(* that radiates is suspended, goes back on the waiting stack with the     *)
(* trajectory of the leg just done, and is resumed later; the legs'        *)
(* trajectories are merged.  One event is therefore an interleaving of the *)
(* legs of many tracks, and that order is what the properties are about.   *)
(*                                                                         *)
(* Physics is an environment: a step has any outcome that the code admits  *)
(* for the particle (Daughters, Charged).  A track is a record, named by   *)
(* its track ID, that is, its index in the sequence `track'.               *)
(***************************************************************************)
EXTENDS Integers, Sequences

CONSTANTS
  Species,               \* the PDG codes of the particles in play
  Charged,               \* those that Cerenkov radiation applies to
  Energy,                \* total energies, in units of the save threshold
  PrimaryKind,           \* what the generator may shoot
  Daughters,             \* what a step of each species may create
  TrackSecondariesFirst, \* G4Cerenkov's flag; MEMPHYS sets it to true
  DrawOptical,           \* /MEMPHYS/tracking/drawing/optical
  MayAbort,              \* may a step raise EventMustBeAborted?
  MaxEvents,             \* bound: events of the run
  MaxPrimaries,          \* bound: primaries of an event
  MaxTracks,             \* bound: track IDs of an event
  MaxSteps,              \* bound: steps of a track, all legs together
  MaxPerStep             \* bound: secondaries of a step

OpticalPhoton == 0                    \* its PDG code in Geant4 10.3
Gamma         == 22

\* What is known of a particle when it is created.
Kind == [pdg : Species, energy : Energy, creator : {"none", "Decay", "other"}]

ASSUME EventLoopAssumption ==
  /\ Species \subseteq Int
  /\ Charged \subseteq Species \ {OpticalPhoton, Gamma}
  /\ Energy \subseteq Nat
  /\ PrimaryKind \subseteq Kind
  /\ Daughters \in [Species -> SUBSET Kind]
  /\ \A p \in Species \ Charged : \A k \in Daughters[p] : k.pdg # OpticalPhoton
  /\ TrackSecondariesFirst \in BOOLEAN
  /\ DrawOptical \in BOOLEAN /\ MayAbort \in BOOLEAN
  /\ MaxEvents \in Nat /\ MaxPrimaries \in Nat /\ MaxTracks \in Nat
  /\ MaxSteps \in Nat /\ MaxPerStep \in Nat

VARIABLES
  event,               \* number of events begun
  phase,               \* where DoProcessing is
  track,               \* every track of the event, by track ID
  urgent, waiting,     \* the stacks of G4StackManager
  secondaries,         \* the vector StackTracks is about to stack
  current,             \* ID of the track in G4TrackingManager, 0 if none
  previousTrajectory,  \* what PopNextTrack returned with the track
  fpTrajectory,        \* the trajectory of the leg being tracked
  info,                \* the TrackInformation of the leg
  status,              \* G4TrackStatus of the current track
  container,           \* the event's G4TrajectoryContainer
  aborted              \* G4Event::IsAborted

stackVars == <<urgent, waiting, secondaries>>
legVars   == <<current, previousTrajectory, fpTrajectory, info, status>>
vars == <<event, phase, track, stackVars, legVars, container, aborted>>

Phase  == {"idle", "stack", "pop", "pre", "step", "post", "retire", "end"}
Status == {"fAlive", "fStopButAlive", "fSuspend", "fStopAndKill",
           "fKillTrackAndSecondaries"}

\* `stop' is the stopping point: the steps that the track had made there.
NoTrajectory == [id |-> 0, points |-> 0, stop |-> 0, save |-> FALSE]
NoInfo == [save |-> FALSE, draw |-> FALSE, hitPMT |-> FALSE]

NewTrack   == [kind : Kind, parent : Nat]
Track      == [kind : Kind, parent : Nat, stacked : BOOLEAN, steps : Nat,
               deleted : BOOLEAN]
Trajectory == [id : Nat, points : Nat, stop : Nat, save : BOOLEAN]
Stacked    == [id : Nat \ {0}, trajectory : Trajectory]

SeqUpTo(S, n) == UNION {[1 .. k -> S] : k \in 0 .. n}

\* The new tracks of a list of particles.
TracksOf(particles, parent) ==
  [k \in DOMAIN particles |-> [kind |-> particles[k], parent |-> parent]]

(***************************************************************************)
(* The decisions of the MEMPHYS hooks.                                     *)
(***************************************************************************)
ParticleList == {111, 211, -211, 321, -321, 311, -311}
ProcessList  == {"Decay"}   \* muon capture at rest is not built with 10.3

\* TrackingAction: is a track worth saving a priori?  1 is the threshold.
SaveAPriori(t) ==
  \/ t.parent = 0
  \/ t.kind.creator \in ProcessList
  \/ t.kind.pdg \in ParticleList
  \/ t.kind.pdg = Gamma /\ t.kind.energy > 1

\* StackingAction: an optical photon survives the quantum efficiency or not.
ClassifyNewTrack(t) ==
  {"fWaiting"} \cup (IF t.kind.pdg = OpticalPhoton THEN {"fKill"} ELSE {})

\* Mutant: the stopping point stays where the first leg stopped.
MergeTrajectoryMutant(first, second) ==
  IF second = NoTrajectory THEN first
  ELSE [first EXCEPT !.points = @ + second.points - 1]

\* Trajectory: the first point of the second leg is the last of the first;
\* the track stops where the second leg does.
MergeTrajectory(first, second) ==
  IF second = NoTrajectory THEN first
  ELSE [first EXCEPT !.points = @ + second.points - 1, !.stop = second.stop]

\* DoProcessing: the leg's trajectory, joined to the earlier legs' one.
LegTrajectory ==
  IF previousTrajectory = NoTrajectory THEN fpTrajectory
  ELSE MergeTrajectory(previousTrajectory, fpTrajectory)

\* G4TrackStack is a vector that grows and is read at its end.  The mutant is
\* a queue.
PushToStackMutant(stack, stacked) == <<stacked>> \o stack
PushToStack(stack, stacked) == Append(stack, stacked)

StackOrPop(s) == IF s = <<>> THEN "pop" ELSE "stack"

\* ProcessOneTrack: the loop goes on while the track is alive or at rest.
StepOrPost(s) == IF s \in {"fAlive", "fStopButAlive"} THEN "step" ELSE "post"

-----------------------------------------------------------------------------
Init ==
  /\ event = 0 /\ phase = "idle" /\ track = <<>>
  /\ urgent = <<>> /\ waiting = <<>> /\ secondaries = <<>>
  /\ current = 0 /\ previousTrajectory = NoTrajectory
  /\ fpTrajectory = NoTrajectory /\ info = NoInfo /\ status = "fAlive"
  /\ container = <<>> /\ aborted = FALSE

\* A new G4Event: the urgent stack is destroyed, the track ID counter and
\* the trajectory container start afresh, the primaries are to be stacked.
BeginOfEvent ==
  /\ phase = "idle"
  /\ event < MaxEvents
  /\ \E prim \in SeqUpTo(PrimaryKind, MaxPrimaries) :
       /\ secondaries' = TracksOf(prim, 0)
       /\ phase' = StackOrPop(prim)
  /\ event' = event + 1
  /\ track' = <<>>
  /\ urgent' = <<>>
  /\ container' = <<>>
  /\ aborted' = FALSE
  /\ UNCHANGED <<waiting, legVars>>

\* StackTracks: IDs are given from 1 on; 0 is the parent of the primaries.
\* The mutant increments the counter after the ID is taken.
NextTrackIDMutant == Len(track)
NextTrackID == Len(track) + 1

\* One turn of StackTracks: the next ID, then PushOneTrack, which asks
\* StackingAction; a track classified fKill is deleted without stacking.
PushOneTrack ==
  /\ phase = "stack"
  /\ LET t == Head(secondaries) IN
       \E classification \in ClassifyNewTrack(t) :
         /\ track' = Append(track,
              [kind |-> t.kind, parent |-> t.parent, steps |-> 0,
               stacked |-> classification # "fKill",
               deleted |-> classification = "fKill"])
         /\ waiting' =
              IF classification = "fKill" THEN waiting
              ELSE PushToStack(waiting, [id |-> NextTrackID,
                                         trajectory |-> NoTrajectory])
  /\ secondaries' = Tail(secondaries)
  /\ phase' = StackOrPop(secondaries')
  /\ UNCHANGED <<event, urgent, legVars, container, aborted>>

\* Mutant: the urgent stack is refilled before it is empty.
StageMutant == IF waiting = <<>> THEN urgent ELSE waiting

\* PopNextTrack: an empty urgent stack is refilled with the whole waiting
\* stack, and the last track of the urgent stack is taken.
Stage == IF urgent = <<>> THEN waiting ELSE urgent

PopNextTrack ==
  /\ phase = "pop"
  /\ Stage # <<>>
  /\ LET top == Stage[Len(Stage)] IN
       /\ current' = top.id
       /\ previousTrajectory' = top.trajectory
  /\ urgent' = SubSeq(Stage, 1, Len(Stage) - 1)
  /\ waiting' = IF urgent = <<>> THEN <<>> ELSE waiting
  /\ phase' = "pre"
  /\ UNCHANGED <<event, track, secondaries, fpTrajectory, info, status,
                 container, aborted>>

\* PopNextTrack returns 0: both stacks are empty and the loop is over.
NoMoreTracks ==
  /\ phase = "pop"
  /\ Stage = <<>>
  /\ phase' = "end"
  /\ UNCHANGED <<event, track, stackVars, legVars, container, aborted>>

\* SetInitialStep revives a suspended track; a track at rest is fStopButAlive.
\* The mutant forgets to revive it.
InitialStatusMutant ==
  IF track[current].steps = 0 THEN {"fAlive"} ELSE {"fSuspend"}

InitialStatus ==
  {"fAlive"} \cup (IF track[current].kind.pdg = OpticalPhoton THEN {}
                   ELSE {"fStopButAlive"})

\* ProcessOneTrack, up to the loop: PreUserTrackingAction creates the leg's
\* trajectory and TrackInformation.
PreUserTrackingAction ==
  /\ phase = "pre"
  /\ status' \in InitialStatus
  /\ fpTrajectory' = [id |-> current, points |-> 1,
                     stop |-> track[current].steps, save |-> FALSE]
  /\ info' = [save |-> SaveAPriori(track[current]),
              draw |-> SaveAPriori(track[current]), hitPMT |-> FALSE]
  /\ phase' = StepOrPost(status')
  /\ UNCHANGED <<event, track, stackVars, current, previousTrajectory,
                 container, aborted>>

(***************************************************************************)
(* Stepping.  Each turn of the loop of ProcessOneTrack is one Stepping     *)
(* and one AppendStep.                                                     *)
(***************************************************************************)
Radiates(new) == \E i \in DOMAIN new : new[i].pdg = OpticalPhoton
Decays(new)   == \E i \in DOMAIN new : new[i].creator = "Decay"

\* The secondaries a step may add to the track vector, within MaxTracks.
SecondariesOf(pdg) ==
  {new \in SeqUpTo(Daughters[pdg], MaxPerStep) :
     Len(track) + Len(secondaries) + Len(new) <= MaxTracks}

Optical == track[current].kind.pdg = OpticalPhoton

\* The statuses a step may leave.  At rest, Stepping itself kills the track.
\* In flight, G4Cerenkov suspends an fAlive track that it made radiate; a
\* photon is never at rest; the last step allowed by the bound is a kill.
StatusAfter(new) ==
  LET inFlight == status = "fAlive"
      mayGoOn  == inFlight /\ ~Decays(new)
                    /\ track[current].steps + 1 < MaxSteps
      suspends == TrackSecondariesFirst /\ Radiates(new)
  IN {"fStopAndKill"}
     \cup (IF mayGoOn /\ ~suspends THEN {"fAlive"} ELSE {})
     \cup (IF mayGoOn /\ suspends THEN {"fSuspend"} ELSE {})
     \cup (IF mayGoOn /\ ~Optical THEN {"fStopButAlive"} ELSE {})

\* A photon that a photocathode detects is killed and flagged hitPMT.
Stepping ==
  /\ phase = "step"
  /\ \E new \in SecondariesOf(track[current].kind.pdg) :
       /\ Radiates(new) => status = "fAlive"
       /\ status' \in StatusAfter(new)
       /\ secondaries' = secondaries \o TracksOf(new, current)
  /\ \E hit \in BOOLEAN :
       /\ hit => Optical /\ status' = "fStopAndKill"
       /\ info' = [info EXCEPT !.hitPMT = hit]
  /\ track' = [track EXCEPT ![current].steps = @ + 1]
  /\ fpTrajectory' = [fpTrajectory EXCEPT !.points = @ + 1]
  /\ phase' = StepOrPost(status')
  /\ UNCHANGED <<event, urgent, waiting, current, previousTrajectory,
                 container, aborted>>

\* A step in which G4Exception has the severity EventMustBeAborted (a stuck
\* track, an invalid normal at a boundary): AbortCurrentEvent destroys both
\* stacks and the track being stepped leaves the loop with its secondaries.
Ids(stack) == {stack[i].id : i \in DOMAIN stack}

AbortCurrentEvent ==
  /\ MayAbort
  /\ phase = "step"
  /\ track' = [id \in DOMAIN track |->
       IF id = current THEN [track[id] EXCEPT !.steps = @ + 1]
       ELSE IF id \in Ids(urgent) \cup Ids(waiting)
       THEN [track[id] EXCEPT !.deleted = TRUE]
       ELSE track[id]]
  /\ urgent' = <<>>
  /\ waiting' = <<>>
  /\ fpTrajectory' = [fpTrajectory EXCEPT !.points = @ + 1]
  /\ status' = "fKillTrackAndSecondaries"
  /\ aborted' = TRUE
  /\ phase' = "post"
  /\ UNCHANGED <<event, secondaries, current, previousTrajectory, info, container>>

\* A photon that hit a PMT may be drawn.
Draws == info.draw \/ (Optical /\ info.hitPMT /\ DrawOptical)

\* A leg worth saving marks its trajectory for the tuple and notes where it
\* stops; a leg neither drawn nor saved loses its trajectory.  The mutant
\* forgets the mark.
KeptTrajectoryMutant == IF Draws THEN fpTrajectory ELSE NoTrajectory

KeptTrajectory ==
  IF info.save
  THEN [fpTrajectory EXCEPT !.save = TRUE, !.stop = track[current].steps]
  ELSE IF Draws THEN fpTrajectory ELSE NoTrajectory

PostUserTrackingAction ==
  /\ phase = "post"
  /\ info' = [info EXCEPT !.draw = Draws]
  /\ fpTrajectory' = KeptTrajectory
  /\ phase' = "retire"
  /\ UNCHANGED <<event, track, stackVars, current, previousTrajectory, status,
                 container, aborted>>

(***************************************************************************)
(* What DoProcessing does with the track that ProcessOneTrack returns.     *)
(***************************************************************************)
Retire ==
  /\ phase = "retire"
  /\ phase' = StackOrPop(secondaries')
  /\ current' = 0
  /\ previousTrajectory' = NoTrajectory
  /\ fpTrajectory' = NoTrajectory
  /\ info' = NoInfo
  /\ status' = "fAlive"
  /\ UNCHANGED <<event, urgent, aborted>>

Insert(trajectory) ==
  container' = IF trajectory = NoTrajectory THEN container
               ELSE Append(container, trajectory)

\* fSuspend: the track goes back on the waiting stack before its secondaries.
SuspendTrack ==
  /\ status = "fSuspend"
  /\ waiting' = PushToStack(waiting, [id |-> current, trajectory |-> LegTrajectory])
  /\ UNCHANGED <<track, secondaries, container>>
  /\ Retire

\* fStopAndKill: the trajectory is complete, the secondaries are stacked.
KillTrack ==
  /\ status = "fStopAndKill"
  /\ Insert(LegTrajectory)
  /\ track' = [track EXCEPT ![current].deleted = TRUE]
  /\ UNCHANGED <<waiting, secondaries>>
  /\ Retire

\* fKillTrackAndSecondaries: the secondaries are deleted without stacking.
AbortTrack ==
  /\ status = "fKillTrackAndSecondaries"
  /\ Insert(LegTrajectory)
  /\ track' = [track EXCEPT ![current].deleted = TRUE]
  /\ secondaries' = <<>>
  /\ UNCHANGED waiting
  /\ Retire

\* EndOfEventAction has read the container; G4RunManager goes on.
EndOfEvent ==
  /\ phase = "end"
  /\ phase' = "idle"
  /\ UNCHANGED <<event, track, stackVars, legVars, container, aborted>>

\* DoProcessing, from the first primary to the empty stacks.
Processing ==
  \/ BeginOfEvent \/ PushOneTrack \/ PopNextTrack \/ NoMoreTracks
  \/ PreUserTrackingAction \/ Stepping \/ AbortCurrentEvent
  \/ PostUserTrackingAction \/ SuspendTrack \/ KillTrack \/ AbortTrack

Next == Processing \/ EndOfEvent

\* One thread runs the loop and never waits for anything.
Fairness == WF_vars(Next)
Spec == Init /\ [][Next]_vars /\ Fairness
-----------------------------------------------------------------------------
TypeOK ==
  /\ event \in Nat
  /\ phase \in Phase
  /\ track \in Seq(Track)
  /\ urgent \in Seq(Stacked) /\ waiting \in Seq(Stacked)
  /\ secondaries \in Seq(NewTrack)
  /\ current \in Nat
  /\ previousTrajectory \in Trajectory /\ fpTrajectory \in Trajectory
  /\ info \in [save : BOOLEAN, draw : BOOLEAN, hitPMT : BOOLEAN]
  /\ status \in Status
  /\ container \in Seq(Trajectory)
  /\ aborted \in BOOLEAN

\* Every track of the event that is not deleted is in exactly one place: the
\* urgent stack, the waiting stack or the tracking manager, so none is leaked,
\* tracked twice or used after its deletion (G4StackManager, DoProcessing).
NoRepeat(stack) ==
  \A i, j \in DOMAIN stack : stack[i].id = stack[j].id => i = j

InTracking == IF current = 0 THEN {} ELSE {current}
Live == {id \in DOMAIN track : ~track[id].deleted}

TrackInOnePlace ==
  /\ Live = Ids(urgent) \cup Ids(waiting) \cup InTracking
  /\ NoRepeat(urgent) /\ NoRepeat(waiting)
  /\ Ids(urgent) \cap Ids(waiting) = {}
  /\ current \notin Ids(urgent) \cup Ids(waiting)

\* A trajectory of the container is that of a finished track, all legs
\* joined: one point where the track began and one per step, however often
\* the track was suspended, and, if it goes to the tuple, a stopping point
\* that is the last of them; a track has at most one trajectory there.
TrajectoryComplete ==
  /\ NoRepeat(container)
  /\ \A i \in DOMAIN container :
       /\ container[i].id \in DOMAIN track
       /\ LET t == track[container[i].id]
          IN /\ t.deleted /\ container[i].points = 1 + t.steps
             /\ container[i].save => container[i].stop = t.steps

\* When an event that was not aborted ends, every track was tracked to its
\* end, and each one that TrackingAction finds worth saving is in the
\* container with the flag that sends it to the track table.
NothingLeftAtEnd ==
  phase = "end" /\ ~aborted =>
    \A id \in DOMAIN track :
      /\ track[id].deleted
      /\ track[id].stacked => track[id].steps > 0
      /\ SaveAPriori(track[id]) /\ track[id].stacked =>
           \E i \in DOMAIN container : container[i].id = id /\ container[i].save

\* SetTrackSecondariesFirst: a radiating track is suspended to track the
\* photons first.  When it is resumed none of its photons is still alive,
\* and each of its other secondaries has been tracked at least once.
SecondariesFirst ==
  phase = "pre" /\ track[current].steps > 0 =>
    \A id \in DOMAIN track :
      track[id].parent = current /\ track[id].stacked =>
        /\ track[id].kind.pdg = OpticalPhoton => track[id].deleted
        /\ track[id].steps > 0

\* Every event that begins ends: the loop empties the stacks although
\* suspended tracks are stacked again.
EventEnds == (phase \notin {"idle", "end"}) ~> (phase = "end")
=============================================================================
