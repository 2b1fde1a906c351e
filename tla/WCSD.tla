-------------------------------- MODULE WCSD --------------------------------
(***************************************************************************)
(* Detection of optical photons: the sensitive detector WCSD, the calls    *)
(* that reach it during one G4SteppingManager::Stepping, and the status    *)
(* flags of TrackInformation.                                              *)
(*                                                                         *)
(* One detection can reach WCSD::ProcessHits three times: G4OpBoundary-    *)
(* Process::InvokeSD calls it while the photon is still fAlive, Stepping   *)
(* calls it if the step began in a sensitive volume, and SteppingAction    *)
(* calls it by hand when the boundary process says Detection.  That status *)
(* belongs to the process, not to the step: it is whatever the last        *)
(* invocation left, perhaps for another photon.                            *)
(*                                                                         *)
(* A tube stands for its tag; the tube IDs are the subject of TubeRegistry.*)
(***************************************************************************)
EXTENDS Integers, Sequences

CONSTANTS Photon,    \* track IDs of the event's photons
          Tube,      \* tube IDs
          MaxEvents  \* bound: events

ASSUME WCSDAssumption ==
  Photon \subseteq Nat \ {0} /\ Tube # {} /\ MaxEvents \in Nat

VARIABLES
  event,           \* number of events begun
  pc,              \* where the tracking of the event is
  current,         \* the photon being tracked
  alive,           \* is its G4TrackStatus fAlive?
  flags,           \* TrackInformation::status of each photon, as a set
  step,            \* the G4Step being made
  boundaryStatus,  \* G4OpBoundaryProcess::theStatus
  hitsCollection,  \* the event's WCHitsCollection
  PMTHitMap        \* index + 1 of a tube's hit in it, 0 if it has none

hitVars == <<hitsCollection, PMTHitMap>>
vars == <<event, pc, current, alive, flags, step, boundaryStatus, hitVars>>

Inactive == {"hitPMT", "absorbed", "boundaryAbsorbed"}
Flag     == {"active"} \cup Inactive

\* The boundary process's statuses that the code tells apart; "other" is any
\* reflection, refraction or transmission.
Boundary == {"NotAtBoundary", "Absorption", "Detection", "other"}

Particle == {"opticalphoton", "other"}
Volume   == {"WCPMT", "expHall", "other"}
Step == [particle : Particle, pre : Volume, post : Volume,
         geomBoundary : BOOLEAN, process : {"OpAbsorption", "other"}, tube : Tube]
NoStep == [particle |-> "other", pre |-> "other", post |-> "other",
           geomBoundary |-> FALSE, process |-> "other",
           tube |-> CHOOSE t \in Tube : TRUE]

Hit == [tubeID : Tube, totalPe : Nat \ {0}, trkId : Seq(Photon)]

Init ==
  /\ event = 0 /\ pc = "idle" /\ current = 0 /\ alive = FALSE
  /\ flags = [p \in Photon |-> {}]
  /\ step = NoStep
  /\ boundaryStatus = "NotAtBoundary"
  /\ hitsCollection = <<>>
  /\ PMTHitMap = [t \in Tube |-> 0]

\* Mutant: the collection of the last event is used again.
InitializeMutant ==
  /\ pc = "idle" /\ event < MaxEvents
  /\ event' = event + 1
  /\ pc' = "next"
  /\ flags' = [p \in Photon |-> {}]
  /\ PMTHitMap' = [t \in Tube |-> 0]
  /\ UNCHANGED <<current, alive, step, boundaryStatus, hitsCollection>>

\* WCSD::Initialize, from G4SDManager::PrepareNewEvent: a new collection and
\* an empty map.  The event has photons of its own.
Initialize ==
  /\ pc = "idle" /\ event < MaxEvents
  /\ event' = event + 1
  /\ pc' = "next"
  /\ flags' = [p \in Photon |-> {}]
  /\ hitsCollection' = <<>>
  /\ PMTHitMap' = [t \in Tube |-> 0]
  /\ UNCHANGED <<current, alive, step, boundaryStatus>>

\* The next photon, with a new TrackInformation.
StartTrack(p) ==
  /\ pc = "next" /\ flags[p] = {}
  /\ current' = p
  /\ alive' = TRUE
  /\ flags' = [flags EXCEPT ![p] = {"active"}]
  /\ pc' = "step"
  /\ UNCHANGED <<event, step, boundaryStatus, hitVars>>

(***************************************************************************)
(* ProcessHits_constStep: only photons that are no longer alive count; the *)
(* first one of a tube makes the tube's hit, the others are added to it.   *)
(* The mutants count an alive photon, make a hit without its first         *)
(* photo-electron, and file the hit under its index from 0.                *)
(***************************************************************************)
CountsMutant(particle, isAlive) == particle = "opticalphoton"
Counts(particle, isAlive) == particle = "opticalphoton" /\ ~isAlive

NewHit(tube, id) == [tubeID |-> tube, totalPe |-> 1, trkId |-> <<id>>]
WithPe(hit, id) ==
  [tubeID |-> hit.tubeID, totalPe |-> hit.totalPe + 1, trkId |-> Append(hit.trkId, id)]

MapEntryMutant(collection) == Len(collection) - 1
MapEntry(collection) == Len(collection)

RecordHit(tube, id) ==
  IF PMTHitMap[tube] = 0
  THEN /\ hitsCollection' = Append(hitsCollection, NewHit(tube, id))
       /\ PMTHitMap' = [PMTHitMap EXCEPT ![tube] = MapEntry(hitsCollection')]
  ELSE /\ hitsCollection' =
            [hitsCollection EXCEPT ![PMTHitMap[tube]] = WithPe(@, id)]
       /\ UNCHANGED PMTHitMap

ProcessHits(particle, isAlive, tube, id) ==
  IF Counts(particle, isAlive) THEN RecordHit(tube, id) ELSE UNCHANGED hitVars

(***************************************************************************)
(* The post-step processes of one Stepping.  A photon that OpAbsorption    *)
(* kills does not reach the boundary process, whose status stays.          *)
(***************************************************************************)
Photonic(pre, post, geomBoundary, process, t) ==
  [particle |-> "opticalphoton", pre |-> pre, post |-> post,
   geomBoundary |-> geomBoundary, process |-> process, tube |-> t]

AfterProcesses ==
  /\ pc' = "sensitive"
  /\ UNCHANGED <<event, current, flags>>

\* The photon goes on: it scatters inside a volume or crosses a boundary,
\* at the end into the hall.
Propagate(t) ==
  /\ pc = "step"
  /\ \E atBoundary \in BOOLEAN, post \in {"expHall", "other"} :
       /\ post = "expHall" => atBoundary
       /\ step' = Photonic("other", post, atBoundary, "other", t)
       /\ boundaryStatus' = IF atBoundary THEN "other" ELSE "NotAtBoundary"
  /\ UNCHANGED <<alive, hitVars>>
  /\ AfterProcesses

\* OpAbsorption in the water or the glass.
Absorb(t) ==
  /\ pc = "step"
  /\ step' = Photonic("other", "other", FALSE, "OpAbsorption", t)
  /\ alive' = FALSE
  /\ UNCHANGED <<boundaryStatus, hitVars>>
  /\ AfterProcesses

\* The black sheet absorbs the photon.
AbsorbAtBoundary(t) ==
  /\ pc = "step"
  /\ step' = Photonic("other", "other", TRUE, "other", t)
  /\ boundaryStatus' = "Absorption"
  /\ alive' = FALSE
  /\ UNCHANGED hitVars
  /\ AfterProcesses

\* DoAbsorption on the photocathode, from the glass into WCPMT: InvokeSD
\* calls the detector of the volume entered, the photon being fAlive until
\* the particle change is applied.
Detect(t) ==
  /\ pc = "step"
  /\ step' = Photonic("other", "WCPMT", TRUE, "other", t)
  /\ boundaryStatus' = "Detection"
  /\ ProcessHits("opticalphoton", alive, t, current)
  /\ alive' = FALSE
  /\ AfterProcesses

\* Another particle, whose ID is none of the photons', steps through the
\* sensitive volume between two photons: 0 stands for it.
ChargedStep(t) ==
  /\ pc = "next"
  /\ step' = [NoStep EXCEPT !.pre = "WCPMT", !.tube = t]
  /\ \E stays \in BOOLEAN : alive' = stays
  /\ current' = 0
  /\ pc' = "sensitive"
  /\ UNCHANGED <<event, flags, boundaryStatus, hitVars>>

\* Stepping sends the step to the detector of the volume where it began.
SensitiveDetectorHit ==
  /\ pc = "sensitive"
  /\ IF step.pre = "WCPMT"
     THEN ProcessHits(step.particle, alive, step.tube, current)
     ELSE UNCHANGED hitVars
  /\ pc' = "user"
  /\ UNCHANGED <<event, current, alive, flags, step, boundaryStatus>>

(***************************************************************************)
(* SteppingAction::UserSteppingAction.                                     *)
(***************************************************************************)
\* AddTrackStatusFlag: an active flag clears the inactive ones, an inactive
\* flag clears the active one.
AddTrackStatusFlag(status, s) ==
  IF s = "active" THEN (status \ Inactive) \cup {s}
  ELSE (status \ {"active"}) \cup {s}

\* Mutant: the status is used wherever the step ended.
BoundaryOfStepMutant == boundaryStatus

\* The status of the boundary process, where the step ended at a boundary.
BoundaryOfStep == IF step.geomBoundary THEN boundaryStatus ELSE "NotAtBoundary"

FlagsAfterStep(status) ==
  LET afterProcess == IF step.process = "OpAbsorption"
                      THEN AddTrackStatusFlag(status, "absorbed") ELSE status
  IN CASE BoundaryOfStep = "Absorption" ->
            AddTrackStatusFlag(afterProcess, "boundaryAbsorbed")
       [] BoundaryOfStep = "Detection" ->
            AddTrackStatusFlag(afterProcess, "hitPMT")
       [] OTHER -> afterProcess

UserSteppingAction ==
  /\ pc = "user"
  /\ IF step.particle = "opticalphoton"
     THEN /\ alive' = (alive /\ step.post # "expHall")
          /\ IF BoundaryOfStep = "Detection"
             THEN ProcessHits(step.particle, alive', step.tube, current)
             ELSE UNCHANGED hitVars
          /\ flags' = [flags EXCEPT ![current] = FlagsAfterStep(@)]
          /\ pc' = IF alive' THEN "step" ELSE "next"
     ELSE UNCHANGED <<alive, hitVars, flags>> /\ pc' = "next"
  /\ UNCHANGED <<event, current, step, boundaryStatus>>

\* The event loop is over (it may be cut short by an abort).
EndOfEvent ==
  /\ pc = "next"
  /\ pc' = "idle"
  /\ UNCHANGED <<event, current, alive, flags, step, boundaryStatus, hitVars>>

Next ==
  \/ Initialize
  \/ \E p \in Photon : StartTrack(p)
  \/ \E t \in Tube : \/ Propagate(t) \/ Absorb(t) \/ AbsorbAtBoundary(t)
                     \/ Detect(t) \/ ChargedStep(t)
  \/ SensitiveDetectorHit
  \/ UserSteppingAction
  \/ EndOfEvent

Spec == Init /\ [][Next]_vars
-----------------------------------------------------------------------------
TypeOK ==
  /\ event \in Nat
  /\ pc \in {"idle", "next", "step", "sensitive", "user"}
  /\ current \in Photon \cup {0}
  /\ alive \in BOOLEAN
  /\ flags \in [Photon -> SUBSET Flag]
  /\ step \in Step
  /\ boundaryStatus \in Boundary
  /\ hitsCollection \in Seq(Hit)
  /\ PMTHitMap \in [Tube -> Nat]

\* PMTHitMap leads to the hit of the tube it is asked for, and every hit of
\* the collection is reached that way: a tube has one hit (WCSD.hh:93-130).
MapMatchesCollection ==
  /\ \A t \in Tube : PMTHitMap[t] # 0 =>
       /\ PMTHitMap[t] \in DOMAIN hitsCollection
       /\ hitsCollection[PMTHitMap[t]].tubeID = t
  /\ \A i \in DOMAIN hitsCollection : PMTHitMap[hitsCollection[i].tubeID] = i

\* Where photon p was counted: the hits and the places in their trkId.
Places(p) ==
  UNION {{<<i, j>> : j \in {k \in DOMAIN hitsCollection[i].trkId :
                             hitsCollection[i].trkId[k] = p}} :
           i \in DOMAIN hitsCollection}

\* Between two steps, a photon is in a tube's hit if and only if it is
\* flagged hitPMT (the flag that PostUserTrackingAction draws it for), and it
\* is there once, although ProcessHits is called twice for it.
CountedOnceIfDetected ==
  pc \in {"next", "step", "idle"} =>
    \A p \in Photon :
      /\ "hitPMT" \in flags[p] <=> Places(p) # {}
      /\ \A a, b \in Places(p) : a = b

\* The flags never say that a photon ended in two ways, nor that it is both
\* tracked and stopped (TrackInformation.hh:61-67).
FlagsConsistent ==
  \A p \in Photon : \A a, b \in flags[p] : a = b

\* The count of a tube is that of its hit in the collection.
TubePe(t) ==
  IF \E i \in DOMAIN hitsCollection : hitsCollection[i].tubeID = t
  THEN hitsCollection[CHOOSE i \in DOMAIN hitsCollection :
                        hitsCollection[i].tubeID = t].totalPe
  ELSE 0

Counted ==
  UNION {{hitsCollection[i].trkId[j] : j \in DOMAIN hitsCollection[i].trkId} :
           i \in DOMAIN hitsCollection}

\* Refinement: the hits collection implements PhotonCounting.
Counting == INSTANCE PhotonCounting WITH
              pe <- [t \in Tube |-> TubePe(t)], counted <- Counted
ImplementsCounting == Counting!Spec
=============================================================================
