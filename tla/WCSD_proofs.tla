------------------------------ MODULE WCSD_proofs ------------------------------
(***************************************************************************)
(* Proofs about WCSD, for every set of photons and tubes and any number of *)
(* events: the map leads to the hits, a detection is counted exactly once, *)
(* flags do not contradict each other, and the hits collection implements  *)
(* PhotonCounting.                                                         *)
(*                                                                         *)
(* The argument: while a photon is stepped its flag is "active" alone and  *)
(* no hit holds it; the call of InvokeSD finds it alive and counts         *)
(* nothing; and the status of the boundary process says "Detection" of the *)
(* step at hand only if this step ended the photon, so that the call of    *)
(* SteppingAction counts it in the step that also sets its flag.           *)
(***************************************************************************)
EXTENDS WCSD, SequenceTheorems, TLAPS

-----------------------------------------------------------------------------
(* The inductive invariant *)

\* Photon p is at place j of the track IDs of hit i.
IsAt(hits, i, j, p) ==
  i \in DOMAIN hits /\ j \in DOMAIN hits[i].trkId /\ hits[i].trkId[j] = p

\* One more photon is in the hits, in one place.
OneMore(new, hits, k, m, id) ==
  \A i, j, p : IsAt(new, i, j, p) <=> IsAt(hits, i, j, p) \/ (i = k /\ j = m /\ p = id)

InHits(p) == \E i, j : IsAt(hitsCollection, i, j, p)

\* What CountedOnceIfDetected says between two steps holds at any moment.
CountedInv ==
  \A p \in Photon :
    /\ "hitPMT" \in flags[p] <=> InHits(p)
    /\ \A i, j, k, l : IsAt(hitsCollection, i, j, p) /\ IsAt(hitsCollection, k, l, p)
                         => i = k /\ j = l

\* The photon being stepped, and what its step says of it.
StepInv ==
  /\ pc = "step" => alive /\ current \in Photon /\ flags[current] = {"active"}
  /\ pc \in {"sensitive", "user"} /\ step.particle = "opticalphoton" =>
       /\ current \in Photon /\ flags[current] = {"active"} /\ step.pre = "other"
       /\ BoundaryOfStep \in {"Absorption", "Detection"} =>
            ~alive /\ step.process = "other"
       /\ alive => step.process = "other"

IInv == TypeOK /\ MapMatchesCollection /\ CountedInv /\ FlagsConsistent /\ StepInv

-----------------------------------------------------------------------------
(* ProcessHits *)

\* The count of a tube, looked up in the map.
CountOf(t) == IF PMTHitMap[t] = 0 THEN 0 ELSE hitsCollection[PMTHitMap[t]].totalPe

\* Filing a photo-electron adds the photon in one place, raises the count of
\* its tube by one and keeps the map true (WCSD.hh:93-130).
LEMMA RecordHitCounts ==
  ASSUME TypeOK, MapMatchesCollection, NEW tube \in Tube, NEW id \in Photon,
         RecordHit(tube, id)
  PROVE  /\ hitsCollection' \in Seq(Hit) /\ PMTHitMap' \in [Tube -> Nat]
         /\ MapMatchesCollection'
         /\ \E k, m : OneMore(hitsCollection', hitsCollection, k, m, id)
         /\ \A t \in Tube : CountOf(t)' = IF t = tube THEN CountOf(t) + 1 ELSE CountOf(t)
<1> DEFINE n == Len(hitsCollection)
<1>1. /\ hitsCollection \in Seq(Hit) /\ PMTHitMap \in [Tube -> Nat]
      /\ n \in Nat /\ DOMAIN hitsCollection = 1 .. n
      /\ \A i \in 1 .. n : hitsCollection[i] \in Hit
  BY DEF TypeOK
<1>m. /\ \A t \in Tube : PMTHitMap[t] # 0 =>
            PMTHitMap[t] \in 1 .. n /\ hitsCollection[PMTHitMap[t]].tubeID = t
      /\ \A i \in 1 .. n : PMTHitMap[hitsCollection[i].tubeID] = i
      /\ \A i \in 1 .. n : hitsCollection[i].tubeID \in Tube
                            /\ hitsCollection[i].totalPe \in Nat \ {0}
  BY <1>1 DEF MapMatchesCollection, Hit
<1>2. CASE PMTHitMap[tube] = 0
  <2> DEFINE h == NewHit(tube, id)
  <2>1. /\ h \in Hit /\ h.tubeID = tube /\ h.totalPe = 1 /\ h.trkId = <<id>>
    BY DEF Hit, NewHit
  <2>2. hitsCollection' = Append(hitsCollection, h)
        /\ PMTHitMap' = [PMTHitMap EXCEPT ![tube] = Len(hitsCollection')]
    BY <1>2 DEF RecordHit, MapEntry
  <2> HIDE DEF h
  <2>3. /\ hitsCollection' \in Seq(Hit) /\ Len(hitsCollection') = n + 1
        /\ DOMAIN hitsCollection' = 1 .. n + 1
        /\ \A i \in 1 .. n : hitsCollection'[i] = hitsCollection[i]
        /\ hitsCollection'[n + 1] = h
    BY <1>1, <2>1, <2>2, AppendProperties
  <2>4. PMTHitMap' = [PMTHitMap EXCEPT ![tube] = n + 1]
    BY <2>2, <2>3
  <2>5. \A i \in 1 .. n : hitsCollection[i].tubeID # tube
    BY <1>1, <1>2, <1>m
  <2>6. MapMatchesCollection'
    <3>1. ASSUME NEW t \in Tube, PMTHitMap'[t] # 0
          PROVE  PMTHitMap'[t] \in 1 .. n + 1 /\ hitsCollection'[PMTHitMap'[t]].tubeID = t
      <4>1. CASE t = tube
        BY <1>1, <2>1, <2>3, <2>4, <4>1
      <4>2. CASE t # tube
        <5>1. PMTHitMap'[t] = PMTHitMap[t]
          BY <1>1, <2>4, <4>2
        <5>2. PMTHitMap[t] \in 1 .. n /\ hitsCollection[PMTHitMap[t]].tubeID = t
          BY <1>m, <3>1, <5>1
        <5> QED  BY <1>1, <2>3, <5>1, <5>2
      <4> QED  BY <4>1, <4>2
    <3>2. ASSUME NEW i \in 1 .. n + 1
          PROVE  PMTHitMap'[hitsCollection'[i].tubeID] = i
      <4>1. CASE i = n + 1
        BY <1>1, <2>1, <2>3, <2>4, <4>1
      <4>2. CASE i \in 1 .. n
        BY <1>1, <1>m, <2>3, <2>4, <2>5, <4>2
      <4> QED  BY <1>1, <4>1, <4>2
    <3> QED  BY <2>3, <3>1, <3>2 DEF MapMatchesCollection
  <2>7. OneMore(hitsCollection', hitsCollection, n + 1, 1, id)
    <3>1. DOMAIN h.trkId = {1} /\ h.trkId[1] = id
      BY <2>1
    <3>2. 1 .. n + 1 = (1 .. n) \cup {n + 1} /\ n + 1 \notin 1 .. n
      BY <1>1
    <3> QED  BY <1>1, <2>3, <3>1, <3>2 DEF IsAt, OneMore
  <2>8. \A t \in Tube : CountOf(t)' = IF t = tube THEN CountOf(t) + 1 ELSE CountOf(t)
    <3>1. CountOf(tube)' = CountOf(tube) + 1
      BY <1>1, <1>2, <2>1, <2>3, <2>4 DEF CountOf
    <3>2. ASSUME NEW t \in Tube, t # tube  PROVE CountOf(t)' = CountOf(t)
      <4>1. PMTHitMap'[t] = PMTHitMap[t]
        BY <1>1, <2>4, <3>2
      <4> QED  BY <1>1, <1>m, <2>3, <4>1 DEF CountOf
    <3> QED  BY <3>1, <3>2
  <2>9. PMTHitMap' \in [Tube -> Nat]
    BY <1>1, <2>4
  <2> QED  BY <2>3, <2>6, <2>7, <2>8, <2>9
<1>3. CASE PMTHitMap[tube] # 0
  <2>k. PICK k \in 1 .. n : k = PMTHitMap[tube]
    BY <1>3, <1>m
  <2>o. PICK old \in Hit : old = hitsCollection[k]
    BY <1>1
  <2> DEFINE h == WithPe(old, id)
  <2>1. old.tubeID = tube
    BY <1>3, <1>m, <2>k, <2>o
  <2>2. /\ h \in Hit /\ h.tubeID = tube /\ h.totalPe = old.totalPe + 1
        /\ h.trkId = Append(old.trkId, id)
    <3>1. /\ old.totalPe \in Nat \ {0} /\ old.trkId \in Seq(Photon)
      BY <2>1 DEF Hit
    <3>2. Append(old.trkId, id) \in Seq(Photon)
      BY <3>1, AppendProperties
    <3> QED  BY <2>1, <3>1, <3>2 DEF Hit, WithPe
  <2>3. hitsCollection' = [hitsCollection EXCEPT ![k] = h] /\ PMTHitMap' = PMTHitMap
    BY <1>3, <2>k, <2>o DEF RecordHit
  <2> HIDE DEF h
  <2>4. /\ hitsCollection' \in Seq(Hit) /\ DOMAIN hitsCollection' = 1 .. n
        /\ \A i \in 1 .. n : hitsCollection'[i] = IF i = k THEN h ELSE hitsCollection[i]
    BY <1>1, <2>1, <2>2, <2>3
  <2>5. MapMatchesCollection'
    BY <1>1, <1>m, <2>k, <2>1, <2>2, <2>3, <2>4 DEF MapMatchesCollection
  <2>6. OneMore(hitsCollection', hitsCollection, k, Len(old.trkId) + 1, id)
    <3> DEFINE m == Len(old.trkId)
    <3>1. old.trkId \in Seq(Photon) /\ m \in Nat /\ DOMAIN old.trkId = 1 .. m
      BY <2>1 DEF Hit
    <3>2. /\ DOMAIN h.trkId = 1 .. m + 1 /\ h.trkId[m + 1] = id
          /\ \A j \in 1 .. m : h.trkId[j] = old.trkId[j]
      BY <2>2, <3>1, AppendProperties
    <3>3. 1 .. m + 1 = (1 .. m) \cup {m + 1} /\ m + 1 \notin 1 .. m
      BY <3>1
    <3> QED  BY <1>1, <2>k, <2>o, <2>4, <3>1, <3>2, <3>3 DEF IsAt, OneMore
  <2>7. \A t \in Tube : CountOf(t)' = IF t = tube THEN CountOf(t) + 1 ELSE CountOf(t)
    <3>1. CountOf(tube)' = CountOf(tube) + 1
      BY <1>3, <1>1, <2>k, <2>o, <2>2, <2>3, <2>4 DEF CountOf
    <3>2. ASSUME NEW t \in Tube, t # tube  PROVE CountOf(t)' = CountOf(t)
      <4>1. PMTHitMap[t] # k
        BY <1>m, <2>o, <2>1, <3>2
      <4> QED  BY <1>1, <1>m, <2>3, <2>4, <4>1 DEF CountOf
    <3> QED  BY <3>1, <3>2
  <2> QED  BY <1>1, <2>3, <2>4, <2>5, <2>6, <2>7
<1> QED  BY <1>2, <1>3

-----------------------------------------------------------------------------
(* The invariant is inductive *)

LEMMA InitInvariant == Init => IInv
<1> SUFFICES ASSUME Init PROVE IInv
  OBVIOUS
<1> USE DEF Init
<1>1. NoStep \in Step
  BY WCSDAssumption DEF NoStep, Step, Particle, Volume
<1>2. TypeOK
  <2>1. hitsCollection \in Seq(Hit)
    OBVIOUS
  <2> QED  BY <1>1, <2>1 DEF TypeOK, Flag, Boundary
<1>3. MapMatchesCollection
  <2>1. DOMAIN hitsCollection = {} /\ \A t \in Tube : PMTHitMap[t] = 0
    OBVIOUS
  <2> QED  BY <2>1 DEF MapMatchesCollection
<1>4. CountedInv
  <2>1. DOMAIN hitsCollection = {} /\ \A p \in Photon : flags[p] = {}
    OBVIOUS
  <2>2. \A i, j, p : ~IsAt(hitsCollection, i, j, p)
    BY <2>1 DEF IsAt
  <2> QED  BY <2>1, <2>2 DEF CountedInv, InHits
<1>5. FlagsConsistent /\ StepInv
  BY DEF FlagsConsistent, StepInv
<1> QED  BY <1>2, <1>3, <1>4, <1>5 DEF IInv

\* What does not touch hits and flags keeps what relates them.
LEMMA HitsAndFlagsStay ==
  ASSUME IInv, hitsCollection' = hitsCollection, PMTHitMap' = PMTHitMap, flags' = flags
  PROVE  MapMatchesCollection' /\ CountedInv' /\ FlagsConsistent'
BY DEF IInv, MapMatchesCollection, CountedInv, FlagsConsistent, InHits, IsAt

\* A new event has no hits, and its photons no flags.
LEMMA InitializeInvariant == IInv /\ Initialize => IInv'
<1> SUFFICES ASSUME IInv, Initialize PROVE IInv'
  OBVIOUS
<1> USE DEF Initialize
<1>1. TypeOK'
  <2>1. hitsCollection' \in Seq(Hit)
    OBVIOUS
  <2> QED  BY <2>1 DEF IInv, TypeOK
<1>2. MapMatchesCollection'
  BY DEF MapMatchesCollection
<1>3. CountedInv' /\ FlagsConsistent'
  BY DEF CountedInv, InHits, IsAt, FlagsConsistent
<1>4. StepInv'
  BY DEF StepInv
<1> QED  BY <1>1, <1>2, <1>3, <1>4 DEF IInv

\* A photon without a flag is in no hit.
LEMMA StartTrackInvariant ==
  ASSUME NEW p \in Photon, IInv, StartTrack(p)
  PROVE  IInv'
<1> USE DEF StartTrack
<1>1. TypeOK'
  BY DEF IInv, TypeOK, Flag, hitVars
<1>2. MapMatchesCollection'
  BY DEF IInv, MapMatchesCollection, hitVars
<1>3. CountedInv'
  <2>1. hitsCollection' = hitsCollection /\ "hitPMT" \notin flags[p]
    BY DEF hitVars
  <2>2. \A q \in Photon : "hitPMT" \in flags'[q] <=> "hitPMT" \in flags[q]
    BY <2>1 DEF IInv, TypeOK
  <2> QED  BY <2>1, <2>2 DEF IInv, CountedInv, InHits
<1>4. FlagsConsistent'
  BY DEF IInv, TypeOK, FlagsConsistent
<1>5. StepInv'
  BY DEF IInv, TypeOK, StepInv
<1> QED  BY <1>1, <1>2, <1>3, <1>4, <1>5 DEF IInv

\* Whoever calls ProcessHits, the hits stay as they are: InvokeSD finds the
\* photon alive (WCSD.hh:61), and a step that began in the sensitive volume is
\* not a photon's.
LEMMA HitsStay ==
  ASSUME IInv,
         \/ \E p \in Photon : StartTrack(p)
         \/ \E t \in Tube : \/ Propagate(t) \/ Absorb(t) \/ AbsorbAtBoundary(t)
                            \/ Detect(t) \/ ChargedStep(t)
         \/ SensitiveDetectorHit \/ EndOfEvent
  PROVE  hitsCollection' = hitsCollection /\ PMTHitMap' = PMTHitMap
<1>1. CASE SensitiveDetectorHit
  <2>1. step.pre = "WCPMT" => step.particle # "opticalphoton"
    BY <1>1 DEF SensitiveDetectorHit, IInv, StepInv
  <2> QED  BY <1>1, <2>1 DEF SensitiveDetectorHit, ProcessHits, Counts, hitVars
<1>2. CASE \E t \in Tube : Detect(t)
  BY <1>2 DEF Detect, ProcessHits, Counts, hitVars, IInv, StepInv
<1>3. CASE \/ \E p \in Photon : StartTrack(p)
           \/ \E t \in Tube : \/ Propagate(t) \/ Absorb(t) \/ AbsorbAtBoundary(t)
                              \/ ChargedStep(t)
           \/ EndOfEvent
  BY <1>3 DEF StartTrack, Propagate, Absorb, AbsorbAtBoundary, ChargedStep, EndOfEvent, hitVars
<1> QED  BY <1>1, <1>2, <1>3

\* The processes of a step give it the shape that StepInv asks for.
LEMMA ProcessesInvariant ==
  ASSUME NEW t \in Tube, IInv, Propagate(t) \/ Absorb(t) \/ AbsorbAtBoundary(t) \/ Detect(t)
  PROVE  IInv'
<1>1. pc = "step" /\ alive /\ current \in Photon /\ flags[current] = {"active"}
  BY DEF IInv, StepInv, Propagate, Absorb, AbsorbAtBoundary, Detect
<1>2. /\ pc' = "sensitive" /\ event' = event /\ current' = current /\ flags' = flags
      /\ alive' \in BOOLEAN /\ boundaryStatus' \in Boundary
      /\ step' \in Step /\ step'.pre = "other"
      /\ BoundaryOfStep' \in {"Absorption", "Detection"} =>
           ~alive' /\ step'.process = "other"
      /\ alive' => step'.process = "other"
  <2> USE <1>1 DEF AfterProcesses, Photonic, Step, Particle, Volume, Boundary,
                   BoundaryOfStep, IInv, TypeOK
  <2>1. CASE Propagate(t)
    BY <2>1 DEF Propagate
  <2>2. CASE Absorb(t)
    BY <2>2 DEF Absorb
  <2>3. CASE AbsorbAtBoundary(t)
    BY <2>3 DEF AbsorbAtBoundary
  <2>4. CASE Detect(t)
    BY <2>4 DEF Detect
  <2> QED  BY <2>1, <2>2, <2>3, <2>4
<1>3. hitsCollection' = hitsCollection /\ PMTHitMap' = PMTHitMap
  BY HitsStay
<1>4. TypeOK'
  BY <1>2, <1>3 DEF IInv, TypeOK
<1>5. StepInv'
  BY <1>1, <1>2 DEF StepInv
<1> QED  BY <1>2, <1>3, <1>4, <1>5, HitsAndFlagsStay DEF IInv

\* A step of another particle, and the detector of the volume where a step
\* began: neither counts anything.
LEMMA NotCountedInvariant ==
  ASSUME IInv, (\E t \in Tube : ChargedStep(t)) \/ SensitiveDetectorHit \/ EndOfEvent
  PROVE  IInv'
<1>1. CASE \E t \in Tube : ChargedStep(t)
  <2>1. PICK t \in Tube : ChargedStep(t)
    BY <1>1
  <2>2. step' \in Step /\ step'.particle = "other"
    BY <2>1 DEF ChargedStep, NoStep, Step, Particle, Volume
  <2>3. /\ hitsCollection' = hitsCollection /\ PMTHitMap' = PMTHitMap /\ flags' = flags
        /\ pc' = "sensitive"
    BY <2>1 DEF ChargedStep, hitVars
  <2>4. TypeOK'
    BY <2>1, <2>2, <2>3 DEF ChargedStep, IInv, TypeOK
  <2>5. StepInv'
    BY <2>2, <2>3 DEF StepInv
  <2> QED  BY <2>3, <2>4, <2>5, HitsAndFlagsStay DEF IInv
<1>2. CASE SensitiveDetectorHit
  <2>2. hitsCollection' = hitsCollection /\ PMTHitMap' = PMTHitMap /\ flags' = flags
    BY <1>2, HitsStay DEF SensitiveDetectorHit
  <2>3. TypeOK'
    BY <1>2, <2>2 DEF SensitiveDetectorHit, IInv, TypeOK
  <2>4. StepInv'
    BY <1>2, <2>2 DEF SensitiveDetectorHit, IInv, StepInv, BoundaryOfStep
  <2> QED  BY <2>2, <2>3, <2>4, HitsAndFlagsStay DEF IInv
<1>3. CASE EndOfEvent
  <2>1. hitsCollection' = hitsCollection /\ PMTHitMap' = PMTHitMap /\ flags' = flags
    BY <1>3 DEF EndOfEvent, hitVars
  <2>2. TypeOK' /\ StepInv'
    BY <1>3, <2>1 DEF EndOfEvent, IInv, TypeOK, StepInv
  <2> QED  BY <2>1, <2>2, HitsAndFlagsStay DEF IInv
<1> QED  BY <1>1, <1>2, <1>3

\* SteppingAction counts the photon in the step that also flags it
\* (SteppingAction.hh:66-110).
LEMMA UserSteppingActionInvariant == IInv /\ UserSteppingAction => IInv'
<1> SUFFICES ASSUME IInv, UserSteppingAction PROVE IInv'
  OBVIOUS
<1>0. /\ pc = "user" /\ UNCHANGED <<event, current, step, boundaryStatus>>
      /\ step \in Step /\ step.tube \in Tube
  BY DEF UserSteppingAction, IInv, TypeOK, Step
<1>1. CASE step.particle # "opticalphoton"
  <2>1. /\ hitsCollection' = hitsCollection /\ PMTHitMap' = PMTHitMap /\ flags' = flags
        /\ pc' = "next" /\ alive' = alive
    BY <1>1 DEF UserSteppingAction, hitVars
  <2>2. TypeOK' /\ StepInv'
    BY <1>0, <2>1 DEF IInv, TypeOK, StepInv
  <2> QED  BY <2>1, <2>2, HitsAndFlagsStay DEF IInv
<1>2. CASE step.particle = "opticalphoton"
  <2>1. /\ current \in Photon /\ flags[current] = {"active"}
        /\ BoundaryOfStep \in {"Absorption", "Detection"} => ~alive /\ step.process = "other"
        /\ alive => step.process = "other"
    BY <1>0, <1>2 DEF IInv, StepInv
  <2> DEFINE new == FlagsAfterStep(flags[current])
  <2>2. /\ alive' = (alive /\ step.post # "expHall")
        /\ flags' = [flags EXCEPT ![current] = new]
        /\ pc' = IF alive' THEN "step" ELSE "next"
    BY <1>2 DEF UserSteppingAction
  <2>3. alive' \in BOOLEAN /\ alive \in BOOLEAN /\ (alive' => alive)
    BY <2>2 DEF IInv, TypeOK
  <2>4. /\ new \in SUBSET Flag /\ \A a, b \in new : a = b
        /\ "hitPMT" \in new <=> BoundaryOfStep = "Detection"
        /\ alive => new = {"active"}
    <3>1. /\ AddTrackStatusFlag({"active"}, "absorbed") = {"absorbed"}
          /\ AddTrackStatusFlag({"active"}, "boundaryAbsorbed") = {"boundaryAbsorbed"}
          /\ AddTrackStatusFlag({"active"}, "hitPMT") = {"hitPMT"}
      BY DEF AddTrackStatusFlag
    <3>2. new \in {{"active"}, {"absorbed"}, {"boundaryAbsorbed"}, {"hitPMT"}}
          /\ (new = {"hitPMT"} <=> BoundaryOfStep = "Detection")
          /\ (alive => new = {"active"})
      BY <2>1, <3>1 DEF FlagsAfterStep
    <3> QED  BY <3>2 DEF Flag, Inactive
  <2> HIDE DEF new
  <2>5. /\ flags' \in [Photon -> SUBSET Flag]
        /\ \A q \in Photon : flags'[q] = IF q = current THEN new ELSE flags[q]
    BY <2>1, <2>2, <2>4 DEF IInv, TypeOK
  <2>6. FlagsConsistent'
    BY <2>4, <2>5 DEF IInv, FlagsConsistent
  <2>7. StepInv'
    BY <1>0, <2>1, <2>2, <2>3, <2>4, <2>5 DEF StepInv
  <2>8. /\ hitsCollection' \in Seq(Hit) /\ PMTHitMap' \in [Tube -> Nat]
        /\ MapMatchesCollection' /\ CountedInv'
    <3>1. CASE BoundaryOfStep = "Detection"
      <4>1. RecordHit(step.tube, current)
        BY <1>2, <2>1, <2>3, <3>1 DEF UserSteppingAction, ProcessHits, Counts
      <4>2. /\ hitsCollection' \in Seq(Hit) /\ PMTHitMap' \in [Tube -> Nat]
            /\ MapMatchesCollection'
            /\ \E k, m : OneMore(hitsCollection', hitsCollection, k, m, current)
        BY <1>0, <2>1, <4>1, RecordHitCounts DEF IInv
      <4>3. PICK k, m : OneMore(hitsCollection', hitsCollection, k, m, current)
        BY <4>2
      <4>4. \A i, j : ~IsAt(hitsCollection, i, j, current)
        BY <2>1 DEF IInv, CountedInv, InHits
      <4>5. ASSUME NEW q \in Photon
            PROVE  /\ ("hitPMT" \in flags[q])' <=> InHits(q)'
                   /\ \A i, j, c, d :
                        IsAt(hitsCollection', i, j, q) /\ IsAt(hitsCollection', c, d, q)
                          => i = c /\ j = d
        <5>1. CASE q = current
          BY <2>4, <2>5, <3>1, <4>3, <4>4, <5>1 DEF OneMore, InHits
        <5>2. CASE q # current
          <6>1. \A i, j : IsAt(hitsCollection', i, j, q) <=> IsAt(hitsCollection, i, j, q)
            BY <4>3, <5>2 DEF OneMore
          <6>2. flags'[q] = flags[q]
            BY <2>5, <5>2
          <6> QED  BY <6>1, <6>2 DEF IInv, CountedInv, InHits
        <5> QED  BY <5>1, <5>2
      <4>6. CountedInv'
        BY <4>5 DEF CountedInv
      <4> QED  BY <4>2, <4>6
    <3>2. CASE BoundaryOfStep # "Detection"
      <4>1. hitsCollection' = hitsCollection /\ PMTHitMap' = PMTHitMap
        BY <1>2, <3>2 DEF UserSteppingAction, hitVars
      <4>2. \A q \in Photon : "hitPMT" \in flags'[q] <=> "hitPMT" \in flags[q]
        BY <2>1, <2>4, <2>5, <3>2
      <4>3. MapMatchesCollection' /\ CountedInv'
        BY <4>1, <4>2 DEF IInv, MapMatchesCollection, CountedInv, InHits, IsAt
      <4> QED  BY <4>1, <4>3 DEF IInv, TypeOK
    <3> QED  BY <3>1, <3>2
  <2>9. TypeOK'
    BY <1>0, <2>2, <2>3, <2>5, <2>8 DEF IInv, TypeOK
  <2> QED  BY <2>6, <2>7, <2>8, <2>9 DEF IInv
<1> QED  BY <1>1, <1>2

LEMMA NextInvariant == IInv /\ [Next]_vars => IInv'
<1> SUFFICES ASSUME IInv, [Next]_vars PROVE IInv'
  OBVIOUS
<1>1. CASE Initialize
  BY <1>1, InitializeInvariant
<1>2. CASE \E p \in Photon : StartTrack(p)
  BY <1>2, StartTrackInvariant
<1>3. CASE \E t \in Tube : Propagate(t) \/ Absorb(t) \/ AbsorbAtBoundary(t) \/ Detect(t)
  BY <1>3, ProcessesInvariant
<1>4. CASE (\E t \in Tube : ChargedStep(t)) \/ SensitiveDetectorHit \/ EndOfEvent
  BY <1>4, NotCountedInvariant
<1>5. CASE UserSteppingAction
  BY <1>5, UserSteppingActionInvariant
<1>6. CASE UNCHANGED vars
  <2>1. hitsCollection' = hitsCollection /\ PMTHitMap' = PMTHitMap /\ flags' = flags
    BY <1>6 DEF vars, hitVars
  <2>2. TypeOK' /\ StepInv'
    BY <1>6 DEF vars, hitVars, IInv, TypeOK, StepInv, BoundaryOfStep
  <2> QED  BY <2>1, <2>2, HitsAndFlagsStay DEF IInv
<1> QED  BY <1>1, <1>2, <1>3, <1>4, <1>5, <1>6 DEF Next

\* The places of the property are those of the invariant.
LEMMA CountedOnce == IInv => CountedOnceIfDetected
<1> SUFFICES ASSUME IInv, NEW p \in Photon
             PROVE  /\ "hitPMT" \in flags[p] <=> Places(p) # {}
                    /\ \A a, b \in Places(p) : a = b
  BY DEF CountedOnceIfDetected
<1>1. \A a \in Places(p) : \E i, j : a = <<i, j>> /\ IsAt(hitsCollection, i, j, p)
  BY DEF Places, IsAt
<1>2. \A i, j : IsAt(hitsCollection, i, j, p) => <<i, j>> \in Places(p)
  BY DEF Places, IsAt
<1>3. /\ "hitPMT" \in flags[p] <=> InHits(p)
      /\ \A i, j, k, l : IsAt(hitsCollection, i, j, p) /\ IsAt(hitsCollection, k, l, p)
                           => i = k /\ j = l
  BY DEF IInv, CountedInv
<1> QED  BY <1>1, <1>2, <1>3 DEF InHits

-----------------------------------------------------------------------------
(* The theorems *)

LEMMA InvariantHolds == Spec => []IInv
BY InitInvariant, NextInvariant, PTL DEF Spec

\* For any photons, tubes and events: the map leads to the hit of the tube it
\* is asked for, and to every hit (WCSD.hh:93-130).
THEOREM MapIsTrue == Spec => []MapMatchesCollection
<1>1. IInv => MapMatchesCollection
  BY DEF IInv
<1> QED  BY <1>1, InvariantHolds, PTL

\* A photon is in a hit exactly if it is flagged hitPMT, and it is there once,
\* however often and by whomever ProcessHits is called for it.
THEOREM DetectionsCountOnce == Spec => []CountedOnceIfDetected
BY CountedOnce, InvariantHolds, PTL

\* No photon is flagged with two ends, or as tracked and ended.
THEOREM FlagsDoNotContradict == Spec => []FlagsConsistent
<1>1. IInv => FlagsConsistent
  BY DEF IInv
<1> QED  BY <1>1, InvariantHolds, PTL

-----------------------------------------------------------------------------
(* The refinement *)

\* The count of a tube is that of the hit the map leads to.
LEMMA TubePeIsCount == IInv => \A t \in Tube : TubePe(t) = CountOf(t)
<1> SUFFICES ASSUME IInv, NEW t \in Tube PROVE TubePe(t) = CountOf(t)
  OBVIOUS
<1>1. /\ PMTHitMap[t] # 0 => PMTHitMap[t] \in DOMAIN hitsCollection
                             /\ hitsCollection[PMTHitMap[t]].tubeID = t
      /\ \A i \in DOMAIN hitsCollection :
           hitsCollection[i].tubeID = t => i = PMTHitMap[t] /\ i # 0
  BY DEF IInv, TypeOK, MapMatchesCollection
<1> QED  BY <1>1 DEF TubePe, CountOf

LEMMA CountedAreInHits == \A p : p \in Counted <=> InHits(p)
BY DEF Counted, InHits, IsAt

LEMMA InitRefines == Init => Counting!Init
<1> SUFFICES ASSUME Init PROVE Counting!Init
  OBVIOUS
<1>1. DOMAIN hitsCollection = {}
  BY DEF Init
<1>2. Counted = {} /\ \A t \in Tube : TubePe(t) = 0
  BY <1>1 DEF Counted, TubePe
<1> QED  BY <1>2 DEF Counting!Init

\* Each step of the detection begins an event, counts one photon that was not
\* counted in one tube, or counts nothing.
LEMMA StepRefines ==
  IInv /\ IInv' /\ [Next]_vars
    => [Counting!Next]_<<[t \in Tube |-> TubePe(t)], Counted>>
<1> SUFFICES ASSUME IInv, IInv', [Next]_vars
             PROVE  \/ Counting!Next
                    \/ UNCHANGED <<[t \in Tube |-> TubePe(t)], Counted>>
  OBVIOUS
<1>1. CASE Initialize
  <2>1. DOMAIN hitsCollection' = {}
    BY <1>1 DEF Initialize
  <2>2. Counted' = {} /\ \A t \in Tube : TubePe(t)' = 0
    BY <2>1 DEF Counted, TubePe
  <2> QED  BY <2>2 DEF Counting!Next, Counting!NewEvent
<1>2. CASE hitsCollection' = hitsCollection
  BY <1>2 DEF TubePe, Counted
<1>3. CASE /\ UserSteppingAction /\ step.particle = "opticalphoton"
           /\ BoundaryOfStep = "Detection"
  <2>1. /\ current \in Photon /\ flags[current] = {"active"} /\ ~alive
        /\ alive' = (alive /\ step.post # "expHall") /\ step.tube \in Tube
    BY <1>3 DEF UserSteppingAction, IInv, TypeOK, StepInv, Step
  <2>2. RecordHit(step.tube, current)
    BY <1>3, <2>1 DEF UserSteppingAction, ProcessHits, Counts
  <2>3. /\ \E k, m : OneMore(hitsCollection', hitsCollection, k, m, current)
        /\ \A t \in Tube :
             CountOf(t)' = IF t = step.tube THEN CountOf(t) + 1 ELSE CountOf(t)
    BY <2>1, <2>2, RecordHitCounts DEF IInv
  <2>4. ~InHits(current)
    BY <2>1 DEF IInv, CountedInv
  <2>5. \A p : InHits(p)' <=> InHits(p) \/ p = current
    <3>1. PICK k, m : OneMore(hitsCollection', hitsCollection, k, m, current)
      BY <2>3
    <3> QED  BY <3>1 DEF OneMore, InHits
  <2>6. current \notin Counted /\ Counted' = Counted \cup {current}
    <3>1. \A p : p \in Counted <=> InHits(p)
      BY CountedAreInHits
    <3>2. (\A p : p \in Counted <=> InHits(p))'
      BY CountedAreInHits, PTL
    <3> QED  BY <2>4, <2>5, <3>1, <3>2
  <2>7. \A t \in Tube : TubePe(t)' = IF t = step.tube THEN TubePe(t) + 1 ELSE TubePe(t)
    <3>1. \A t \in Tube : TubePe(t) = CountOf(t)
      BY TubePeIsCount
    <3>2. (\A t \in Tube : TubePe(t) = CountOf(t))'
      BY TubePeIsCount, PTL
    <3> QED  BY <2>3, <3>1, <3>2
  <2>8. Counting!Count(current, step.tube)
    BY <2>1, <2>6, <2>7 DEF Counting!Count
  <2> QED  BY <2>1, <2>8 DEF Counting!Next
<1>4. CASE UserSteppingAction /\ ~(step.particle = "opticalphoton" /\ BoundaryOfStep = "Detection")
  BY <1>2, <1>4 DEF UserSteppingAction, hitVars
<1>5. CASE UNCHANGED vars
  BY <1>2, <1>5 DEF vars, hitVars
<1> QED  BY <1>1, <1>2, <1>3, <1>4, <1>5, HitsStay DEF Next

\* The hits collection implements PhotonCounting: in each event the count of
\* a tube goes up by one for each photon its photocathode detects, and no
\* photon is counted twice, in one tube or in two.
THEOREM CountingIsImplemented == Spec => ImplementsCounting
<1>1. IInv /\ IInv' /\ [Next]_vars
        => [Counting!Next]_<<[t \in Tube |-> TubePe(t)], Counted>>
  BY StepRefines
<1> QED  BY InitRefines, <1>1, InvariantHolds, PTL
         DEF Spec, ImplementsCounting, Counting!Spec
================================================================================
