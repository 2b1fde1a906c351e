-------------------------- MODULE EventTable_proofs -------------------------
(***************************************************************************)
(* What EventLoop and EventTable promise, for every choice of the          *)
(* particles, their daughters and the bounds.                              *)
(*                                                                         *)
(* EventLoop: its variables keep their types; no track of an event is      *)
(* lost, tracked twice or used after its deletion; the trajectories of an  *)
(* event are whole and none is missing at its end; photons are tracked     *)
(* before the track that radiates them is resumed.                         *)
(*                                                                         *)
(* EventTable: the track table of an event that was not aborted has one    *)
(* row for each track worth saving; as long as optical photons are not     *)
(* drawn, leptonIndex names the most energetic primary muon; and, if muons *)
(* come from decays only, the parent column is right but for suspended     *)
(* parents.                                                                *)
(***************************************************************************)
EXTENDS EventTable, SequenceTheorems, TLAPS

-----------------------------------------------------------------------------
(***************************************************************************)
(* The event loop: the inductive invariant.                                *)
(***************************************************************************)
\* A track is in the tracking manager in these phases only.
InTrackingManager == {"pre", "step", "post", "retire"}

PhaseOK ==
  /\ (phase \in InTrackingManager) <=> (current # 0)
  /\ phase \in {"idle", "end"} => urgent = <<>> /\ waiting = <<>>
  /\ phase = "stack" => secondaries # <<>>

\* A trajectory that exists has its first point: merging needs it.
HasPoint(trajectory) == trajectory = NoTrajectory \/ trajectory.points > 0

PointsOK ==
  /\ HasPoint(previousTrajectory) /\ HasPoint(fpTrajectory)
  /\ phase \in {"step", "post"} => fpTrajectory.points > 0
  /\ \A k \in DOMAIN urgent  : HasPoint(urgent[k].trajectory)
  /\ \A k \in DOMAIN waiting : HasPoint(waiting[k].trajectory)

IInv == TypeOK /\ PhaseOK /\ PointsOK /\ TrackInOnePlace

(***************************************************************************)
(* Lemmas about the stacks.                                                *)
(***************************************************************************)
\* Pushing adds the ID of the new entry to those of the stack, and keeps the
\* IDs apart if the new one is not on the stack (G4TrackStack::PushToStack).
LEMMA PushToStackIds ==
  ASSUME NEW stack \in Seq(Stacked), NEW e \in Stacked
  PROVE  /\ PushToStack(stack, e) \in Seq(Stacked)
         /\ Ids(PushToStack(stack, e)) = Ids(stack) \cup {e.id}
         /\ NoRepeat(stack) /\ e.id \notin Ids(stack)
              => NoRepeat(PushToStack(stack, e))
<1> DEFINE s == Append(stack, e)
<1>1. /\ s \in Seq(Stacked) /\ Len(s) = Len(stack) + 1
      /\ DOMAIN s = 1 .. Len(stack) + 1
      /\ \A k \in 1 .. Len(stack) : s[k] = stack[k]
      /\ s[Len(stack) + 1] = e
  BY AppendProperties
<1>2. DOMAIN stack = 1 .. Len(stack) /\ Len(stack) \in Nat
  OBVIOUS
<1>3. DOMAIN s = DOMAIN stack \cup {Len(stack) + 1}
  BY <1>1, <1>2
<1> HIDE DEF s
<1>4. Ids(s) = Ids(stack) \cup {e.id}
  BY <1>1, <1>2, <1>3 DEF Ids
<1>5. ASSUME NoRepeat(stack), e.id \notin Ids(stack)
      PROVE  NoRepeat(s)
  <2>1. \A k \in DOMAIN stack : stack[k].id # e.id
    BY <1>5 DEF Ids
  <2> QED  BY <1>1, <1>2, <1>3, <1>5, <2>1 DEF NoRepeat
<1> QED  BY <1>1, <1>4, <1>5 DEF PushToStack, s

\* Popping takes the last entry, and its ID from the IDs that are left.
LEMMA PopIds ==
  ASSUME NEW stack \in Seq(Stacked), stack # <<>>, NoRepeat(stack)
  PROVE  LET rest == SubSeq(stack, 1, Len(stack) - 1)
             top  == stack[Len(stack)]
         IN /\ top \in Stacked /\ Len(stack) \in DOMAIN stack
            /\ rest \in Seq(Stacked) /\ NoRepeat(rest)
            /\ Ids(stack) = Ids(rest) \cup {top.id} /\ top.id \notin Ids(rest)
            /\ \A k \in DOMAIN rest : k \in DOMAIN stack /\ rest[k] = stack[k]
<1> DEFINE n    == Len(stack)
           rest == SubSeq(stack, 1, n - 1)
           top  == stack[n]
<1>1. n \in Nat \ {0} /\ DOMAIN stack = 1 .. n
  BY EmptySeq
<1>2. top \in Stacked
  BY <1>1, ElementOfSeq
<1>3. /\ rest \in Seq(Stacked) /\ DOMAIN rest = 1 .. n - 1
      /\ \A k \in 1 .. n - 1 : rest[k] = stack[k]
  BY <1>1, SubSeqProperties
<1> HIDE DEF n, rest, top
<1>4. DOMAIN stack = DOMAIN rest \cup {n}
  BY <1>1, <1>3
<1>5. \A k \in DOMAIN rest : k \in DOMAIN stack /\ rest[k] = stack[k] /\ k # n
  BY <1>1, <1>3
<1>6. NoRepeat(rest)
  BY <1>5 DEF NoRepeat
<1>7. Ids(stack) = Ids(rest) \cup {top.id}
  BY <1>4, <1>5 DEF Ids, top
<1>8. top.id \notin Ids(rest)
  BY <1>4, <1>5 DEF Ids, top, NoRepeat
<1> QED  BY <1>1, <1>2, <1>3, <1>5, <1>6, <1>7, <1>8 DEF n, rest, top

\* An empty stack holds no ID.
LEMMA EmptyStack ==
  Ids(<<>>) = {} /\ NoRepeat(<<>>) /\ <<>> \in Seq(Stacked)
BY DEF Ids, NoRepeat

\* Two legs that exist make a trajectory that has its first point.
LEMMA MergeType ==
  ASSUME NEW a \in Trajectory, NEW b \in Trajectory, a.points > 0, b.points > 0
  PROVE  LET m == [a EXCEPT !.points = @ + b.points - 1, !.stop = b.stop]
         IN m \in Trajectory /\ m.points > 0
<1>1. a.points \in Nat /\ b.points \in Nat
  BY DEF Trajectory
<1>2. a.points + b.points - 1 \in Nat /\ a.points + b.points - 1 > 0
  BY <1>1
<1> QED  BY <1>2 DEF Trajectory

\* 0, the ID of no track, is on no stack.
LEMMA IdsPositive ==
  ASSUME NEW stack \in Seq(Stacked)
  PROVE  0 \notin Ids(stack)
<1>1. \A k \in DOMAIN stack : stack[k] \in Stacked
  BY ElementOfSeq
<1> QED  BY <1>1 DEF Ids, Stacked

\* The trajectory of a leg joined to that of the earlier legs.
LEMMA LegTrajectoryType ==
  ASSUME TypeOK, HasPoint(previousTrajectory), HasPoint(fpTrajectory)
  PROVE  LegTrajectory \in Trajectory /\ HasPoint(LegTrajectory)
<1>1. previousTrajectory \in Trajectory /\ fpTrajectory \in Trajectory
  BY DEF TypeOK
<1>2. CASE previousTrajectory = NoTrajectory \/ fpTrajectory = NoTrajectory
  BY <1>1, <1>2 DEF LegTrajectory, MergeTrajectory
<1>3. CASE previousTrajectory # NoTrajectory /\ fpTrajectory # NoTrajectory
  BY <1>1, <1>3, MergeType DEF LegTrajectory, MergeTrajectory, HasPoint
<1> QED  BY <1>2, <1>3

\* A step is counted, and a deletion noted, in a track; the rest stays.
LEMMA TrackUpdates ==
  ASSUME NEW t \in Track
  PROVE  /\ [t EXCEPT !.steps = @ + 1] \in Track
         /\ [t EXCEPT !.steps = @ + 1].deleted = t.deleted
         /\ [t EXCEPT !.deleted = TRUE] \in Track
         /\ [t EXCEPT !.deleted = TRUE].deleted = TRUE
<1>1. t.steps + 1 \in Nat /\ TRUE \in BOOLEAN
  BY DEF Track
<1> QED  BY <1>1 DEF Track

\* The tracks made of a list of particles are new tracks.
LEMMA NewTracks ==
  ASSUME NEW S \in SUBSET Kind, NEW n \in Nat, NEW new \in SeqUpTo(S, n), NEW p \in Nat
  PROVE  /\ TracksOf(new, p) \in Seq(NewTrack)
         /\ TracksOf(new, p) = <<>> => new = <<>>
         /\ \A k \in DOMAIN new : new[k] \in S
<1> USE DEF TracksOf
<1>1. PICK m \in 0 .. n : new \in [1 .. m -> S]
  BY DEF SeqUpTo
<1>2. m \in Nat
  OBVIOUS
<1>3. [k \in 1 .. m |-> [kind |-> new[k], parent |-> p]] \in [1 .. m -> NewTrack]
  BY <1>1 DEF NewTrack
<1>4. new \in Seq(S) /\ (DOMAIN new = {} => new = <<>>)
  BY <1>1, <1>2, IsASeq, EmptySeq
<1> QED  BY <1>1, <1>2, <1>3, <1>4, IsASeq

-----------------------------------------------------------------------------
(***************************************************************************)
(* The inductive invariant holds at first, and every action keeps it.      *)
(***************************************************************************)
\* No trajectory and no information have the types of those that exist.
LEMMA NothingTypes ==
  /\ NoTrajectory \in Trajectory
  /\ NoInfo \in [save : BOOLEAN, draw : BOOLEAN, hitPMT : BOOLEAN]
BY DEF NoTrajectory, Trajectory, NoInfo

\* A run begins with nothing stacked and nothing tracked.
LEMMA InitIInv == Init => IInv
<1> SUFFICES ASSUME Init PROVE IInv
  OBVIOUS
<1>1. TypeOK
  <2>1. \A S : <<>> \in Seq(S)
    BY EmptySeq
  <2> QED  BY <2>1, NothingTypes DEF Init, TypeOK, Phase, Status
<1>2. PhaseOK
  BY DEF Init, PhaseOK, InTrackingManager
<1>3. PointsOK
  BY DEF Init, PointsOK, HasPoint
<1>4. TrackInOnePlace
  BY EmptyStack DEF Init, TrackInOnePlace, Live, InTracking, Ids
<1> QED  BY <1>1, <1>2, <1>3, <1>4 DEF IInv

\* A new event finds empty stacks, so that no old ID is taken for a new one.
LEMMA BeginOfEventIInv == IInv /\ BeginOfEvent => IInv'
<1> SUFFICES ASSUME IInv, BeginOfEvent PROVE IInv'
  OBVIOUS
<1> USE DEF BeginOfEvent, legVars
<1>1. PICK prim \in SeqUpTo(PrimaryKind, MaxPrimaries) :
        /\ secondaries' = TracksOf(prim, 0)
        /\ phase' = StackOrPop(prim)
  OBVIOUS
<1>2. secondaries' \in Seq(NewTrack) /\ (secondaries' = <<>> => prim = <<>>)
  <2>1. PrimaryKind \in SUBSET Kind /\ MaxPrimaries \in Nat
    BY EventLoopAssumption DEF EventLoopAssumption
  <2> QED  BY <1>1, <2>1, NewTracks
<1>3. TypeOK'
  <2>1. <<>> \in Seq(Track) /\ <<>> \in Seq(Stacked) /\ <<>> \in Seq(Trajectory)
    BY EmptySeq
  <2>2. phase' \in Phase
    BY <1>1 DEF Phase, StackOrPop
  <2>3. event' \in Nat
    BY DEF IInv, TypeOK
  <2> QED  BY <1>2, <2>1, <2>2, <2>3 DEF IInv, TypeOK
<1>4. PhaseOK'
  BY <1>1, <1>2 DEF IInv, PhaseOK, InTrackingManager, StackOrPop
<1>5. PointsOK'
  BY <1>1 DEF IInv, PointsOK, StackOrPop
<1>6. waiting = <<>> /\ current = 0
  BY DEF IInv, PhaseOK, InTrackingManager
<1>7. TrackInOnePlace'
  <2>1. Live' = {} /\ Ids(urgent') = {} /\ Ids(waiting') = {} /\ InTracking' = {}
    BY <1>6, EmptyStack DEF Live, InTracking
  <2> QED  BY <1>6, <2>1, EmptyStack DEF TrackInOnePlace
<1> QED  BY <1>3, <1>4, <1>5, <1>7 DEF IInv

\* A new track is stacked once or deleted at once.
LEMMA PushOneTrackIInv == IInv /\ PushOneTrack => IInv'
<1> SUFFICES ASSUME IInv, PushOneTrack PROVE IInv'
  OBVIOUS
<1> DEFINE t  == Head(secondaries)
           id == NextTrackID
           e  == [id |-> id, trajectory |-> NoTrajectory]
           new(c) == [kind |-> t.kind, parent |-> t.parent, steps |-> 0,
                      stacked |-> c # "fKill", deleted |-> c = "fKill"]
<1> USE DEF legVars
<1>1. PICK c \in ClassifyNewTrack(t) :
        /\ track' = Append(track, new(c))
        /\ waiting' = IF c = "fKill" THEN waiting ELSE PushToStack(waiting, e)
  BY DEF PushOneTrack
<1>2. secondaries # <<>> /\ secondaries \in Seq(NewTrack) /\ current = 0
  BY DEF PushOneTrack, IInv, PhaseOK, TypeOK, InTrackingManager
<1>3. t \in NewTrack /\ secondaries' \in Seq(NewTrack)
  BY <1>2, HeadTailProperties DEF PushOneTrack
<1>4. id \in Nat \ {0} /\ e \in Stacked
  BY NothingTypes DEF NextTrackID, IInv, TypeOK, Stacked
<1>5. new(c) \in Track /\ (new(c).deleted <=> c = "fKill")
  BY <1>3 DEF Track, NewTrack
<1>6. /\ track \in Seq(Track) /\ track' \in Seq(Track)
      /\ DOMAIN track' = DOMAIN track \cup {id} /\ id \notin DOMAIN track
      /\ \A n \in DOMAIN track : track'[n] = track[n]
      /\ track'[id] = new(c)
  <2>1. track \in Seq(Track)
    BY DEF IInv, TypeOK
  <2> QED  BY <1>1, <1>5, <2>1, AppendProperties DEF NextTrackID
<1>7. id \notin Ids(urgent) \cup Ids(waiting)
  BY <1>6 DEF IInv, TrackInOnePlace, Live
<1>8. /\ PushToStack(waiting, e) \in Seq(Stacked)
      /\ Ids(PushToStack(waiting, e)) = Ids(waiting) \cup {id}
      /\ NoRepeat(PushToStack(waiting, e))
  BY <1>4, <1>7, PushToStackIds DEF IInv, TypeOK, TrackInOnePlace
<1>9. TypeOK'
  BY <1>1, <1>3, <1>6, <1>8 DEF IInv, TypeOK, PushOneTrack, StackOrPop, Phase
<1>10. PhaseOK'
  BY <1>2 DEF IInv, PhaseOK, PushOneTrack, InTrackingManager, StackOrPop
<1>11. PointsOK'
  <2>1. \A k \in DOMAIN PushToStack(waiting, e) :
          HasPoint(PushToStack(waiting, e)[k].trajectory)
    <3>1. waiting \in Seq(Stacked)
      BY DEF IInv, TypeOK
    <3> QED  BY <1>4, <3>1, AppendProperties
             DEF IInv, PointsOK, PushToStack, HasPoint
  <2> QED  BY <1>1, <2>1 DEF IInv, PointsOK, PushOneTrack, HasPoint, StackOrPop
<1>12. TrackInOnePlace'
  <2>1. CASE c = "fKill"
    <3>1. track'[id].deleted /\ waiting' = waiting
      BY <1>1, <1>5, <1>6, <2>1
    <3>2. Live' = Live
      BY <1>6, <3>1 DEF Live
    <3> QED  BY <1>2, <3>1, <3>2
             DEF IInv, TrackInOnePlace, PushOneTrack, InTracking
  <2>2. CASE c # "fKill"
    <3>1. ~track'[id].deleted /\ waiting' = PushToStack(waiting, e)
      BY <1>1, <1>5, <1>6, <2>2
    <3>2. Live' = Live \cup {id}
      BY <1>6, <3>1 DEF Live
    <3> QED  BY <1>2, <1>4, <1>7, <1>8, <3>1, <3>2
             DEF IInv, TrackInOnePlace, PushOneTrack, InTracking
  <2> QED  BY <2>1, <2>2
<1> QED  BY <1>9, <1>10, <1>11, <1>12 DEF IInv

\* The popped track leaves the stack it was on; refilling moves every track.
LEMMA PopNextTrackIInv == IInv /\ PopNextTrack => IInv'
<1> SUFFICES ASSUME IInv, PopNextTrack PROVE IInv'
  OBVIOUS
<1> DEFINE rest == SubSeq(Stage, 1, Len(Stage) - 1)
           top  == Stage[Len(Stage)]
<1>1. Stage \in Seq(Stacked) /\ Stage # <<>> /\ NoRepeat(Stage)
  BY DEF Stage, IInv, TypeOK, TrackInOnePlace, PopNextTrack
<1>2. /\ top \in Stacked /\ Len(Stage) \in DOMAIN Stage
      /\ rest \in Seq(Stacked) /\ NoRepeat(rest)
      /\ Ids(Stage) = Ids(rest) \cup {top.id} /\ top.id \notin Ids(rest)
      /\ \A k \in DOMAIN rest : k \in DOMAIN Stage /\ rest[k] = Stage[k]
  BY <1>1, PopIds
<1>3. /\ urgent' = rest /\ current' = top.id /\ previousTrajectory' = top.trajectory
      /\ phase' = "pre" /\ track' = track /\ fpTrajectory' = fpTrajectory
      /\ UNCHANGED <<event, secondaries, info, status, container, aborted>>
      /\ current = 0
  BY DEF PopNextTrack, IInv, PhaseOK, InTrackingManager
<1> HIDE DEF rest, top
<1>4. /\ top.id \in Nat \ {0} /\ top.trajectory \in Trajectory
      /\ HasPoint(top.trajectory)
  <2>1. \A k \in DOMAIN Stage : HasPoint(Stage[k].trajectory)
    BY DEF Stage, IInv, PointsOK
  <2> QED  BY <1>2, <2>1 DEF Stacked, top
<1>5. /\ Ids(urgent) \cup Ids(waiting) = Ids(Stage) \cup Ids(waiting')
      /\ Ids(Stage) \cap Ids(waiting') = {}
      /\ waiting' \in Seq(Stacked) /\ NoRepeat(waiting')
      /\ \A k \in DOMAIN waiting' : HasPoint(waiting'[k].trajectory)
  <2>1. CASE urgent = <<>>
    <3>1. waiting' = <<>> /\ Stage = waiting /\ Ids(urgent) = {} /\ Ids(waiting') = {}
      BY <2>1, EmptyStack DEF PopNextTrack, Stage
    <3> QED  BY <3>1, EmptyStack
  <2>2. CASE urgent # <<>>
    BY <2>2 DEF PopNextTrack, Stage, IInv, TypeOK, TrackInOnePlace, PointsOK
  <2> QED  BY <2>1, <2>2
<1>6. TypeOK'
  BY <1>2, <1>3, <1>4, <1>5 DEF IInv, TypeOK, Phase
<1>7. PhaseOK'
  BY <1>3, <1>4 DEF PhaseOK, InTrackingManager
<1>8. PointsOK'
  <2>1. \A k \in DOMAIN rest : HasPoint(rest[k].trajectory)
    BY <1>2 DEF Stage, IInv, PointsOK
  <2> QED  BY <1>3, <1>4, <1>5, <2>1 DEF IInv, PointsOK
<1>9. TrackInOnePlace'
  <2>1. Live = Ids(urgent) \cup Ids(waiting)
    BY <1>3 DEF IInv, TrackInOnePlace, InTracking
  <2>2. Live' = Live /\ InTracking' = {top.id}
    BY <1>3, <1>4 DEF Live, InTracking
  <2> QED  BY <1>2, <1>3, <1>5, <2>1, <2>2 DEF TrackInOnePlace
<1> QED  BY <1>6, <1>7, <1>8, <1>9 DEF IInv

\* The loop ends with both stacks empty.
LEMMA NoMoreTracksIInv == IInv /\ NoMoreTracks => IInv'
<1> SUFFICES ASSUME IInv, NoMoreTracks PROVE IInv'
  OBVIOUS
<1> USE DEF NoMoreTracks, stackVars, legVars
<1>1. TypeOK'
  BY DEF IInv, TypeOK, Phase
<1>2. PhaseOK'
  BY DEF IInv, PhaseOK, InTrackingManager, Stage
<1>3. PointsOK'
  BY DEF IInv, PointsOK
<1>4. TrackInOnePlace'
  BY DEF IInv, TrackInOnePlace, Live, InTracking
<1> QED  BY <1>1, <1>2, <1>3, <1>4 DEF IInv

\* The track in the tracking manager is a track of the event, not deleted.
LEMMA CurrentIsLive ==
  ASSUME IInv, current # 0
  PROVE  /\ current \in DOMAIN track /\ ~track[current].deleted
         /\ track[current] \in Track /\ current \in Nat
         /\ current \notin Ids(urgent) \cup Ids(waiting)
<1>1. current \in Live
  BY DEF IInv, TrackInOnePlace, InTracking
<1>2. track \in Seq(Track) /\ current \in Nat
  BY DEF IInv, TypeOK
<1> QED  BY <1>1, <1>2, ElementOfSeq DEF Live, IInv, TrackInOnePlace

\* The steps of the track in the tracking manager are counted.
LEMMA CurrentSteps ==
  ASSUME IInv, current # 0
  PROVE  track[current].steps \in Nat
BY CurrentIsLive DEF Track

\* A leg begins with one point; no track moves.
LEMMA PreUserTrackingActionIInv == IInv /\ PreUserTrackingAction => IInv'
<1> SUFFICES ASSUME IInv, PreUserTrackingAction PROVE IInv'
  OBVIOUS
<1> USE DEF PreUserTrackingAction, stackVars
<1>1. current # 0 /\ current \in Nat
  BY DEF IInv, PhaseOK, TypeOK, InTrackingManager
<1>2. status' \in Status /\ phase' = "step"
  BY DEF InitialStatus, Status, StepOrPost
<1>3. info' \in [save : BOOLEAN, draw : BOOLEAN, hitPMT : BOOLEAN]
  BY DEF SaveAPriori
<1>4. fpTrajectory' \in Trajectory /\ fpTrajectory'.points > 0
  BY <1>1, CurrentSteps DEF Trajectory
<1>5. TypeOK'
  BY <1>2, <1>3, <1>4 DEF IInv, TypeOK, Phase
<1>6. PhaseOK'
  BY <1>1, <1>2 DEF IInv, PhaseOK, InTrackingManager
<1>7. PointsOK'
  BY <1>4 DEF IInv, PointsOK, HasPoint
<1>8. TrackInOnePlace'
  BY DEF IInv, TrackInOnePlace, Live, InTracking
<1> QED  BY <1>5, <1>6, <1>7, <1>8 DEF IInv

\* A step adds to the tracks to be stacked; no track moves.
LEMMA SteppingIInv == IInv /\ Stepping => IInv'
<1> SUFFICES ASSUME IInv, Stepping PROVE IInv'
  OBVIOUS
<1> DEFINE pdg == track[current].kind.pdg
<1>1. /\ phase = "step" /\ current # 0
      /\ track' = [track EXCEPT ![current].steps = @ + 1]
      /\ fpTrajectory' = [fpTrajectory EXCEPT !.points = @ + 1]
      /\ phase' = StepOrPost(status')
      /\ UNCHANGED <<event, urgent, waiting, current, previousTrajectory,
                     container, aborted>>
  BY DEF Stepping, IInv, PhaseOK, InTrackingManager
<1>2. PICK new \in SecondariesOf(pdg) :
        /\ status' \in StatusAfter(new)
        /\ secondaries' = secondaries \o TracksOf(new, current)
  BY DEF Stepping
<1>3. PICK hit \in BOOLEAN : info' = [info EXCEPT !.hitPMT = hit]
  BY DEF Stepping
<1>4. /\ current \in DOMAIN track /\ track[current] \in Track /\ current \in Nat
      /\ track \in Seq(Track)
  BY <1>1, CurrentIsLive DEF IInv, TypeOK
<1>5. TracksOf(new, current) \in Seq(NewTrack)
  <2>1. pdg \in Species
    BY <1>4 DEF Track, Kind
  <2>2. Daughters[pdg] \in SUBSET Kind /\ MaxPerStep \in Nat
    BY <2>1, EventLoopAssumption DEF EventLoopAssumption
  <2>3. new \in SeqUpTo(Daughters[pdg], MaxPerStep)
    BY DEF SecondariesOf
  <2> QED  BY <1>4, <2>2, <2>3, NewTracks
<1>6. /\ track' \in Seq(Track) /\ DOMAIN track' = DOMAIN track
      /\ \A id \in DOMAIN track : track'[id].deleted = track[id].deleted
  <2>1. /\ [track[current] EXCEPT !.steps = @ + 1] \in Track
        /\ [track[current] EXCEPT !.steps = @ + 1].deleted = track[current].deleted
    BY <1>4, TrackUpdates
  <2> QED  BY <1>1, <1>4, <2>1, ExceptSeq
<1>7. status' \in Status /\ phase' \in {"step", "post"}
  BY <1>1, <1>2 DEF StatusAfter, Status, StepOrPost
<1>8. info' \in [save : BOOLEAN, draw : BOOLEAN, hitPMT : BOOLEAN]
  BY <1>3 DEF IInv, TypeOK
<1>9. fpTrajectory' \in Trajectory /\ fpTrajectory'.points > 0
  <2>1. fpTrajectory \in Trajectory
    BY DEF IInv, TypeOK
  <2> QED  BY <1>1, <2>1 DEF Trajectory
<1>10. secondaries' \in Seq(NewTrack)
  BY <1>2, <1>5, ConcatProperties DEF IInv, TypeOK
<1>11. TypeOK'
  BY <1>1, <1>6, <1>7, <1>8, <1>9, <1>10 DEF IInv, TypeOK, Phase
<1>12. PhaseOK'
  BY <1>1, <1>7 DEF PhaseOK, InTrackingManager
<1>13. PointsOK'
  BY <1>1, <1>9 DEF IInv, PointsOK, HasPoint
<1>14. TrackInOnePlace'
  <2>1. Live' = Live
    BY <1>6 DEF Live
  <2> QED  BY <1>1, <2>1 DEF IInv, TrackInOnePlace, InTracking
<1> QED  BY <1>11, <1>12, <1>13, <1>14 DEF IInv

\* An abort deletes the stacked tracks and leaves the one being tracked.
LEMMA AbortCurrentEventIInv == IInv /\ AbortCurrentEvent => IInv'
<1> SUFFICES ASSUME IInv, AbortCurrentEvent PROVE IInv'
  OBVIOUS
<1> DEFINE on == Ids(urgent) \cup Ids(waiting)
<1>1. /\ urgent' = <<>> /\ waiting' = <<>> /\ current # 0
      /\ fpTrajectory' = [fpTrajectory EXCEPT !.points = @ + 1]
      /\ status' = "fKillTrackAndSecondaries" /\ aborted' = TRUE /\ phase' = "post"
      /\ UNCHANGED <<event, secondaries, current, previousTrajectory, info, container>>
  BY DEF AbortCurrentEvent, IInv, PhaseOK, InTrackingManager
<1>2. /\ current \in DOMAIN track /\ ~track[current].deleted
      /\ current \in Nat /\ current \notin on
      /\ track \in Seq(Track)
  BY <1>1, CurrentIsLive DEF IInv, TypeOK
<1>3. track' = [id \in DOMAIN track |->
                  IF id = current THEN [track[id] EXCEPT !.steps = @ + 1]
                  ELSE IF id \in on THEN [track[id] EXCEPT !.deleted = TRUE]
                  ELSE track[id]]
  BY DEF AbortCurrentEvent
<1> HIDE DEF on
<1>4. /\ track' \in Seq(Track) /\ DOMAIN track' = DOMAIN track
      /\ \A id \in DOMAIN track :
           track'[id].deleted <=> (track[id].deleted \/ id \in on)
  <2>1. \A id \in DOMAIN track : track[id] \in Track
    BY <1>2, ElementOfSeq
  <2>2. \A id \in DOMAIN track :
          /\ track'[id] \in Track
          /\ track'[id].deleted <=> (track[id].deleted \/ id \in on)
    BY <1>2, <1>3, <2>1, TrackUpdates
  <2>3. DOMAIN track' = 1 .. Len(track) /\ Len(track) \in Nat
    BY <1>2, <1>3
  <2>4. track' \in [1 .. Len(track) -> Track]
    BY <1>2, <1>3, <2>2, <2>3
  <2> QED  BY <1>2, <1>3, <2>2, <2>3, <2>4, IsASeq
<1>5. fpTrajectory' \in Trajectory /\ fpTrajectory'.points > 0
  <2>1. fpTrajectory \in Trajectory
    BY DEF IInv, TypeOK
  <2> QED  BY <1>1, <2>1 DEF Trajectory
<1>6. TypeOK'
  BY <1>1, <1>4, <1>5, EmptyStack DEF IInv, TypeOK, Phase, Status
<1>7. PhaseOK'
  BY <1>1 DEF PhaseOK, InTrackingManager
<1>8. PointsOK'
  BY <1>1, <1>5, EmptyStack DEF IInv, PointsOK, HasPoint
<1>9. TrackInOnePlace'
  <2>1. Live = on \cup {current}
    BY <1>1 DEF IInv, TrackInOnePlace, InTracking, on
  <2>2. Live' = {current}
    BY <1>2, <1>4, <2>1 DEF Live
  <2> QED  BY <1>1, <2>2, EmptyStack DEF TrackInOnePlace, InTracking
<1> QED  BY <1>6, <1>7, <1>8, <1>9 DEF IInv

\* The hook decides on the trajectory; no track moves.
LEMMA PostUserTrackingActionIInv == IInv /\ PostUserTrackingAction => IInv'
<1> SUFFICES ASSUME IInv, PostUserTrackingAction PROVE IInv'
  OBVIOUS
<1> USE DEF PostUserTrackingAction, stackVars
<1>1. current # 0
  BY DEF IInv, PhaseOK, InTrackingManager
<1>2. fpTrajectory' \in Trajectory /\ HasPoint(fpTrajectory')
  <2>1. fpTrajectory \in Trajectory /\ HasPoint(fpTrajectory)
    BY DEF IInv, TypeOK, PointsOK
  <2>2. fpTrajectory.points > 0
    BY DEF IInv, PointsOK
  <2>3. CASE info.save
    <3> DEFINE steps == track[current].steps
    <3>1. fpTrajectory' = [fpTrajectory EXCEPT !.save = TRUE, !.stop = steps]
      BY <2>3 DEF KeptTrajectory
    <3>2. steps \in Nat
      BY <1>1, CurrentSteps
    <3> HIDE DEF steps
    <3>3. fpTrajectory' \in Trajectory
      BY <2>1, <3>1, <3>2 DEF Trajectory
    <3>4. fpTrajectory'.points = fpTrajectory.points
      BY <2>1, <3>1, <3>2 DEF Trajectory
    <3> QED  BY <2>2, <3>3, <3>4 DEF HasPoint
  <2>4. CASE ~info.save
    BY <2>1, <2>4, NothingTypes DEF KeptTrajectory, HasPoint
  <2> QED  BY <2>3, <2>4
<1>3. info' \in [save : BOOLEAN, draw : BOOLEAN, hitPMT : BOOLEAN]
  BY DEF IInv, TypeOK, Draws
<1>4. TypeOK'
  BY <1>2, <1>3 DEF IInv, TypeOK, Phase
<1>5. PhaseOK'
  BY <1>1 DEF IInv, PhaseOK, InTrackingManager
<1>6. PointsOK'
  BY <1>2 DEF IInv, PointsOK
<1>7. TrackInOnePlace'
  BY DEF IInv, TrackInOnePlace, Live, InTracking
<1> QED  BY <1>4, <1>5, <1>6, <1>7 DEF IInv

\* What the three ways to retire a track have in common.
LEMMA RetireFacts ==
  ASSUME IInv, Retire
  PROVE  /\ phase = "retire" /\ current # 0
         /\ phase' \in {"pop", "stack"} /\ (phase' = "stack" => secondaries' # <<>>)
         /\ current' = 0 /\ previousTrajectory' = NoTrajectory
         /\ fpTrajectory' = NoTrajectory /\ info' = NoInfo /\ status' = "fAlive"
         /\ UNCHANGED <<event, urgent, aborted>>
         /\ LegTrajectory \in Trajectory /\ HasPoint(LegTrajectory)
<1>1. phase = "retire" /\ current # 0
  BY DEF Retire, IInv, PhaseOK, InTrackingManager
<1>2. LegTrajectory \in Trajectory /\ HasPoint(LegTrajectory)
  BY LegTrajectoryType DEF IInv, PointsOK
<1> QED  BY <1>1, <1>2 DEF Retire, StackOrPop

\* A suspended track goes from the tracking manager to the waiting stack.
LEMMA SuspendTrackIInv == IInv /\ SuspendTrack => IInv'
<1> SUFFICES ASSUME IInv, SuspendTrack PROVE IInv'
  OBVIOUS
<1> DEFINE e == [id |-> current, trajectory |-> LegTrajectory]
<1>1. /\ waiting' = PushToStack(waiting, e)
      /\ UNCHANGED <<track, secondaries, container>>
      /\ Retire
  BY DEF SuspendTrack
<1>2. /\ current \in DOMAIN track /\ ~track[current].deleted
      /\ current \in Nat \ {0} /\ current \notin Ids(urgent) \cup Ids(waiting)
  BY <1>1, RetireFacts, CurrentIsLive
<1>3. e \in Stacked /\ waiting \in Seq(Stacked) /\ HasPoint(e.trajectory)
  BY <1>1, <1>2, RetireFacts DEF IInv, TypeOK, Stacked
<1>4. /\ waiting' \in Seq(Stacked) /\ NoRepeat(waiting')
      /\ Ids(waiting') = Ids(waiting) \cup {current}
  BY <1>1, <1>2, <1>3, PushToStackIds DEF IInv, TrackInOnePlace
<1>5. TypeOK'
  BY <1>1, <1>4, RetireFacts, NothingTypes DEF IInv, TypeOK, Phase, Status
<1>6. PhaseOK'
  BY <1>1, RetireFacts DEF PhaseOK, InTrackingManager
<1>7. PointsOK'
  <2>1. \A k \in DOMAIN waiting' : HasPoint(waiting'[k].trajectory)
    BY <1>1, <1>3, AppendProperties DEF IInv, PointsOK, PushToStack
  <2> QED  BY <1>1, <2>1, RetireFacts DEF IInv, PointsOK, HasPoint
<1>8. TrackInOnePlace'
  <2>1. Live' = Live /\ Live = Ids(urgent) \cup Ids(waiting) \cup {current}
    BY <1>1, <1>2 DEF IInv, TrackInOnePlace, Live, InTracking
  <2>2. urgent' = urgent /\ InTracking' = {} /\ current' = 0
    BY <1>1, RetireFacts DEF InTracking
  <2>3. 0 \notin Ids(urgent') \cup Ids(waiting')
    BY <1>4, <2>2, IdsPositive DEF IInv, TypeOK
  <2> QED  BY <1>2, <1>4, <2>1, <2>2, <2>3 DEF IInv, TrackInOnePlace
<1> QED  BY <1>5, <1>6, <1>7, <1>8 DEF IInv

\* A retired track that is deleted leaves the stacks as they are.
LEMMA DeletedIInv ==
  ASSUME IInv, Retire, UNCHANGED waiting,
         track' = [track EXCEPT ![current].deleted = TRUE],
         Insert(LegTrajectory),
         secondaries' \in {secondaries, <<>>}
  PROVE  IInv'
<1>1. /\ current \in DOMAIN track /\ track[current] \in Track
      /\ current \in Nat \ {0} /\ current \notin Ids(urgent) \cup Ids(waiting)
      /\ track \in Seq(Track)
  BY RetireFacts, CurrentIsLive DEF IInv, TypeOK
<1>2. /\ track' \in Seq(Track) /\ DOMAIN track' = DOMAIN track
      /\ \A id \in DOMAIN track \ {current} : track'[id] = track[id]
      /\ track'[current].deleted = TRUE
  <2>1. /\ [track[current] EXCEPT !.deleted = TRUE] \in Track
        /\ [track[current] EXCEPT !.deleted = TRUE].deleted = TRUE
    BY <1>1, TrackUpdates
  <2>2. /\ DOMAIN track' = DOMAIN track
        /\ \A id \in DOMAIN track \ {current} : track'[id] = track[id]
        /\ track'[current] = [track[current] EXCEPT !.deleted = TRUE]
    BY <1>1
  <2>3. track' \in Seq(Track)
    BY <1>1, <2>1, ExceptSeq
  <2> QED  BY <2>1, <2>2, <2>3
<1>3. container' \in Seq(Trajectory)
  BY RetireFacts, AppendProperties DEF Insert, IInv, TypeOK
<1>4. secondaries' \in Seq(NewTrack)
  BY EmptySeq DEF IInv, TypeOK
<1>5. TypeOK'
  BY <1>2, <1>3, <1>4, RetireFacts, NothingTypes DEF IInv, TypeOK, Phase, Status
<1>6. PhaseOK'
  BY RetireFacts DEF PhaseOK, InTrackingManager
<1>7. PointsOK'
  BY RetireFacts DEF IInv, PointsOK, HasPoint
<1>8. TrackInOnePlace'
  <2>1. Live = Ids(urgent) \cup Ids(waiting) \cup {current}
    BY <1>1 DEF IInv, TrackInOnePlace, InTracking
  <2>2. Live' = Live \ {current}
    BY <1>1, <1>2 DEF Live
  <2>3. urgent' = urgent /\ InTracking' = {} /\ current' = 0
    BY RetireFacts DEF InTracking
  <2>4. 0 \notin Ids(urgent') \cup Ids(waiting')
    BY <2>3, IdsPositive DEF IInv, TypeOK
  <2> QED  BY <1>1, <2>1, <2>2, <2>3, <2>4 DEF IInv, TrackInOnePlace
<1> QED  BY <1>5, <1>6, <1>7, <1>8 DEF IInv

\* A killed track is deleted, its secondaries stay to be stacked.
LEMMA KillTrackIInv == IInv /\ KillTrack => IInv'
BY DeletedIInv DEF KillTrack

\* The track of an aborted event is deleted with its secondaries.
LEMMA AbortTrackIInv == IInv /\ AbortTrack => IInv'
BY DeletedIInv DEF AbortTrack

\* The end of an event leaves the stacks empty.
LEMMA EndOfEventIInv == IInv /\ EndOfEvent => IInv'
<1> SUFFICES ASSUME IInv, EndOfEvent PROVE IInv'
  OBVIOUS
<1> USE DEF EndOfEvent, stackVars, legVars
<1>1. TypeOK'
  BY DEF IInv, TypeOK, Phase
<1>2. PhaseOK'
  BY DEF IInv, PhaseOK, InTrackingManager
<1>3. PointsOK'
  BY DEF IInv, PointsOK
<1>4. TrackInOnePlace'
  BY DEF IInv, TrackInOnePlace, Live, InTracking
<1> QED  BY <1>1, <1>2, <1>3, <1>4 DEF IInv

\* A stuttering step changes nothing.
LEMMA StutterIInv == IInv /\ UNCHANGED vars => IInv'
<1> SUFFICES ASSUME IInv, UNCHANGED vars PROVE IInv'
  OBVIOUS
<1> USE DEF vars, stackVars, legVars
<1>1. TypeOK'
  BY DEF IInv, TypeOK
<1>2. PhaseOK' /\ PointsOK'
  BY DEF IInv, PhaseOK, PointsOK
<1>3. TrackInOnePlace'
  BY DEF IInv, TrackInOnePlace, Live, InTracking
<1> QED  BY <1>1, <1>2, <1>3 DEF IInv

\* Any step that processes an event keeps the invariant: stated without
\* EndOfEvent, so that EventTable, which refines the end, can use it.
LEMMA ProcessingIInv == IInv /\ Processing => IInv'
BY BeginOfEventIInv, PushOneTrackIInv, PopNextTrackIInv, NoMoreTracksIInv,
   PreUserTrackingActionIInv, SteppingIInv, AbortCurrentEventIInv,
   PostUserTrackingActionIInv, SuspendTrackIInv, KillTrackIInv, AbortTrackIInv
   DEF Processing

\* Every step of the run keeps the invariant.
LEMMA NextIInv == IInv /\ [Next]_vars => IInv'
BY ProcessingIInv, EndOfEventIInv, StutterIInv DEF Next

-----------------------------------------------------------------------------
\* In every reachable state the variables have their types, whatever the
\* particles and the bounds (DoProcessing, ProcessOneTrack and the hooks).
THEOREM TypeCorrect == Spec => []TypeOK
<1>1. IInv => TypeOK
  BY DEF IInv
<1> QED  BY <1>1, InitIInv, NextIInv, PTL DEF Spec

\* In every reachable state each track that is not deleted is in exactly one
\* of the urgent stack, the waiting stack and the tracking manager: none is
\* lost, tracked twice or used after its deletion, also when tracks are
\* suspended and events aborted (G4StackManager, G4EventManager).
THEOREM TracksAreInOnePlace == Spec => []TrackInOnePlace
<1>1. IInv => TrackInOnePlace
  BY DEF IInv
<1> QED  BY <1>1, InitIInv, NextIInv, PTL DEF Spec

-----------------------------------------------------------------------------
(***************************************************************************)
(* The legs of a track.  Whether a track is worth saving is settled when   *)
(* it is created, so either every leg of it leaves a trajectory or none    *)
(* does; and an optical photon, which cannot radiate, has one leg only.    *)
(***************************************************************************)
IsOptical(t) == t.kind.pdg = OpticalPhoton

\* A trajectory with a point for the start of its track and one per step.
IsWhole(trajectory, id, steps) ==
  /\ trajectory.id = id /\ trajectory.points = 1 + steps
  /\ trajectory.save => trajectory.stop = steps

\* The trajectory that goes with a track through the stacks, `steps' being
\* those of the legs before.
EarlierLegs(trajectory, id, steps) ==
  IF steps > 0 /\ SaveAPriori(track[id])
  THEN trajectory.save /\ IsWhole(trajectory, id, steps)
  ELSE trajectory = NoTrajectory

StackedLegs(id, trajectory) ==
  /\ EarlierLegs(trajectory, id, track[id].steps)
  /\ IsOptical(track[id]) => track[id].steps = 0

StacksOK ==
  /\ \A k \in DOMAIN urgent  : StackedLegs(urgent[k].id, urgent[k].trajectory)
  /\ \A k \in DOMAIN waiting : StackedLegs(waiting[k].id, waiting[k].trajectory)

\* While a leg is tracked its trajectory stops, so far, where it began.
Tracking ==
  LET t == track[current] IN
    /\ fpTrajectory.id = current /\ ~fpTrajectory.save
    /\ fpTrajectory.points = 1 + t.steps - fpTrajectory.stop
    /\ EarlierLegs(previousTrajectory, current, fpTrajectory.stop)
    /\ IsOptical(t) => fpTrajectory.stop = 0
    /\ info.save = SaveAPriori(t) /\ info.draw = SaveAPriori(t)

\* The trajectory of a leg done is whole, and marked if it is worth it; only
\* a photon that is drawn leaves one without a mark.
Tracked ==
  LET t == track[current] IN
    /\ LegTrajectory = NoTrajectory \/ IsWhole(LegTrajectory, current, t.steps)
    /\ LegTrajectory.save <=> SaveAPriori(t)
    /\ ~SaveAPriori(t) /\ (status = "fSuspend" \/ ~DrawOptical) =>
         LegTrajectory = NoTrajectory

LegOK ==
  /\ phase = "pre" => StackedLegs(current, previousTrajectory)
  /\ phase \in {"step", "post"} => Tracking
  /\ phase = "retire" => Tracked
  /\ phase \in {"post", "retire"} =>
       /\ track[current].steps > 0
       /\ status = "fSuspend" => ~IsOptical(track[current])
       /\ aborted <=> status = "fKillTrackAndSecondaries"

\* An aborted event has nothing left to track.
AbortOK ==
  aborted => /\ urgent = <<>> /\ waiting = <<>>
             /\ phase \notin {"stack", "pre", "step"}

\* Unless the event is aborted, a track that is done has been tracked and
\* has left its trajectory if it is worth saving.
IsSaved(id) == \E k \in DOMAIN container : container[k].id = id /\ container[k].save

Finished ==
  ~aborted => \A id \in DOMAIN track :
    track[id].deleted /\ track[id].stacked =>
      track[id].steps > 0 /\ (SaveAPriori(track[id]) => IsSaved(id))

(***************************************************************************)
(* The order of the stacks.                                                *)
(***************************************************************************)
\* A track has daughters once it has made a step.  Those not yet stacked are
\* the daughters of a track that is not on the urgent stack.
ParentsOK ==
  /\ \A id \in DOMAIN track :
       /\ track[id].parent < id
       /\ track[id].parent # 0 => track[track[id].parent].steps > 0
  /\ \A k \in DOMAIN secondaries : LET p == secondaries[k].parent IN
       p # 0 => p \in DOMAIN track /\ track[p].steps > 0 /\ p \notin Ids(urgent)
  /\ phase \in {"pop", "pre"} => secondaries = <<>>

\* A track that nobody has tracked yet.
Untracked(id) == track[id].steps = 0 /\ ~track[id].deleted /\ id # current

\* The untracked daughters of a stacked track are above it, on its stack.
DaughtersAbove(stack) ==
  \A k \in DOMAIN stack, id \in DOMAIN track :
    track[id].parent = stack[k].id /\ Untracked(id) =>
      \E n \in DOMAIN stack : n > k /\ stack[n].id = id

OrderOK ==
  /\ DaughtersAbove(urgent) /\ DaughtersAbove(waiting)
  /\ current # 0 => \A id \in DOMAIN track :
                      track[id].parent = current => ~Untracked(id)

\* What the legs of the tracks leave, and with it the whole invariant.
LegsOK == StacksOK /\ LegOK /\ AbortOK /\ TrajectoryComplete /\ Finished

Inv == IInv /\ LegsOK /\ ParentsOK /\ OrderOK

\* A run begins with no track.
LEMMA InitInv == Init => Inv
<1> SUFFICES ASSUME Init PROVE Inv
  OBVIOUS
<1>1. DOMAIN <<>> = {}
  OBVIOUS
<1>2. IInv
  BY InitIInv
<1>3. LegsOK
  BY <1>1 DEF Init, LegsOK, StacksOK, LegOK, AbortOK, TrajectoryComplete, NoRepeat,
              Finished
<1>4. ParentsOK /\ OrderOK
  BY <1>1 DEF Init, ParentsOK, OrderOK, DaughtersAbove
<1> QED  BY <1>2, <1>3, <1>4 DEF Inv

\* A new event begins with no track, its primaries are nobody's daughters.
LEMMA BeginOfEventInv == Inv /\ BeginOfEvent => LegsOK' /\ ParentsOK' /\ OrderOK'
<1> SUFFICES ASSUME Inv, BeginOfEvent PROVE LegsOK' /\ ParentsOK' /\ OrderOK'
  OBVIOUS
<1>1. DOMAIN <<>> = {}
  OBVIOUS
<1>2. PICK prim \in SeqUpTo(PrimaryKind, MaxPrimaries) :
        /\ secondaries' = TracksOf(prim, 0)
        /\ phase' = StackOrPop(prim)
  BY DEF BeginOfEvent
<1>3. /\ track' = <<>> /\ urgent' = <<>> /\ waiting' = <<>> /\ container' = <<>>
      /\ aborted' = FALSE /\ current' = 0 /\ phase' \in {"stack", "pop"}
  BY <1>2 DEF BeginOfEvent, legVars, Inv, IInv, PhaseOK, InTrackingManager, StackOrPop
<1>4. LegsOK'
  BY <1>1, <1>3 DEF LegsOK, StacksOK, LegOK, AbortOK, TrajectoryComplete, NoRepeat,
                    Finished
<1>5. ParentsOK'
  <2>1. \A k \in DOMAIN secondaries' : secondaries'[k].parent = 0
    BY <1>2 DEF TracksOf
  <2>2. phase' = "pop" => secondaries' = <<>>
    BY <1>1, <1>2 DEF StackOrPop, TracksOf
  <2> QED  BY <1>1, <1>3, <2>1, <2>2 DEF ParentsOK
<1>6. OrderOK'
  BY <1>1, <1>3 DEF OrderOK, DaughtersAbove
<1> QED  BY <1>4, <1>5, <1>6

\* What the stacks hold are tracks of the event, other than the current one.
LEMMA StackedTracks ==
  ASSUME IInv
  PROVE  /\ \A k \in DOMAIN urgent :
              /\ urgent[k].id \in DOMAIN track /\ ~track[urgent[k].id].deleted
              /\ urgent[k].id # current
         /\ \A k \in DOMAIN waiting :
              /\ waiting[k].id \in DOMAIN track /\ ~track[waiting[k].id].deleted
              /\ waiting[k].id # current
<1>1. Ids(urgent) \cup Ids(waiting) \subseteq Live \ {current}
  BY DEF IInv, TrackInOnePlace
<1> QED  BY <1>1 DEF Ids, Live

\* The records of the tracks, the IDs of which are 1 to their number.
LEMMA TrackFacts ==
  ASSUME IInv
  PROVE  /\ track \in Seq(Track) /\ Len(track) \in Nat
         /\ DOMAIN track = 1 .. Len(track)
         /\ \A id \in DOMAIN track :
              /\ track[id] \in Track /\ track[id].steps \in Nat
              /\ track[id].parent \in Nat
              /\ track[id].deleted \in BOOLEAN /\ track[id].stacked \in BOOLEAN
<1>1. track \in Seq(Track)
  BY DEF IInv, TypeOK
<1>2. \A id \in DOMAIN track : track[id] \in Track
  BY <1>1, ElementOfSeq
<1> QED  BY <1>1, <1>2, LenProperties DEF Track

\* A new track goes on top of the waiting stack, where its mother may be.
LEMMA PushOneTrackInv == Inv /\ PushOneTrack => LegsOK' /\ ParentsOK' /\ OrderOK'
<1> SUFFICES ASSUME Inv, PushOneTrack PROVE LegsOK' /\ ParentsOK' /\ OrderOK'
  OBVIOUS
<1> DEFINE t  == Head(secondaries)
           n  == Len(track) + 1
           e  == [id |-> n, trajectory |-> NoTrajectory]
           new(c) == [kind |-> t.kind, parent |-> t.parent, steps |-> 0,
                      stacked |-> c # "fKill", deleted |-> c = "fKill"]
<1>1. PICK c \in ClassifyNewTrack(t) :
        /\ track' = Append(track, new(c))
        /\ waiting' = IF c = "fKill" THEN waiting ELSE PushToStack(waiting, e)
  BY DEF PushOneTrack, NextTrackID
<1>2. /\ IInv /\ LegsOK /\ ParentsOK /\ OrderOK
      /\ phase = "stack" /\ current = 0 /\ ~aborted
  BY DEF PushOneTrack, Inv, IInv, PhaseOK, InTrackingManager, LegsOK, AbortOK
<1>3. /\ UNCHANGED <<event, urgent, container, aborted, current>>
      /\ secondaries' = Tail(secondaries)
      /\ phase' = StackOrPop(secondaries')
  BY DEF PushOneTrack, legVars
<1>4. /\ secondaries # <<>> /\ secondaries \in Seq(NewTrack)
      /\ waiting \in Seq(Stacked)
  BY <1>2 DEF PushOneTrack, IInv, PhaseOK, TypeOK
<1>5. /\ t \in NewTrack /\ 1 \in DOMAIN secondaries /\ t = secondaries[1]
      /\ \A k \in DOMAIN secondaries' :
           k + 1 \in DOMAIN secondaries /\ secondaries'[k] = secondaries[k + 1]
  BY <1>3, <1>4, EmptySeq, HeadTailProperties
<1>6. /\ track \in Seq(Track) /\ n \in Nat \ {0} /\ n = Len(track) + 1
      /\ DOMAIN track = 1 .. Len(track) /\ Len(track) \in Nat
  BY <1>2, TrackFacts
<1>7. /\ DOMAIN track' = DOMAIN track \cup {n} /\ n \notin DOMAIN track
      /\ \A id \in DOMAIN track : track'[id] = track[id]
      /\ track'[n] = new(c)
  <2>1. new(c) \in Track
    BY <1>5 DEF Track, NewTrack
  <2> QED  BY <1>1, <1>6, <2>1, AppendProperties
<1> HIDE DEF t, n
<1>8. /\ track'[n].parent = t.parent /\ track'[n].steps = 0
      /\ track'[n].stacked = (c # "fKill") /\ track'[n].deleted = (c = "fKill")
  BY <1>7
<1>9. /\ \A k \in DOMAIN waiting : k \in DOMAIN waiting' /\ waiting'[k] = waiting[k]
      /\ \A k \in DOMAIN waiting' : k \in DOMAIN waiting \/ (c # "fKill" /\ waiting'[k] = e)
      /\ c # "fKill" =>
           /\ Len(waiting) + 1 \in DOMAIN waiting'
           /\ waiting'[Len(waiting) + 1] = e
           /\ \A k \in DOMAIN waiting : k < Len(waiting) + 1
  <2>1. e \in Stacked
    BY <1>6, NothingTypes DEF Stacked
  <2>2. CASE c = "fKill"
    BY <1>1, <2>2
  <2>3. CASE c # "fKill"
    <3>1. waiting' = Append(waiting, e)
      BY <1>1, <2>3 DEF PushToStack
    <3> QED  BY <1>4, <2>1, <2>3, <3>1, AppendProperties
  <2> QED  BY <2>2, <2>3
<1> HIDE DEF e
<1>10. e.id = n /\ e.trajectory = NoTrajectory
  BY DEF e
<1>11. phase' \in {"stack", "pop"} /\ (phase' = "pop" => secondaries' = <<>>)
  BY <1>3 DEF StackOrPop
<1>12. LegsOK'
  <2>1. StacksOK'
    <3>1. \A k \in DOMAIN urgent' : StackedLegs(urgent[k].id, urgent[k].trajectory)'
      BY <1>2, <1>3, <1>7, StackedTracks DEF LegsOK, StacksOK, StackedLegs, EarlierLegs,
         SaveAPriori, IsOptical
    <3>2. \A k \in DOMAIN waiting' : StackedLegs(waiting[k].id, waiting[k].trajectory)'
      <4>1. \A k \in DOMAIN waiting : StackedLegs(waiting[k].id, waiting[k].trajectory)'
        BY <1>2, <1>7, <1>9, StackedTracks DEF LegsOK, StacksOK, StackedLegs,
           EarlierLegs, SaveAPriori, IsOptical
      <4>2. \A k \in DOMAIN waiting' : waiting'[k] = e =>
              StackedLegs(waiting[k].id, waiting[k].trajectory)'
        BY <1>8, <1>10 DEF StackedLegs, EarlierLegs
      <4> QED  BY <1>9, <4>1, <4>2
    <3> QED  BY <3>1, <3>2 DEF StacksOK
  <2>2. LegOK' /\ AbortOK'
    BY <1>2, <1>3, <1>11 DEF LegOK, AbortOK
  <2>3. TrajectoryComplete'
    BY <1>2, <1>3, <1>7 DEF LegsOK, TrajectoryComplete, NoRepeat
  <2>4. Finished'
    <3> SUFFICES ASSUME NEW id \in DOMAIN track', track'[id].deleted, track'[id].stacked
                 PROVE  /\ track'[id].steps > 0
                        /\ SaveAPriori(track'[id]) => IsSaved(id)'
      BY DEF Finished
    <3>1. id \in DOMAIN track /\ track'[id] = track[id]
      BY <1>7, <1>8
    <3>2. IsSaved(id)' <=> IsSaved(id)
      BY <1>3 DEF IsSaved
    <3> QED  BY <1>2, <3>1, <3>2 DEF LegsOK, Finished
  <2> QED  BY <2>1, <2>2, <2>3, <2>4 DEF LegsOK
<1>13. t.parent # 0 => /\ t.parent \in DOMAIN track /\ track[t.parent].steps > 0
                       /\ t.parent \notin Ids(urgent)
  BY <1>2, <1>5 DEF ParentsOK
<1>14. ParentsOK'
  <2>1. \A id \in DOMAIN track' :
          /\ track'[id].parent < id
          /\ track'[id].parent # 0 => track'[track'[id].parent].steps > 0
    <3>1. \A id \in DOMAIN track :
            /\ track[id].parent < id /\ track[id].parent \in Nat
            /\ track[id].parent # 0 => track[id].parent \in DOMAIN track
                                       /\ track[track[id].parent].steps > 0
      BY <1>2, <1>6, TrackFacts DEF ParentsOK
    <3>2. t.parent < n
      BY <1>6, <1>13
    <3> QED  BY <1>7, <1>8, <1>13, <3>1, <3>2
  <2>2. \A k \in DOMAIN secondaries' : secondaries'[k].parent # 0 =>
          /\ secondaries'[k].parent \in DOMAIN track'
          /\ track'[secondaries'[k].parent].steps > 0
          /\ secondaries'[k].parent \notin Ids(urgent')
    BY <1>2, <1>3, <1>5, <1>7 DEF ParentsOK
  <2> QED  BY <1>11, <2>1, <2>2 DEF ParentsOK
<1>15. OrderOK'
  <2>1. \A id \in DOMAIN track : Untracked(id)' <=> Untracked(id)
    BY <1>3, <1>7 DEF Untracked
  <2>2. DaughtersAbove(urgent)'
    <3> SUFFICES ASSUME NEW k \in DOMAIN urgent, NEW id \in DOMAIN track',
                        track'[id].parent = urgent[k].id, Untracked(id)'
                 PROVE  \E m \in DOMAIN urgent : m > k /\ urgent[m].id = id
      BY <1>3 DEF DaughtersAbove
    <3>1. id # n
      <4>1. urgent[k].id # 0 /\ urgent[k].id \in Ids(urgent)
        BY <1>2, IdsPositive DEF IInv, TypeOK, Ids
      <4> QED  BY <1>8, <1>13, <4>1
    <3> QED  BY <1>2, <1>7, <2>1, <3>1 DEF OrderOK, DaughtersAbove
  <2>3. DaughtersAbove(waiting)'
    <3> SUFFICES ASSUME NEW k \in DOMAIN waiting', NEW id \in DOMAIN track',
                        track'[id].parent = waiting'[k].id, Untracked(id)'
                 PROVE  \E m \in DOMAIN waiting' : m > k /\ waiting'[m].id = id
      BY DEF DaughtersAbove
    <3>1. waiting'[k].id < id
      BY <1>14 DEF ParentsOK
    <3>2. k \in DOMAIN waiting /\ waiting'[k] = waiting[k]
      <4>1. id <= n
        BY <1>6, <1>7
      <4>2. waiting'[k].id # n
        BY <1>6, <1>7, <3>1, <4>1
      <4> QED  BY <1>9, <1>10, <4>2
    <3>3. CASE id = n
      <4>1. c # "fKill"
        BY <1>8, <3>3 DEF Untracked
      <4> QED  BY <1>9, <1>10, <3>2, <3>3, <4>1
    <3>4. CASE id # n
      BY <1>2, <1>7, <1>9, <2>1, <3>2, <3>4 DEF OrderOK, DaughtersAbove
    <3> QED  BY <3>3, <3>4
  <2> QED  BY <1>2, <1>3, <2>2, <2>3 DEF OrderOK
<1> QED  BY <1>12, <1>14, <1>15

\* The container stays as it should be when no track and no entry changes.
LEMMA SameTracks ==
  ASSUME Inv, UNCHANGED <<track, container, aborted>>
  PROVE  TrajectoryComplete' /\ Finished'
<1>1. TrajectoryComplete'
  BY DEF Inv, LegsOK, TrajectoryComplete, NoRepeat
<1>2. Finished'
  BY DEF Inv, LegsOK, Finished, IsSaved, SaveAPriori
<1> QED  BY <1>1, <1>2

\* The stacks stay as they should be when only the current track changes.
LEMMA SameStacks ==
  ASSUME Inv, UNCHANGED <<urgent, waiting>>, DOMAIN track' = DOMAIN track,
         \A id \in DOMAIN track \ {current} : track'[id] = track[id]
  PROVE  StacksOK'
<1>1. StacksOK /\ IInv
  BY DEF Inv, LegsOK
<1>2. \A k \in DOMAIN urgent : StackedLegs(urgent[k].id, urgent[k].trajectory)'
  BY <1>1, StackedTracks DEF StacksOK, StackedLegs, EarlierLegs, SaveAPriori, IsOptical
<1>3. \A k \in DOMAIN waiting : StackedLegs(waiting[k].id, waiting[k].trajectory)'
  BY <1>1, StackedTracks DEF StacksOK, StackedLegs, EarlierLegs, SaveAPriori, IsOptical
<1> QED  BY <1>2, <1>3 DEF StacksOK

\* The top of the stack has no untracked daughter; of the tracks below, only
\* the popped one is a daughter above that leaves the stack.
LEMMA PopNextTrackInv == Inv /\ PopNextTrack => LegsOK' /\ ParentsOK' /\ OrderOK'
<1> SUFFICES ASSUME Inv, PopNextTrack PROVE LegsOK' /\ ParentsOK' /\ OrderOK'
  OBVIOUS
<1> DEFINE n    == Len(Stage)
           rest == SubSeq(Stage, 1, n - 1)
           top  == Stage[n]
<1>1. /\ IInv /\ LegsOK /\ ParentsOK /\ OrderOK
      /\ phase = "pop" /\ current = 0 /\ secondaries = <<>>
      /\ Stage \in Seq(Stacked) /\ Stage # <<>> /\ NoRepeat(Stage)
  BY DEF PopNextTrack, Inv, IInv, PhaseOK, InTrackingManager, ParentsOK, Stage,
         TypeOK, TrackInOnePlace
<1>2. ~aborted
  BY <1>1 DEF LegsOK, AbortOK, Stage
<1>3. /\ urgent' = rest /\ current' = top.id /\ previousTrajectory' = top.trajectory
      /\ phase' = "pre"
      /\ UNCHANGED <<event, track, secondaries, container, aborted>>
  BY DEF PopNextTrack
<1>4. /\ waiting' = IF urgent = <<>> THEN <<>> ELSE waiting
      /\ DOMAIN <<>> = {}
  BY DEF PopNextTrack
<1>5. n \in Nat \ {0} /\ DOMAIN Stage = 1 .. n /\ top \in Stacked
  BY <1>1, EmptySeq, ElementOfSeq
<1>6. DOMAIN rest = 1 .. n - 1 /\ \A k \in 1 .. n - 1 : rest[k] = Stage[k]
  BY <1>1, <1>5, SubSeqProperties
<1> HIDE DEF n, rest
<1>7. /\ \A k \in DOMAIN Stage : StackedLegs(Stage[k].id, Stage[k].trajectory)
      /\ \A k \in DOMAIN waiting' : StackedLegs(waiting'[k].id, waiting'[k].trajectory)
  <2>1. /\ \A k \in DOMAIN urgent : StackedLegs(urgent[k].id, urgent[k].trajectory)
        /\ \A k \in DOMAIN waiting : StackedLegs(waiting[k].id, waiting[k].trajectory)
    BY <1>1 DEF LegsOK, StacksOK
  <2>2. CASE urgent = <<>>
    BY <1>4, <2>1, <2>2 DEF Stage
  <2>3. CASE urgent # <<>>
    BY <1>4, <2>1, <2>3 DEF Stage
  <2> QED  BY <2>2, <2>3
<1>8. LegsOK'
  <2>1. TrajectoryComplete' /\ Finished'
    BY <1>3, SameTracks
  <2>2. \A k \in DOMAIN waiting' : StackedLegs(waiting[k].id, waiting[k].trajectory)'
    BY <1>3, <1>7 DEF StackedLegs, EarlierLegs, SaveAPriori, IsOptical
  <2>3. \A k \in DOMAIN urgent' : StackedLegs(urgent[k].id, urgent[k].trajectory)'
    BY <1>3, <1>5, <1>6, <1>7 DEF StackedLegs, EarlierLegs, SaveAPriori, IsOptical
  <2>4. StackedLegs(current, previousTrajectory)'
    BY <1>3, <1>5, <1>7 DEF StackedLegs, EarlierLegs, SaveAPriori, IsOptical
  <2>5. LegOK' /\ AbortOK' /\ StacksOK'
    BY <1>2, <1>3, <2>2, <2>3, <2>4 DEF LegOK, AbortOK, StacksOK
  <2> QED  BY <2>1, <2>5 DEF LegsOK
<1>9. ParentsOK'
  BY <1>1, <1>3, <1>4 DEF ParentsOK
<1>10. OrderOK'
  <2>1. DaughtersAbove(Stage) /\ DaughtersAbove(waiting)
    BY <1>1 DEF OrderOK, Stage
  <2>2. \A id \in DOMAIN track : Untracked(id)' => Untracked(id) /\ id # top.id
    <3>1. \A id \in DOMAIN track : id # 0
      BY <1>1, TrackFacts
    <3> QED  BY <1>1, <1>3, <3>1 DEF Untracked
  <2>3. DaughtersAbove(waiting)'
    <3>1. CASE urgent = <<>>
      BY <1>4, <3>1 DEF DaughtersAbove
    <3>2. CASE urgent # <<>>
      BY <1>3, <1>4, <2>1, <2>2, <3>2 DEF DaughtersAbove
    <3> QED  BY <3>1, <3>2
  <2>4. DaughtersAbove(urgent)'
    <3> SUFFICES ASSUME NEW k \in 1 .. n - 1, NEW id \in DOMAIN track,
                        track[id].parent = Stage[k].id, Untracked(id)'
                 PROVE  \E m \in 1 .. n - 1 : m > k /\ Stage[m].id = id
      BY <1>3, <1>6 DEF DaughtersAbove
    <3>1. PICK m \in DOMAIN Stage : m > k /\ Stage[m].id = id
      BY <1>5, <2>1, <2>2 DEF DaughtersAbove
    <3>2. m # n
      BY <2>2, <3>1
    <3> QED  BY <1>5, <3>1, <3>2
  <2>5. \A id \in DOMAIN track' : track'[id].parent = top.id => ~Untracked(id)'
    BY <1>3, <1>5, <2>1, <2>2 DEF DaughtersAbove
  <2> QED  BY <1>3, <2>3, <2>4, <2>5 DEF OrderOK
<1> QED  BY <1>8, <1>9, <1>10

\* The end of the loop changes no track and no stack.
LEMMA NoMoreTracksInv == Inv /\ NoMoreTracks => LegsOK' /\ ParentsOK' /\ OrderOK'
<1> SUFFICES ASSUME Inv, NoMoreTracks PROVE LegsOK' /\ ParentsOK' /\ OrderOK'
  OBVIOUS
<1>1. /\ phase' = "end" /\ current = 0
      /\ UNCHANGED <<track, urgent, waiting, secondaries, current, container, aborted>>
  BY DEF NoMoreTracks, stackVars, legVars, Inv, IInv, PhaseOK, InTrackingManager
<1>2. LegsOK'
  <2>1. TrajectoryComplete' /\ Finished'
    BY <1>1, SameTracks
  <2>2. StacksOK'
    BY <1>1, SameStacks
  <2>3. LegOK' /\ AbortOK'
    BY <1>1 DEF Inv, LegsOK, LegOK, AbortOK
  <2> QED  BY <2>1, <2>2, <2>3 DEF LegsOK
<1>3. ParentsOK'
  BY <1>1 DEF Inv, ParentsOK
<1>4. OrderOK'
  BY <1>1 DEF Inv, OrderOK, DaughtersAbove, Untracked
<1> QED  BY <1>2, <1>3, <1>4

\* A leg starts where the track stopped, and is worth what the track is.
LEMMA PreUserTrackingActionInv ==
  Inv /\ PreUserTrackingAction => LegsOK' /\ ParentsOK' /\ OrderOK'
<1> SUFFICES ASSUME Inv, PreUserTrackingAction PROVE LegsOK' /\ ParentsOK' /\ OrderOK'
  OBVIOUS
<1> DEFINE t == track[current]
<1>1. /\ phase = "pre" /\ phase' = "step" /\ current # 0
      /\ fpTrajectory' = [id |-> current, points |-> 1, stop |-> t.steps, save |-> FALSE]
      /\ info' = [save |-> SaveAPriori(t), draw |-> SaveAPriori(t), hitPMT |-> FALSE]
      /\ UNCHANGED <<track, urgent, waiting, secondaries, current,
                     previousTrajectory, container, aborted>>
  BY DEF PreUserTrackingAction, InitialStatus, StepOrPost, stackVars, Inv, IInv,
         PhaseOK, InTrackingManager
<1>2. t.steps \in Nat /\ ~aborted /\ StackedLegs(current, previousTrajectory)
  BY <1>1, CurrentSteps DEF Inv, LegsOK, LegOK, AbortOK
<1>3. LegsOK'
  <2>1. TrajectoryComplete' /\ Finished' /\ StacksOK'
    BY <1>1, SameTracks, SameStacks
  <2>2. Tracking'
    <3>1. EarlierLegs(previousTrajectory, current, fpTrajectory.stop)'
      BY <1>1, <1>2 DEF StackedLegs, EarlierLegs, SaveAPriori
    <3>2. IsOptical(track[current])' => fpTrajectory'.stop = 0
      BY <1>1, <1>2 DEF StackedLegs, IsOptical
    <3>3. SaveAPriori(track[current])' = SaveAPriori(t)
      BY <1>1 DEF SaveAPriori
    <3>4. fpTrajectory'.points = 1 + t.steps - fpTrajectory'.stop
      BY <1>1, <1>2
    <3> QED  BY <1>1, <3>1, <3>2, <3>3, <3>4 DEF Tracking
  <2> QED  BY <1>1, <1>2, <2>1, <2>2 DEF LegsOK, LegOK, AbortOK
<1>4. ParentsOK'
  BY <1>1 DEF Inv, ParentsOK
<1>5. OrderOK'
  BY <1>1 DEF Inv, OrderOK, DaughtersAbove, Untracked
<1> QED  BY <1>3, <1>4, <1>5

\* The trajectory of a leg gets a point when its track makes a step.
LEMMA StepIsTracked ==
  ASSUME Tracking, fpTrajectory \in Trajectory, track[current].steps \in Nat,
         track'[current].steps = track[current].steps + 1,
         track'[current].kind = track[current].kind,
         track'[current].parent = track[current].parent,
         fpTrajectory' = [fpTrajectory EXCEPT !.points = @ + 1],
         info'.save = info.save, info'.draw = info.draw,
         UNCHANGED <<current, previousTrajectory>>
  PROVE  Tracking'
<1> DEFINE t == track[current]
<1>1. SaveAPriori(track[current])' = SaveAPriori(t)
  BY DEF SaveAPriori
<1>2. /\ fpTrajectory'.id = fpTrajectory.id /\ fpTrajectory'.save = fpTrajectory.save
      /\ fpTrajectory'.stop = fpTrajectory.stop
      /\ fpTrajectory'.points = fpTrajectory.points + 1
      /\ fpTrajectory.points \in Nat /\ fpTrajectory.stop \in Nat
  BY DEF Trajectory
<1>3. EarlierLegs(previousTrajectory, current, fpTrajectory.stop)'
  BY <1>1, <1>2 DEF Tracking, EarlierLegs
<1>4. IsOptical(track[current])' => fpTrajectory'.stop = 0
  BY <1>2 DEF Tracking, IsOptical
<1>5. fpTrajectory'.points = 1 + track'[current].steps - fpTrajectory'.stop
  BY <1>2 DEF Tracking
<1> QED  BY <1>1, <1>2, <1>3, <1>4, <1>5 DEF Tracking

\* A step makes its track a mother, and only the current one changes.
LEMMA SteppingInv == Inv /\ Stepping => LegsOK' /\ ParentsOK' /\ OrderOK'
<1> SUFFICES ASSUME Inv, Stepping PROVE LegsOK' /\ ParentsOK' /\ OrderOK'
  OBVIOUS
<1> DEFINE t == track[current]
<1>1. /\ phase = "step" /\ current # 0 /\ IInv /\ LegsOK /\ ParentsOK /\ OrderOK
      /\ track' = [track EXCEPT ![current].steps = @ + 1]
      /\ fpTrajectory' = [fpTrajectory EXCEPT !.points = @ + 1]
      /\ phase' = StepOrPost(status')
      /\ UNCHANGED <<urgent, waiting, current, previousTrajectory, container, aborted>>
  BY DEF Stepping, Inv, IInv, PhaseOK, InTrackingManager
<1>2. PICK new \in SecondariesOf(t.kind.pdg) :
        /\ status' \in StatusAfter(new)
        /\ secondaries' = secondaries \o TracksOf(new, current)
  BY DEF Stepping
<1>3. PICK hit \in BOOLEAN : info' = [info EXCEPT !.hitPMT = hit]
  BY DEF Stepping
<1>4. /\ current \in DOMAIN track /\ ~t.deleted /\ t \in Track /\ t.steps \in Nat
      /\ current \notin Ids(urgent) \cup Ids(waiting)
      /\ ~aborted /\ Tracking /\ fpTrajectory \in Trajectory
  BY <1>1, CurrentIsLive, CurrentSteps DEF LegsOK, LegOK, AbortOK, IInv, TypeOK
<1>5. /\ DOMAIN track' = DOMAIN track
      /\ \A id \in DOMAIN track \ {current} : track'[id] = track[id]
      /\ track'[current] = [t EXCEPT !.steps = @ + 1]
  BY <1>1, <1>4
<1>6. /\ track'[current].steps = t.steps + 1 /\ track'[current].kind = t.kind
      /\ track'[current].parent = t.parent /\ track'[current].deleted = t.deleted
  BY <1>4, <1>5 DEF Track
<1>7. phase' \in {"step", "post"} /\ status' # "fKillTrackAndSecondaries"
  BY <1>1, <1>2 DEF StepOrPost, StatusAfter
<1> HIDE DEF t
<1>8. LegsOK'
  <2>1. StacksOK'
    BY <1>1, <1>5, SameStacks
  <2>2. Tracking'
    <3>1. info'.save = info.save /\ info'.draw = info.draw
      BY <1>1, <1>3 DEF IInv, TypeOK
    <3> QED  BY <1>1, <1>4, <1>6, <3>1, StepIsTracked DEF t
  <2>3. status' = "fSuspend" => ~IsOptical(t)
    <3>1. SUFFICES ASSUME Radiates(new) PROVE ~IsOptical(t)
      BY <1>2 DEF StatusAfter
    <3>2. PICK k \in DOMAIN new : new[k].pdg = OpticalPhoton
      BY <3>1 DEF Radiates
    <3>3. new[k] \in Daughters[t.kind.pdg]
      <4>1. t.kind.pdg \in Species
        BY <1>4 DEF Track, Kind
      <4>2. Daughters[t.kind.pdg] \in SUBSET Kind /\ MaxPerStep \in Nat
        BY <4>1, EventLoopAssumption DEF EventLoopAssumption
      <4>3. new \in SeqUpTo(Daughters[t.kind.pdg], MaxPerStep)
        BY <1>2 DEF SecondariesOf
      <4> QED  BY <4>2, <4>3, NewTracks
    <3>4. t.kind.pdg \in Charged
      <4>1. t.kind.pdg \in Species
        BY <1>4 DEF Track, Kind
      <4> QED  BY <3>2, <3>3, <4>1, EventLoopAssumption DEF EventLoopAssumption
    <3> QED  BY <3>4, EventLoopAssumption DEF EventLoopAssumption, IsOptical
  <2>4. LegOK' /\ AbortOK'
    BY <1>1, <1>4, <1>6, <1>7, <2>2, <2>3 DEF LegOK, AbortOK, IsOptical, t
  <2>5. TrajectoryComplete'
    <3>1. \A k \in DOMAIN container :
            container[k].id \in DOMAIN track \ {current}
      BY <1>1, <1>4 DEF LegsOK, TrajectoryComplete, t
    <3> QED  BY <1>1, <1>5, <3>1 DEF LegsOK, TrajectoryComplete, NoRepeat
  <2>6. Finished'
    <3> SUFFICES ASSUME NEW id \in DOMAIN track', track'[id].deleted, track'[id].stacked
                 PROVE  /\ track'[id].steps > 0
                        /\ SaveAPriori(track'[id]) => IsSaved(id)'
      BY DEF Finished
    <3>1. id \in DOMAIN track /\ track'[id] = track[id]
      BY <1>4, <1>5, <1>6
    <3>2. IsSaved(id)' <=> IsSaved(id)
      BY <1>1 DEF IsSaved
    <3> QED  BY <1>1, <1>4, <3>1, <3>2 DEF LegsOK, Finished
  <2> QED  BY <2>1, <2>4, <2>5, <2>6 DEF LegsOK
<1>9. \A id \in DOMAIN track :
        /\ track'[id].parent = track[id].parent
        /\ track[id].steps > 0 => track'[id].steps > 0
        /\ Untracked(id)' <=> Untracked(id)
  BY <1>1, <1>4, <1>5, <1>6 DEF Untracked, t
<1>10. ParentsOK'
  <2>1. \A id \in DOMAIN track' :
          /\ track'[id].parent < id
          /\ track'[id].parent # 0 => track'[track'[id].parent].steps > 0
    <3>1. \A id \in DOMAIN track : track[id].parent # 0 => track[id].parent \in DOMAIN track
      BY <1>1, TrackFacts DEF ParentsOK
    <3> QED  BY <1>1, <1>5, <1>9, <3>1 DEF ParentsOK
  <2>2. \A k \in DOMAIN secondaries' : secondaries'[k].parent = current
            \/ (k \in DOMAIN secondaries /\ secondaries'[k] = secondaries[k])
    <3>1. TracksOf(new, current) \in Seq(NewTrack)
      <4>1. t.kind.pdg \in Species /\ current \in Nat
        BY <1>1, <1>4 DEF Track, Kind, IInv, TypeOK
      <4>2. Daughters[t.kind.pdg] \in SUBSET Kind /\ MaxPerStep \in Nat
        BY <4>1, EventLoopAssumption DEF EventLoopAssumption
      <4>3. new \in SeqUpTo(Daughters[t.kind.pdg], MaxPerStep)
        BY <1>2 DEF SecondariesOf
      <4> QED  BY <4>1, <4>2, <4>3, NewTracks
    <3>2. \A k \in DOMAIN TracksOf(new, current) : TracksOf(new, current)[k].parent = current
      BY DEF TracksOf
    <3>3. secondaries \in Seq(NewTrack)
      BY <1>1 DEF IInv, TypeOK
    <3> QED  BY <1>2, <3>1, <3>2, <3>3, ConcatProperties
  <2>3. \A k \in DOMAIN secondaries' : secondaries'[k].parent # 0 =>
          /\ secondaries'[k].parent \in DOMAIN track'
          /\ track'[secondaries'[k].parent].steps > 0
          /\ secondaries'[k].parent \notin Ids(urgent')
    <3>1. \A k \in DOMAIN secondaries : secondaries[k].parent # 0 =>
            /\ secondaries[k].parent \in DOMAIN track
            /\ track[secondaries[k].parent].steps > 0
            /\ secondaries[k].parent \notin Ids(urgent)
      BY <1>1 DEF ParentsOK
    <3>2. urgent' = urgent /\ track'[current].steps > 0
      BY <1>1, <1>4, <1>6
    <3> SUFFICES ASSUME NEW k \in DOMAIN secondaries', secondaries'[k].parent # 0
                 PROVE  /\ secondaries'[k].parent \in DOMAIN track'
                        /\ track'[secondaries'[k].parent].steps > 0
                        /\ secondaries'[k].parent \notin Ids(urgent)
      BY <3>2
    <3>3. CASE secondaries'[k].parent = current
      BY <1>4, <1>5, <3>2, <3>3
    <3>4. CASE k \in DOMAIN secondaries /\ secondaries'[k] = secondaries[k]
      BY <1>5, <1>9, <3>1, <3>4
    <3> QED  BY <2>2, <3>3, <3>4
  <2> QED  BY <1>7, <2>1, <2>3 DEF ParentsOK
<1>11. OrderOK'
  <2>1. /\ DaughtersAbove(urgent)'
        /\ DaughtersAbove(waiting)'
    BY <1>1, <1>5, <1>9 DEF OrderOK, DaughtersAbove
  <2> QED  BY <1>1, <1>5, <1>9, <2>1 DEF OrderOK
<1> QED  BY <1>8, <1>10, <1>11

\* An abort empties the stacks: nothing is left to be ordered or saved.
LEMMA AbortCurrentEventInv ==
  Inv /\ AbortCurrentEvent => LegsOK' /\ ParentsOK' /\ OrderOK'
<1> SUFFICES ASSUME Inv, AbortCurrentEvent PROVE LegsOK' /\ ParentsOK' /\ OrderOK'
  OBVIOUS
<1> DEFINE t  == track[current]
           on == Ids(urgent) \cup Ids(waiting)
<1>1. /\ phase = "step" /\ current # 0 /\ IInv /\ LegsOK /\ ParentsOK /\ OrderOK
      /\ urgent' = <<>> /\ waiting' = <<>> /\ aborted' = TRUE /\ phase' = "post"
      /\ fpTrajectory' = [fpTrajectory EXCEPT !.points = @ + 1]
      /\ status' = "fKillTrackAndSecondaries"
      /\ UNCHANGED <<secondaries, current, previousTrajectory, info, container>>
      /\ DOMAIN <<>> = {}
  BY DEF AbortCurrentEvent, Inv, IInv, PhaseOK, InTrackingManager
<1>2. track' = [id \in DOMAIN track |->
                  IF id = current THEN [track[id] EXCEPT !.steps = @ + 1]
                  ELSE IF id \in on THEN [track[id] EXCEPT !.deleted = TRUE]
                  ELSE track[id]]
  BY DEF AbortCurrentEvent
<1>3. /\ current \in DOMAIN track /\ ~t.deleted /\ t \in Track /\ t.steps \in Nat
      /\ Tracking /\ fpTrajectory \in Trajectory
  BY <1>1, CurrentIsLive, CurrentSteps DEF LegsOK, LegOK, IInv, TypeOK
<1> HIDE DEF on
<1>4. /\ DOMAIN track' = DOMAIN track
      /\ \A id \in DOMAIN track :
           /\ track'[id].parent = track[id].parent /\ track'[id].kind = track[id].kind
           /\ track[id].deleted => track'[id].deleted
           /\ track'[id].steps = track[id].steps + IF id = current THEN 1 ELSE 0
  <2>1. \A id \in DOMAIN track : track[id] \in Track /\ track[id].steps \in Nat
    BY <1>1, TrackFacts
  <2> QED  BY <1>2, <2>1 DEF Track
<1>5. LegsOK'
  <2>1. StacksOK' /\ AbortOK' /\ Finished'
    BY <1>1 DEF StacksOK, AbortOK, Finished
  <2>2. Tracking'
    BY <1>1, <1>3, <1>4, StepIsTracked
  <2>3. LegOK'
    BY <1>1, <1>3, <1>4, <2>2 DEF LegOK
  <2>4. TrajectoryComplete'
    <3>1. \A k \in DOMAIN container :
            /\ container[k].id \in DOMAIN track \ {current}
            /\ track[container[k].id].deleted
            /\ track[container[k].id].steps \in Nat
      BY <1>1, <1>3, TrackFacts DEF LegsOK, TrajectoryComplete
    <3> QED  BY <1>1, <1>4, <3>1 DEF LegsOK, TrajectoryComplete, NoRepeat
  <2> QED  BY <2>1, <2>3, <2>4 DEF LegsOK
<1>6. \A id \in DOMAIN track :
        /\ track[id].steps > 0 => track'[id].steps > 0
        /\ Untracked(id)' => Untracked(id)
  <2>1. \A id \in DOMAIN track : track[id].steps \in Nat
    BY <1>1, TrackFacts
  <2> QED  BY <1>1, <1>4, <2>1 DEF Untracked
<1>7. ParentsOK'
  <2>1. \A id \in DOMAIN track :
          /\ track[id].parent < id
          /\ track[id].parent # 0 => /\ track[id].parent \in DOMAIN track
                                     /\ track[track[id].parent].steps > 0
    BY <1>1, TrackFacts DEF ParentsOK
  <2>2. \A k \in DOMAIN secondaries' : secondaries'[k].parent # 0 =>
          /\ secondaries'[k].parent \in DOMAIN track'
          /\ track'[secondaries'[k].parent].steps > 0
          /\ secondaries'[k].parent \notin Ids(urgent')
    BY <1>1, <1>4, <1>6, EmptyStack DEF ParentsOK
  <2>3. \A id \in DOMAIN track' :
          /\ track'[id].parent < id
          /\ track'[id].parent # 0 => track'[track'[id].parent].steps > 0
    BY <1>4, <1>6, <2>1
  <2> QED  BY <1>1, <2>2, <2>3 DEF ParentsOK
<1>8. OrderOK'
  BY <1>1, <1>4, <1>6 DEF OrderOK, DaughtersAbove
<1> QED  BY <1>5, <1>7, <1>8

\* A leg that is worth it leaves a whole trajectory, marked; of the others
\* only a photon's, whose one leg is the whole of it, may be kept.
LEMMA PostUserTrackingActionInv ==
  Inv /\ PostUserTrackingAction => LegsOK' /\ ParentsOK' /\ OrderOK'
<1> SUFFICES ASSUME Inv, PostUserTrackingAction PROVE LegsOK' /\ ParentsOK' /\ OrderOK'
  OBVIOUS
<1> DEFINE t == track[current]
<1>1. /\ phase = "post" /\ phase' = "retire" /\ current # 0 /\ IInv /\ LegsOK
      /\ fpTrajectory' = KeptTrajectory
      /\ UNCHANGED <<track, urgent, waiting, secondaries, current,
                     previousTrajectory, status, container, aborted>>
  BY DEF PostUserTrackingAction, stackVars, Inv, IInv, PhaseOK, InTrackingManager
<1>2. /\ t.steps \in Nat \ {0} /\ Tracking
      /\ status = "fSuspend" => ~IsOptical(t)
      /\ fpTrajectory \in Trajectory /\ previousTrajectory \in Trajectory
      /\ current \in Nat \ {0}
  BY <1>1, CurrentSteps DEF LegsOK, LegOK, IInv, TypeOK
<1>3. Tracked'
  <2>1. SaveAPriori(track[current])' = SaveAPriori(t)
    BY <1>1 DEF SaveAPriori
  <2>2. /\ fpTrajectory.points \in Nat /\ fpTrajectory.stop \in Nat
        /\ fpTrajectory.points = 1 + t.steps - fpTrajectory.stop
        /\ fpTrajectory.id = current
    BY <1>2 DEF Tracking, Trajectory
  <2>3. CASE SaveAPriori(t)
    <3>1. fpTrajectory' = [fpTrajectory EXCEPT !.save = TRUE, !.stop = t.steps]
      BY <1>1, <1>2, <2>3 DEF KeptTrajectory, Tracking
    <3>2. /\ fpTrajectory'.id = current /\ fpTrajectory'.save /\ fpTrajectory'.stop = t.steps
          /\ fpTrajectory'.points = fpTrajectory.points
      BY <1>2, <2>2, <3>1 DEF Trajectory
    <3>3. fpTrajectory' # NoTrajectory
      BY <1>2, <3>2 DEF NoTrajectory
    <3>4. CASE fpTrajectory.stop = 0
      <4>1. LegTrajectory' = fpTrajectory'
        BY <1>1, <1>2, <3>4 DEF LegTrajectory, Tracking, EarlierLegs
      <4> QED  BY <1>1, <1>2, <2>1, <2>2, <2>3, <3>2, <3>4, <4>1 DEF Tracked, IsWhole
    <3>5. CASE fpTrajectory.stop # 0
      <4>1. /\ previousTrajectory.save /\ previousTrajectory.id = current
            /\ previousTrajectory.points = 1 + fpTrajectory.stop
        BY <1>2, <2>2, <2>3, <3>5 DEF Tracking, EarlierLegs, IsWhole
      <4>2. LegTrajectory' = [previousTrajectory EXCEPT
                                !.points = @ + fpTrajectory'.points - 1, !.stop = t.steps]
        <5>1. previousTrajectory # NoTrajectory
          BY <1>2, <4>1 DEF NoTrajectory
        <5> QED  BY <1>1, <3>2, <3>3, <5>1 DEF LegTrajectory, MergeTrajectory
      <4>3. /\ LegTrajectory'.id = current /\ LegTrajectory'.save
            /\ LegTrajectory'.stop = t.steps
            /\ LegTrajectory'.points = previousTrajectory.points + fpTrajectory.points - 1
        BY <1>2, <3>2, <4>1, <4>2 DEF Trajectory
      <4>4. LegTrajectory'.points = 1 + t.steps
        BY <1>2, <2>2, <4>1, <4>3
      <4> QED  BY <1>1, <2>1, <2>3, <4>3, <4>4 DEF Tracked, IsWhole
    <3> QED  BY <3>4, <3>5
  <2>4. CASE ~SaveAPriori(t)
    <3>1. LegTrajectory' = fpTrajectory'
      BY <1>1, <1>2, <2>4 DEF LegTrajectory, Tracking, EarlierLegs
    <3>2. CASE Draws
      <4>1. IsOptical(t) /\ fpTrajectory' = fpTrajectory
        BY <1>1, <1>2, <2>4, <3>2 DEF KeptTrajectory, Tracking, Draws, Optical, IsOptical
      <4>2. fpTrajectory.stop = 0 /\ ~fpTrajectory.save
        BY <1>2, <4>1 DEF Tracking
      <4>3. DrawOptical
        BY <1>2, <2>4, <3>2 DEF Draws, Tracking
      <4> QED  BY <1>1, <1>2, <2>1, <2>2, <2>4, <3>1, <4>1, <4>2, <4>3
               DEF Tracked, IsWhole
    <3>3. CASE ~Draws
      <4>1. fpTrajectory' = NoTrajectory
        BY <1>1, <1>2, <2>4, <3>3 DEF KeptTrajectory, Tracking
      <4> QED  BY <2>1, <2>4, <3>1, <4>1 DEF Tracked, NoTrajectory
    <3> QED  BY <3>2, <3>3
  <2> QED  BY <2>3, <2>4
<1>4. LegsOK'
  <2>1. TrajectoryComplete' /\ Finished' /\ StacksOK'
    BY <1>1, SameTracks, SameStacks
  <2>2. LegOK'
    BY <1>1, <1>2, <1>3 DEF LegsOK, LegOK, IsOptical
  <2>3. AbortOK'
    BY <1>1 DEF LegsOK, AbortOK
  <2> QED  BY <2>1, <2>2, <2>3 DEF LegsOK
<1>5. ParentsOK'
  BY <1>1 DEF Inv, ParentsOK
<1>6. OrderOK'
  BY <1>1 DEF Inv, OrderOK, DaughtersAbove, Untracked
<1> QED  BY <1>4, <1>5, <1>6

\* A suspended track goes below the daughters it is suspended for.
LEMMA SuspendTrackInv == Inv /\ SuspendTrack => LegsOK' /\ ParentsOK' /\ OrderOK'
<1> SUFFICES ASSUME Inv, SuspendTrack PROVE LegsOK' /\ ParentsOK' /\ OrderOK'
  OBVIOUS
<1> DEFINE e == [id |-> current, trajectory |-> LegTrajectory]
           n == Len(waiting) + 1
<1>1. /\ IInv /\ LegsOK /\ ParentsOK /\ OrderOK
      /\ status = "fSuspend" /\ Retire
      /\ waiting' = Append(waiting, e)
      /\ UNCHANGED <<track, secondaries, container>>
  BY DEF SuspendTrack, Inv, PushToStack
<1>2. /\ phase = "retire" /\ current # 0 /\ current' = 0
      /\ phase' = StackOrPop(secondaries')
      /\ UNCHANGED <<urgent, aborted>>
      /\ LegTrajectory \in Trajectory
  BY <1>1, RetireFacts DEF Retire
<1>3. phase' \in {"stack", "pop"} /\ (phase' = "pop" => secondaries' = <<>>)
  BY <1>2 DEF StackOrPop
<1>4. /\ current \in DOMAIN track /\ current \in Nat \ {0}
      /\ track[current].steps > 0 /\ ~IsOptical(track[current]) /\ ~aborted /\ Tracked
  BY <1>1, <1>2, CurrentIsLive DEF LegsOK, LegOK
<1>5. /\ DOMAIN waiting' = DOMAIN waiting \cup {n} /\ waiting'[n] = e
      /\ \A k \in DOMAIN waiting : k < n /\ waiting'[k] = waiting[k]
  <2>1. waiting \in Seq(Stacked) /\ e \in Stacked
    BY <1>1, <1>2, <1>4 DEF Stacked, IInv, TypeOK
  <2> QED  BY <1>1, <2>1, AppendProperties
<1> HIDE DEF e, n
<1>6. e.id = current /\ e.trajectory = LegTrajectory
  BY DEF e
<1>7. LegsOK'
  <2>1. TrajectoryComplete' /\ Finished'
    BY <1>1, <1>2, SameTracks DEF Inv
  <2>2. StacksOK'
    <3>1. \A k \in DOMAIN urgent : StackedLegs(urgent[k].id, urgent[k].trajectory)'
      BY <1>1, <1>2 DEF LegsOK, StacksOK, StackedLegs, EarlierLegs, SaveAPriori, IsOptical
    <3>2. \A k \in DOMAIN waiting : StackedLegs(waiting[k].id, waiting[k].trajectory)'
      BY <1>1, <1>5 DEF LegsOK, StacksOK, StackedLegs, EarlierLegs, SaveAPriori, IsOptical
    <3>3. \A k \in DOMAIN waiting' : waiting'[k] = e =>
            StackedLegs(waiting[k].id, waiting[k].trajectory)'
      <4>1. IF SaveAPriori(track[current])
            THEN LegTrajectory.save /\ IsWhole(LegTrajectory, current, track[current].steps)
            ELSE LegTrajectory = NoTrajectory
        BY <1>1, <1>4 DEF Tracked, NoTrajectory
      <4>2. StackedLegs(current, LegTrajectory)
        BY <1>4, <4>1 DEF StackedLegs, EarlierLegs
      <4> QED  BY <1>1, <1>6, <4>2
               DEF StackedLegs, EarlierLegs, SaveAPriori, IsOptical, IsWhole
    <3> QED  BY <1>2, <1>5, <3>1, <3>2, <3>3 DEF StacksOK
  <2>3. LegOK' /\ AbortOK'
    BY <1>2, <1>3, <1>4 DEF LegOK, AbortOK
  <2> QED  BY <2>1, <2>2, <2>3 DEF LegsOK
<1>8. ParentsOK'
  BY <1>1, <1>2, <1>3 DEF ParentsOK
<1>9. OrderOK'
  <2>1. \A id \in DOMAIN track : Untracked(id)' => Untracked(id)
    BY <1>1, <1>4 DEF Untracked
  <2>2. DaughtersAbove(urgent)'
    BY <1>1, <1>2, <2>1 DEF OrderOK, DaughtersAbove
  <2>3. DaughtersAbove(waiting)'
    <3> SUFFICES ASSUME NEW k \in DOMAIN waiting', NEW id \in DOMAIN track,
                        track[id].parent = waiting'[k].id, Untracked(id)'
                 PROVE  \E m \in DOMAIN waiting' : m > k /\ waiting'[m].id = id
      BY <1>1 DEF DaughtersAbove
    <3>1. k \in DOMAIN waiting /\ waiting'[k] = waiting[k]
      BY <1>1, <1>2, <1>5, <1>6, <2>1 DEF OrderOK
    <3> QED  BY <1>1, <1>5, <2>1, <3>1 DEF OrderOK, DaughtersAbove
  <2> QED  BY <1>2, <2>2, <2>3 DEF OrderOK
<1> QED  BY <1>7, <1>8, <1>9

\* A deleted track leaves the whole of its trajectory, if it is worth it.
LEMMA DeletedInv ==
  ASSUME Inv, Retire, UNCHANGED waiting,
         track' = [track EXCEPT ![current].deleted = TRUE],
         Insert(LegTrajectory),
         secondaries' \in {secondaries, <<>>},
         aborted => secondaries' = <<>>
  PROVE  LegsOK' /\ ParentsOK' /\ OrderOK'
<1> DEFINE t == track[current]
<1>1. /\ IInv /\ LegsOK /\ ParentsOK /\ OrderOK
      /\ phase = "retire" /\ current # 0 /\ current' = 0
      /\ phase' = StackOrPop(secondaries')
      /\ UNCHANGED <<urgent, aborted>>
      /\ LegTrajectory \in Trajectory
  BY RetireFacts DEF Inv, Retire
<1>2. /\ phase' \in {"stack", "pop"} /\ (phase' = "pop" => secondaries' = <<>>)
      /\ aborted => phase' = "pop"
  BY <1>1 DEF StackOrPop
<1>3. /\ current \in DOMAIN track /\ current \in Nat \ {0} /\ t \in Track
      /\ ~t.deleted /\ t.steps > 0 /\ Tracked
  BY <1>1, CurrentIsLive DEF LegsOK, LegOK
<1>4. /\ DOMAIN track' = DOMAIN track
      /\ \A id \in DOMAIN track \ {current} : track'[id] = track[id]
      /\ track'[current].deleted /\ track'[current].steps = t.steps
      /\ track'[current].kind = t.kind /\ track'[current].parent = t.parent
      /\ track'[current].stacked = t.stacked
  BY <1>3 DEF Track
<1> HIDE DEF t
<1>5. /\ \A k \in DOMAIN container :
           k \in DOMAIN container' /\ container'[k] = container[k]
      /\ \A k \in DOMAIN container' :
           \/ k \in DOMAIN container
           \/ LegTrajectory # NoTrajectory /\ container'[k] = LegTrajectory
      /\ \A k, m \in DOMAIN container' \ DOMAIN container : k = m
      /\ LegTrajectory # NoTrajectory =>
           \E k \in DOMAIN container' : container'[k] = LegTrajectory
  <2>1. CASE LegTrajectory = NoTrajectory
    BY <2>1 DEF Insert
  <2>2. CASE LegTrajectory # NoTrajectory
    <3>1. container' = Append(container, LegTrajectory) /\ container \in Seq(Trajectory)
      BY <1>1, <2>2 DEF Insert, IInv, TypeOK
    <3> QED  BY <1>1, <2>2, <3>1, AppendProperties
  <2> QED  BY <2>1, <2>2
<1>6. LegsOK'
  <2>1. StacksOK'
    BY <1>1, <1>4, SameStacks
  <2>2. LegOK'
    BY <1>2 DEF LegOK
  <2>3. AbortOK'
    BY <1>1, <1>2 DEF LegsOK, AbortOK
  <2>4. \A k \in DOMAIN container :
          /\ container[k].id \in DOMAIN track \ {current}
          /\ track[container[k].id].deleted
          /\ container[k].points = 1 + track[container[k].id].steps
          /\ container[k].save => container[k].stop = track[container[k].id].steps
    BY <1>1, <1>3 DEF LegsOK, TrajectoryComplete, t
  <2>5. LegTrajectory # NoTrajectory => IsWhole(LegTrajectory, current, t.steps)
    BY <1>3 DEF Tracked, t
  <2>6. TrajectoryComplete'
    <3>1. NoRepeat(container')
      <4>1. NoRepeat(container)
        BY <1>1 DEF LegsOK, TrajectoryComplete
      <4>2. \A k \in DOMAIN container' \ DOMAIN container : container'[k].id = current
        BY <1>5, <2>5 DEF IsWhole
      <4> QED  BY <1>5, <2>4, <4>1, <4>2 DEF NoRepeat
    <3>2. \A k \in DOMAIN container' :
            /\ container'[k].id \in DOMAIN track'
            /\ track'[container'[k].id].deleted
            /\ container'[k].points = 1 + track'[container'[k].id].steps
            /\ container'[k].save => container'[k].stop = track'[container'[k].id].steps
      <4> SUFFICES ASSUME NEW k \in DOMAIN container'
                   PROVE  /\ container'[k].id \in DOMAIN track'
                          /\ track'[container'[k].id].deleted
                          /\ container'[k].points = 1 + track'[container'[k].id].steps
                          /\ container'[k].save =>
                               container'[k].stop = track'[container'[k].id].steps
        OBVIOUS
      <4>1. CASE k \in DOMAIN container
        BY <1>4, <1>5, <2>4, <4>1
      <4>2. CASE LegTrajectory # NoTrajectory /\ container'[k] = LegTrajectory
        BY <1>3, <1>4, <2>5, <4>2 DEF IsWhole
      <4> QED  BY <1>5, <4>1, <4>2
    <3> QED  BY <3>1, <3>2 DEF TrajectoryComplete
  <2>7. Finished'
    <3> SUFFICES ASSUME ~aborted, NEW id \in DOMAIN track,
                        track'[id].deleted, track'[id].stacked
                 PROVE  /\ track'[id].steps > 0
                        /\ SaveAPriori(track'[id]) => IsSaved(id)'
      BY <1>1, <1>4 DEF Finished
    <3>1. CASE id = current
      <4>1. SaveAPriori(track'[id]) = SaveAPriori(t)
        BY <1>4, <3>1 DEF SaveAPriori
      <4>2. SaveAPriori(t) => LegTrajectory.save /\ LegTrajectory # NoTrajectory
        BY <1>3 DEF Tracked, NoTrajectory, t
      <4>3. SaveAPriori(t) => \E k \in DOMAIN container' :
                                container'[k].id = id /\ container'[k].save
        BY <1>5, <2>5, <3>1, <4>2 DEF IsWhole
      <4>4. SaveAPriori(t) => IsSaved(id)'
        BY <4>3 DEF IsSaved
      <4> QED  BY <1>3, <1>4, <3>1, <4>1, <4>4
    <3>2. CASE id # current
      <4>1. IsSaved(id) => IsSaved(id)'
        BY <1>5 DEF IsSaved
      <4> QED  BY <1>1, <1>4, <3>2, <4>1 DEF LegsOK, Finished
    <3> QED  BY <3>1, <3>2
  <2> QED  BY <2>1, <2>2, <2>3, <2>6, <2>7 DEF LegsOK
<1>7. \A id \in DOMAIN track :
        /\ track'[id].parent = track[id].parent /\ track'[id].steps = track[id].steps
        /\ Untracked(id)' => Untracked(id)
  BY <1>1, <1>3, <1>4 DEF Untracked, t
<1>8. ParentsOK'
  <2>1. \A id \in DOMAIN track' :
          /\ track'[id].parent < id
          /\ track'[id].parent # 0 => track'[track'[id].parent].steps > 0
    <3>1. \A id \in DOMAIN track :
            /\ track[id].parent < id
            /\ track[id].parent # 0 => /\ track[id].parent \in DOMAIN track
                                       /\ track[track[id].parent].steps > 0
      BY <1>1, TrackFacts DEF ParentsOK
    <3> QED  BY <1>4, <1>7, <3>1
  <2>2. \A k \in DOMAIN secondaries' : secondaries'[k].parent # 0 =>
          /\ secondaries'[k].parent \in DOMAIN track'
          /\ track'[secondaries'[k].parent].steps > 0
          /\ secondaries'[k].parent \notin Ids(urgent')
    <3>1. urgent' = urgent
      BY <1>1
    <3>2. CASE secondaries' = <<>>
      BY <3>2, EmptySeq
    <3>3. CASE secondaries' = secondaries
      BY <1>1, <1>4, <1>7, <3>1, <3>3 DEF ParentsOK
    <3> QED  BY <3>2, <3>3
  <2> QED  BY <1>2, <2>1, <2>2 DEF ParentsOK
<1>9. OrderOK'
  <2>1. DaughtersAbove(urgent)'
    BY <1>1, <1>4, <1>7 DEF OrderOK, DaughtersAbove
  <2>2. DaughtersAbove(waiting)'
    BY <1>1, <1>4, <1>7 DEF OrderOK, DaughtersAbove
  <2> QED  BY <1>1, <2>1, <2>2 DEF OrderOK
<1> QED  BY <1>6, <1>8, <1>9

\* A killed track is not that of an aborted event.
LEMMA KillTrackInv == Inv /\ KillTrack => LegsOK' /\ ParentsOK' /\ OrderOK'
<1> SUFFICES ASSUME Inv, KillTrack PROVE LegsOK' /\ ParentsOK' /\ OrderOK'
  OBVIOUS
<1>1. ~aborted
  BY DEF KillTrack, Retire, Inv, LegsOK, LegOK
<1> QED  BY <1>1, DeletedInv DEF KillTrack

\* The track that an abort has stopped is deleted.
LEMMA AbortTrackInv == Inv /\ AbortTrack => LegsOK' /\ ParentsOK' /\ OrderOK'
BY DeletedInv DEF AbortTrack

\* Between two events nothing changes but the phase.
LEMMA EndOfEventInv == Inv /\ EndOfEvent => LegsOK' /\ ParentsOK' /\ OrderOK'
<1> SUFFICES ASSUME Inv, EndOfEvent PROVE LegsOK' /\ ParentsOK' /\ OrderOK'
  OBVIOUS
<1>1. /\ phase' = "idle" /\ current = 0
      /\ UNCHANGED <<track, urgent, waiting, secondaries, current, container, aborted>>
  BY DEF EndOfEvent, stackVars, legVars, Inv, IInv, PhaseOK, InTrackingManager
<1>2. LegsOK'
  <2>1. TrajectoryComplete' /\ Finished' /\ StacksOK'
    BY <1>1, SameTracks, SameStacks
  <2>2. LegOK' /\ AbortOK'
    BY <1>1 DEF Inv, LegsOK, LegOK, AbortOK
  <2> QED  BY <2>1, <2>2 DEF LegsOK
<1>3. ParentsOK'
  BY <1>1 DEF Inv, ParentsOK
<1>4. OrderOK'
  BY <1>1 DEF Inv, OrderOK, DaughtersAbove, Untracked
<1> QED  BY <1>2, <1>3, <1>4

\* A stuttering step changes nothing.
LEMMA StutterInv == Inv /\ UNCHANGED vars => LegsOK' /\ ParentsOK' /\ OrderOK'
<1> SUFFICES ASSUME Inv, UNCHANGED vars PROVE LegsOK' /\ ParentsOK' /\ OrderOK'
  OBVIOUS
<1> USE DEF vars, stackVars, legVars
<1>1. LegsOK'
  <2>1. TrajectoryComplete' /\ Finished' /\ StacksOK'
    BY SameTracks, SameStacks
  <2>2. Tracking => Tracking'
    BY DEF Tracking, EarlierLegs, SaveAPriori, IsOptical
  <2>3. Tracked => Tracked'
    BY DEF Tracked, LegTrajectory, SaveAPriori
  <2>4. StackedLegs(current, previousTrajectory) =>
          StackedLegs(current, previousTrajectory)'
    BY DEF StackedLegs, EarlierLegs, SaveAPriori, IsOptical
  <2>5. LegOK' /\ AbortOK'
    BY <2>2, <2>3, <2>4 DEF Inv, LegsOK, LegOK, AbortOK, IsOptical
  <2> QED  BY <2>1, <2>5 DEF LegsOK
<1>2. ParentsOK'
  BY DEF Inv, ParentsOK, Ids
<1>3. OrderOK'
  BY DEF Inv, OrderOK, DaughtersAbove, Untracked
<1> QED  BY <1>1, <1>2, <1>3

\* Any step that processes an event keeps the whole invariant.
LEMMA ProcessingInv == Inv /\ Processing => Inv'
<1> SUFFICES ASSUME Inv, Processing PROVE Inv'
  OBVIOUS
<1>1. IInv'
  BY ProcessingIInv DEF Inv
<1>2. LegsOK' /\ ParentsOK' /\ OrderOK'
  BY BeginOfEventInv, PushOneTrackInv, PopNextTrackInv, NoMoreTracksInv,
     PreUserTrackingActionInv, SteppingInv, AbortCurrentEventInv,
     PostUserTrackingActionInv, SuspendTrackInv, KillTrackInv, AbortTrackInv
     DEF Processing
<1> QED  BY <1>1, <1>2 DEF Inv

\* Every step of the run keeps the whole invariant.
LEMMA NextInv == Inv /\ [Next]_vars => Inv'
<1> SUFFICES ASSUME Inv, [Next]_vars PROVE Inv'
  OBVIOUS
<1>1. CASE Processing
  BY <1>1, ProcessingInv
<1>2. CASE EndOfEvent \/ UNCHANGED vars
  <2>1. IInv'
    BY <1>2, NextIInv DEF Inv, Next
  <2> QED  BY <1>2, <2>1, EndOfEventInv, StutterInv DEF Inv
<1> QED  BY <1>1, <1>2 DEF Next

\* When an event ends the stacks are empty, so every track is done.
LEMMA InvLeavesNothing == Inv => NothingLeftAtEnd
<1> SUFFICES ASSUME Inv, phase = "end", ~aborted, NEW id \in DOMAIN track
             PROVE  /\ track[id].deleted
                    /\ track[id].stacked => track[id].steps > 0
                    /\ SaveAPriori(track[id]) /\ track[id].stacked => IsSaved(id)
  BY DEF NothingLeftAtEnd, IsSaved
<1>1. urgent = <<>> /\ waiting = <<>> /\ current = 0
  BY DEF Inv, IInv, PhaseOK, InTrackingManager
<1>2. Live = {}
  BY <1>1, EmptyStack DEF Inv, IInv, TrackInOnePlace, InTracking
<1>3. track[id].deleted
  BY <1>2 DEF Live
<1> QED  BY <1>3 DEF Inv, LegsOK, Finished

\* A daughter that nobody has tracked would be above its mother.
LEMMA InvOrdersSecondaries == Inv => SecondariesFirst
<1> SUFFICES ASSUME Inv, phase = "pre", track[current].steps > 0,
                    NEW id \in DOMAIN track,
                    track[id].parent = current, track[id].stacked
             PROVE  /\ track[id].kind.pdg = OpticalPhoton => track[id].deleted
                    /\ track[id].steps > 0
  BY DEF SecondariesFirst
<1>1. /\ current # 0 /\ ~aborted /\ IInv
  BY DEF Inv, IInv, PhaseOK, InTrackingManager, LegsOK, AbortOK
<1>2. id # current /\ track[id].steps \in Nat /\ ~Untracked(id)
  BY <1>1, TrackFacts DEF Inv, ParentsOK, OrderOK
<1>3. track[id].steps > 0
  BY <1>1, <1>2 DEF Untracked, Inv, LegsOK, Finished
<1>4. ASSUME ~track[id].deleted PROVE ~IsOptical(track[id])
  <2>1. id \in Ids(urgent) \cup Ids(waiting)
    BY <1>1, <1>2, <1>4 DEF IInv, TrackInOnePlace, Live, InTracking
  <2>2. IsOptical(track[id]) => track[id].steps = 0
    BY <2>1 DEF Ids, Inv, LegsOK, StacksOK, StackedLegs
  <2> QED  BY <1>3, <2>2
<1> QED  BY <1>3, <1>4 DEF IsOptical

LEMMA Invariance == Spec => []Inv
BY InitInv, NextInv, PTL DEF Spec

\* A trajectory in the event's container is always that of a finished track,
\* all its legs joined, with one point per step and its true stopping point,
\* and the only one of its track (DoProcessing, MergeTrajectory).
THEOREM TrajectoriesAreComplete == Spec => []TrajectoryComplete
<1>1. Inv => TrajectoryComplete
  BY DEF Inv, LegsOK
<1> QED  BY <1>1, Invariance, PTL

\* An event that is not aborted ends with every track tracked to its end and
\* every one worth saving in the container, marked for the track table
\* (TrackingAction::PostUserTrackingAction, DoProcessing).
THEOREM NothingIsLeft == Spec => []NothingLeftAtEnd
BY InvLeavesNothing, Invariance, PTL

\* A track suspended for its Cerenkov photons is resumed when they are done
\* and each of its other secondaries has been tracked (G4StackManager).
THEOREM PhotonsComeFirst == Spec => []SecondariesFirst
BY InvOrdersSecondaries, Invariance, PTL

-----------------------------------------------------------------------------
(***************************************************************************)
(* What the event loop leaves for the table: which trajectories carry the  *)
(* flag, and in which order they come.                                     *)
(***************************************************************************)
\* The tracks on the stacks, and what is in the container because of them.
LiveIsStacked == \A id \in DOMAIN track : ~track[id].deleted => track[id].stacked

SavedIsWorth ==
  \A k \in DOMAIN container :
    /\ container[k].save =>
         track[container[k].id].stacked /\ SaveAPriori(track[container[k].id])
    /\ ~DrawOptical => container[k].save

\* A mother that was worth saving has her trajectory in the container, or
\* photons among her daughters, or photons about to be stacked.
HasTrajectory(id) == \E k \in DOMAIN container : container[k].id = id

Explained(id) == SaveAPriori(track[id]) => HasTrajectory(id) \/ MaySuspend(id)

AboutToRadiate(id) ==
  /\ TrackSecondariesFirst /\ phase = "stack"
  /\ \E k \in DOMAIN secondaries :
       secondaries[k].parent = id /\ IsOptical(secondaries[k])

MothersExplained ==
  \A id \in DOMAIN track :
    track[id].parent # 0 =>
      Explained(track[id].parent) \/ AboutToRadiate(track[id].parent)

SecondariesExplained ==
  \A k \in DOMAIN secondaries :
    IF phase \in {"step", "post", "retire"} THEN secondaries[k].parent = current
    ELSE secondaries[k].parent # 0 =>
           \/ Explained(secondaries[k].parent)
           \/ AboutToRadiate(secondaries[k].parent)

SuspendedRadiates ==
  phase \in {"post", "retire"} /\ status = "fSuspend" =>
    TrackSecondariesFirst /\ \E k \in DOMAIN secondaries : IsOptical(secondaries[k])

\* The container holds a mother before her daughters, unless she radiated.
MothersFirst ==
  \A n \in DOMAIN container :
    LET p == track[container[n].id].parent IN
      p # 0 /\ SaveAPriori(track[p]) =>
        MaySuspend(p) \/ \E m \in 1 .. n - 1 : container[m].id = p

\* If the muons that a step creates come from decays, every muon is saved.
MuonsDecay ==
  \A p \in Species : \A k \in Daughters[p] : k.pdg \in Muons => k.creator = "Decay"

KnownMuon(t) == t.parent = 0 \/ t.kind.pdg \notin Muons \/ t.kind.creator = "Decay"

MuonsKnown ==
  MuonsDecay => /\ \A id \in DOMAIN track : KnownMuon(track[id])
                /\ \A k \in DOMAIN secondaries : KnownMuon(secondaries[k])

LoopOK == /\ LiveIsStacked /\ SavedIsWorth /\ MothersExplained /\ MuonsKnown
          /\ SecondariesExplained /\ SuspendedRadiates /\ MothersFirst

\* A run begins with no track.
LEMMA InitLoopOK == Init => LoopOK
<1> SUFFICES ASSUME Init PROVE LoopOK
  OBVIOUS
<1>1. DOMAIN <<>> = {}
  OBVIOUS
<1> QED  BY <1>1 DEF Init, LoopOK, LiveIsStacked, SavedIsWorth, MothersExplained,
                     MuonsKnown, SecondariesExplained, SuspendedRadiates, MothersFirst

\* What a step leaves of the tracks and of the container.
TracksStay ==
  \A id \in DOMAIN track :
    /\ id \in DOMAIN track'
    /\ track'[id].kind = track[id].kind /\ track'[id].parent = track[id].parent
    /\ track'[id].stacked = track[id].stacked

ContainerStays ==
  \A k \in DOMAIN container : k \in DOMAIN container' /\ container'[k] = container[k]

\* What explains a mother goes on explaining her.
LEMMA ExplainedStays ==
  ASSUME TracksStay, ContainerStays, NEW p \in DOMAIN track
  PROVE  /\ SaveAPriori(track'[p]) <=> SaveAPriori(track[p])
         /\ MaySuspend(p) => MaySuspend(p)'
         /\ HasTrajectory(p) => HasTrajectory(p)'
         /\ Explained(p) => Explained(p)'
<1>1. SaveAPriori(track'[p]) <=> SaveAPriori(track[p])
  BY DEF TracksStay, SaveAPriori
<1>2. MaySuspend(p) => MaySuspend(p)'
  BY DEF TracksStay, MaySuspend
<1>3. HasTrajectory(p) => HasTrajectory(p)'
  BY DEF ContainerStays, HasTrajectory
<1> QED  BY <1>1, <1>2, <1>3 DEF Explained

\* Mothers are tracks of the event.
LEMMA MothersAreTracks ==
  ASSUME Inv
  PROVE  /\ \A id \in DOMAIN track : track[id].parent # 0 => track[id].parent \in DOMAIN track
         /\ \A k \in DOMAIN secondaries :
              secondaries[k].parent # 0 => secondaries[k].parent \in DOMAIN track
         /\ \A n \in DOMAIN container : container[n].id \in DOMAIN track
BY TrackFacts DEF Inv, ParentsOK, LegsOK, TrajectoryComplete

\* A container that nothing is added to stays as it was.
LEMMA OrderStays ==
  ASSUME Inv, SavedIsWorth, MothersFirst, TracksStay, UNCHANGED container
  PROVE  SavedIsWorth' /\ MothersFirst'
<1>1. ContainerStays
  BY DEF ContainerStays
<1>2. \A n \in DOMAIN container :
        /\ container[n].id \in DOMAIN track
        /\ track'[container[n].id].parent = track[container[n].id].parent
        /\ track'[container[n].id].stacked = track[container[n].id].stacked
        /\ track[container[n].id].parent # 0 =>
             track[container[n].id].parent \in DOMAIN track
  BY MothersAreTracks DEF TracksStay
<1>3. \A p \in DOMAIN track :
        /\ SaveAPriori(track'[p]) <=> SaveAPriori(track[p])
        /\ MaySuspend(p) => MaySuspend(p)'
  BY <1>1, ExplainedStays
<1>4. SavedIsWorth'
  BY <1>2, <1>3 DEF SavedIsWorth
<1>5. MothersFirst'
  BY <1>2, <1>3 DEF MothersFirst
<1> QED  BY <1>4, <1>5

\* So do the mothers, while nothing is being stacked.
LEMMA MothersStay ==
  ASSUME Inv, MothersExplained, phase # "stack", DOMAIN track' = DOMAIN track,
         TracksStay, ContainerStays
  PROVE  MothersExplained'
<1>1. \A p \in DOMAIN track : Explained(p) => Explained(p)'
  BY ExplainedStays
<1> QED  BY <1>1, MothersAreTracks DEF MothersExplained, TracksStay, AboutToRadiate

\* And the muons, while nothing new is made.
LEMMA MuonsStay ==
  ASSUME MuonsKnown, TracksStay, DOMAIN track' = DOMAIN track,
         secondaries' \in {secondaries, <<>>}
  PROVE  MuonsKnown'
<1>1. DOMAIN <<>> = {}
  OBVIOUS
<1> QED  BY <1>1 DEF MuonsKnown, KnownMuon, TracksStay, MuonsDecay

\* A step that neither makes, stacks nor deletes a track.
LEMMA QuietLoopOK ==
  ASSUME Inv, LoopOK, phase # "stack", UNCHANGED <<track, secondaries, container>>,
         phase' \in {"step", "post", "retire"} =>
           secondaries = <<>> \/ (phase \in {"step", "post"} /\ UNCHANGED current),
         phase' \notin {"step", "post", "retire"} =>
           phase \notin {"step", "post", "retire"},
         phase' \in {"post", "retire"} =>
           status' # "fSuspend" \/ (phase = "post" /\ UNCHANGED status)
  PROVE  LoopOK'
<1>1. TracksStay /\ ContainerStays /\ LoopOK
  BY DEF TracksStay, ContainerStays
<1>2. LiveIsStacked'
  BY DEF LoopOK, LiveIsStacked
<1>3. SavedIsWorth' /\ MothersFirst'
  BY <1>1, OrderStays DEF LoopOK
<1>4. MothersExplained'
  BY <1>1, MothersStay DEF LoopOK
<1>5. SecondariesExplained'
  <2>1. \A p \in DOMAIN track : Explained(p) => Explained(p)'
    BY <1>1, ExplainedStays
  <2>2. secondaries = <<>> => DOMAIN secondaries = {}
    OBVIOUS
  <2> QED  BY <2>1, <2>2, MothersAreTracks DEF LoopOK, SecondariesExplained, AboutToRadiate
<1>6. SuspendedRadiates'
  BY DEF LoopOK, SuspendedRadiates
<1>7. MuonsKnown'
  BY <1>1, MuonsStay DEF LoopOK
<1> QED  BY <1>2, <1>3, <1>4, <1>5, <1>6, <1>7 DEF LoopOK

\* A new event begins with primaries, which have no mother.
LEMMA BeginOfEventLoopOK == Inv /\ LoopOK /\ BeginOfEvent => LoopOK'
<1> SUFFICES ASSUME Inv, LoopOK, BeginOfEvent PROVE LoopOK'
  OBVIOUS
<1>1. DOMAIN <<>> = {}
  OBVIOUS
<1>2. PICK prim \in SeqUpTo(PrimaryKind, MaxPrimaries) :
        /\ secondaries' = TracksOf(prim, 0)
        /\ phase' = StackOrPop(prim)
  BY DEF BeginOfEvent
<1>3. track' = <<>> /\ container' = <<>> /\ phase' \in {"stack", "pop"}
  BY <1>2 DEF BeginOfEvent, StackOrPop
<1>4. \A k \in DOMAIN secondaries' : secondaries'[k].parent = 0
  BY <1>2 DEF TracksOf
<1> QED  BY <1>1, <1>3, <1>4
         DEF LoopOK, LiveIsStacked, SavedIsWorth, MothersExplained, MuonsKnown,
             KnownMuon, SecondariesExplained, SuspendedRadiates, MothersFirst

\* The photon that explains a mother may be the one that is stacked.
LEMMA PushOneTrackLoopOK == Inv /\ LoopOK /\ PushOneTrack => LoopOK'
<1> SUFFICES ASSUME Inv, LoopOK, PushOneTrack PROVE LoopOK'
  OBVIOUS
<1> DEFINE t  == Head(secondaries)
           n  == Len(track) + 1
           new(c) == [kind |-> t.kind, parent |-> t.parent, steps |-> 0,
                      stacked |-> c # "fKill", deleted |-> c = "fKill"]
<1>1. PICK c \in ClassifyNewTrack(t) : track' = Append(track, new(c))
  BY DEF PushOneTrack
<1>2. /\ IInv /\ phase = "stack" /\ UNCHANGED container
      /\ secondaries' = Tail(secondaries) /\ phase' = StackOrPop(secondaries')
      /\ secondaries # <<>> /\ secondaries \in Seq(NewTrack)
      /\ track \in Seq(Track) /\ Len(track) \in Nat
  BY DEF PushOneTrack, Inv, IInv, PhaseOK, TypeOK
<1>3. /\ t \in NewTrack /\ 1 \in DOMAIN secondaries /\ t = secondaries[1]
      /\ \A k \in DOMAIN secondaries' :
           k + 1 \in DOMAIN secondaries /\ secondaries'[k] = secondaries[k + 1]
      /\ \A k \in DOMAIN secondaries \ {1} :
           k - 1 \in DOMAIN secondaries' /\ secondaries'[k - 1] = secondaries[k]
  BY <1>2, EmptySeq, HeadTailProperties
<1>4. /\ DOMAIN track' = DOMAIN track \cup {n} /\ n \notin DOMAIN track
      /\ \A id \in DOMAIN track : track'[id] = track[id]
      /\ track'[n] = new(c)
  BY <1>1, <1>2, <1>3, AppendProperties
<1>5. /\ track'[n].kind = t.kind /\ track'[n].parent = t.parent
      /\ track'[n].stacked = (c # "fKill") /\ track'[n].deleted = (c = "fKill")
  BY <1>4
<1> HIDE DEF t, n, new
<1>6. TracksStay /\ ContainerStays
  BY <1>2, <1>4 DEF TracksStay, ContainerStays
<1>7. phase' \in {"stack", "pop"} /\ (phase' = "pop" => DOMAIN secondaries' = {})
  BY <1>2 DEF StackOrPop
<1>8. \A p \in DOMAIN track :
        Explained(p) \/ AboutToRadiate(p) => Explained(p)' \/ AboutToRadiate(p)'
  <2> SUFFICES ASSUME NEW p \in DOMAIN track, AboutToRadiate(p), ~AboutToRadiate(p)'
               PROVE  Explained(p)'
    BY <1>6, ExplainedStays
  <2>1. PICK k \in DOMAIN secondaries :
          secondaries[k].parent = p /\ IsOptical(secondaries[k])
    BY DEF AboutToRadiate
  <2>2. CASE k = 1
    <3>1. TrackSecondariesFirst /\ track'[n].parent = p /\ IsOptical(track'[n])
      BY <1>3, <1>5, <2>1, <2>2 DEF AboutToRadiate, IsOptical
    <3>2. MaySuspend(p)'
      BY <1>4, <3>1 DEF MaySuspend, IsOptical
    <3> QED  BY <3>2 DEF Explained
  <2>3. CASE k # 1
    <3>1. k - 1 \in DOMAIN secondaries' /\ secondaries'[k - 1] = secondaries[k]
      BY <1>3, <2>1, <2>3
    <3>2. phase' = "stack"
      BY <1>7, <3>1
    <3>3. AboutToRadiate(p)'
      BY <2>1, <3>1, <3>2 DEF AboutToRadiate, IsOptical
    <3> QED  BY <3>3
  <2> QED  BY <2>2, <2>3
<1>9. LiveIsStacked'
  BY <1>4, <1>5 DEF LoopOK, LiveIsStacked
<1>10. SavedIsWorth' /\ MothersFirst'
  BY <1>2, <1>6, OrderStays DEF LoopOK
<1>11. \A k \in DOMAIN secondaries, p \in DOMAIN track :
         secondaries[k].parent = p => Explained(p)' \/ AboutToRadiate(p)'
  <2>1. \A k \in DOMAIN secondaries, p \in DOMAIN track :
          secondaries[k].parent = p /\ p # 0 => Explained(p) \/ AboutToRadiate(p)
    BY <1>2 DEF LoopOK, SecondariesExplained
  <2> QED  BY <1>2, <1>8, <2>1
<1>12. MothersExplained'
  <2>1. \A id \in DOMAIN track, p \in DOMAIN track :
          track[id].parent = p /\ p # 0 => Explained(p) \/ AboutToRadiate(p)
    BY DEF LoopOK, MothersExplained
  <2>2. \A id \in DOMAIN track', p \in DOMAIN track :
          track'[id].parent = p /\ p # 0 => Explained(p)' \/ AboutToRadiate(p)'
    BY <1>3, <1>4, <1>5, <1>8, <1>11, <2>1
  <2>3. \A id \in DOMAIN track' :
          track'[id].parent # 0 => track'[id].parent \in DOMAIN track
    BY <1>3, <1>4, <1>5, MothersAreTracks
  <2> QED  BY <2>2, <2>3 DEF MothersExplained
<1>13. SecondariesExplained'
  <2>1. \A k \in DOMAIN secondaries', p \in DOMAIN track :
          secondaries'[k].parent = p => Explained(p)' \/ AboutToRadiate(p)'
    BY <1>3, <1>11
  <2>2. \A k \in DOMAIN secondaries' :
          secondaries'[k].parent # 0 => secondaries'[k].parent \in DOMAIN track
    BY <1>3, MothersAreTracks
  <2> QED  BY <1>7, <2>1, <2>2 DEF SecondariesExplained
<1>14. SuspendedRadiates'
  BY <1>7 DEF SuspendedRadiates
<1>15. MuonsKnown'
  <2>1. KnownMuon(t) => KnownMuon(track'[n])
    BY <1>5 DEF KnownMuon
  <2> QED  BY <1>3, <1>4, <2>1 DEF LoopOK, MuonsKnown, MuonsDecay
<1> QED  BY <1>9, <1>10, <1>12, <1>13, <1>14, <1>15 DEF LoopOK

\* Popping a track, beginning its leg and ending it are quiet steps.
LEMMA PopNextTrackLoopOK ==
  Inv /\ LoopOK /\ (PopNextTrack \/ NoMoreTracks) => LoopOK'
<1> SUFFICES ASSUME Inv, LoopOK, PopNextTrack \/ NoMoreTracks PROVE LoopOK'
  OBVIOUS
<1>1. /\ phase = "pop" /\ phase' \in {"pre", "end"}
      /\ UNCHANGED <<track, secondaries, container>>
  BY DEF PopNextTrack, NoMoreTracks, stackVars
<1> QED  BY <1>1, QuietLoopOK

LEMMA PreUserTrackingActionLoopOK == Inv /\ LoopOK /\ PreUserTrackingAction => LoopOK'
<1> SUFFICES ASSUME Inv, LoopOK, PreUserTrackingAction PROVE LoopOK'
  OBVIOUS
<1>1. /\ phase = "pre" /\ phase' = StepOrPost(status') /\ status' \in InitialStatus
      /\ UNCHANGED <<track, secondaries, container>>
  BY DEF PreUserTrackingAction, stackVars
<1>2. phase' \in {"step", "post"} /\ status' # "fSuspend" /\ secondaries = <<>>
  BY <1>1 DEF StepOrPost, InitialStatus, Inv, ParentsOK
<1> QED  BY <1>1, <1>2, QuietLoopOK

LEMMA PostUserTrackingActionLoopOK == Inv /\ LoopOK /\ PostUserTrackingAction => LoopOK'
<1> SUFFICES ASSUME Inv, LoopOK, PostUserTrackingAction PROVE LoopOK'
  OBVIOUS
<1>1. /\ phase = "post" /\ phase' = "retire"
      /\ UNCHANGED <<track, secondaries, container, current, status>>
  BY DEF PostUserTrackingAction, stackVars
<1> QED  BY <1>1, QuietLoopOK

\* Between two events, and in a step that changes nothing, all stays.
LEMMA EndOfEventLoopOK == Inv /\ LoopOK /\ EndOfEvent => LoopOK'
<1> SUFFICES ASSUME Inv, LoopOK, EndOfEvent PROVE LoopOK'
  OBVIOUS
<1>1. /\ phase = "end" /\ phase' = "idle"
      /\ UNCHANGED <<track, secondaries, container>>
  BY DEF EndOfEvent, stackVars
<1> QED  BY <1>1, QuietLoopOK

LEMMA StutterLoopOK == Inv /\ LoopOK /\ UNCHANGED vars => LoopOK'
<1> SUFFICES ASSUME Inv, LoopOK, UNCHANGED vars PROVE LoopOK'
  OBVIOUS
<1>1. UNCHANGED <<track, secondaries, container, phase, current, status>>
  BY DEF vars, stackVars, legVars
<1>2. TracksStay /\ ContainerStays
  BY <1>1 DEF TracksStay, ContainerStays
<1>3. \A p : AboutToRadiate(p) => AboutToRadiate(p)'
  BY <1>1 DEF AboutToRadiate, IsOptical
<1>4. \A p \in DOMAIN track : Explained(p) => Explained(p)'
  BY <1>2, ExplainedStays
<1>5. LiveIsStacked' /\ SuspendedRadiates'
  BY <1>1 DEF LoopOK, LiveIsStacked, SuspendedRadiates, IsOptical
<1>6. SavedIsWorth' /\ MothersFirst'
  BY <1>1, <1>2, OrderStays DEF LoopOK
<1>7. MothersExplained'
  BY <1>1, <1>3, <1>4, MothersAreTracks DEF LoopOK, MothersExplained
<1>8. SecondariesExplained'
  BY <1>1, <1>3, <1>4, MothersAreTracks DEF LoopOK, SecondariesExplained
<1>9. MuonsKnown'
  BY <1>1, <1>2, MuonsStay DEF LoopOK
<1> QED  BY <1>5, <1>6, <1>7, <1>8, <1>9 DEF LoopOK

\* What a step makes are daughters of the current track; one that suspends
\* its track has made a photon.
LEMMA SteppingLoopOK == Inv /\ LoopOK /\ Stepping => LoopOK'
<1> SUFFICES ASSUME Inv, LoopOK, Stepping PROVE LoopOK'
  OBVIOUS
<1> DEFINE t == track[current]
<1>1. /\ phase = "step" /\ current # 0 /\ IInv
      /\ track' = [track EXCEPT ![current].steps = @ + 1]
      /\ phase' = StepOrPost(status')
      /\ UNCHANGED <<current, container>>
  BY DEF Stepping, Inv, IInv, PhaseOK, InTrackingManager
<1>2. PICK new \in SecondariesOf(t.kind.pdg) :
        /\ status' \in StatusAfter(new)
        /\ secondaries' = secondaries \o TracksOf(new, current)
  BY DEF Stepping
<1>3. /\ current \in DOMAIN track /\ current \in Nat /\ t \in Track
      /\ secondaries \in Seq(NewTrack)
  BY <1>1, CurrentIsLive DEF IInv, TypeOK
<1>4. /\ DOMAIN track' = DOMAIN track
      /\ \A id \in DOMAIN track \ {current} : track'[id] = track[id]
      /\ track'[current] = [t EXCEPT !.steps = @ + 1]
  BY <1>1, <1>3
<1>5. /\ track'[current].kind = t.kind /\ track'[current].parent = t.parent
      /\ track'[current].stacked = t.stacked /\ track'[current].deleted = t.deleted
  BY <1>3, <1>4 DEF Track
<1> HIDE DEF t
<1>6. TracksStay /\ ContainerStays
  BY <1>1, <1>4, <1>5 DEF TracksStay, ContainerStays, t
<1>7. /\ \A k \in DOMAIN secondaries' :
           \/ secondaries'[k].parent = current
           \/ k \in DOMAIN secondaries /\ secondaries'[k] = secondaries[k]
      /\ Radiates(new) => \E k \in DOMAIN secondaries' : IsOptical(secondaries'[k])
      /\ MuonsDecay => \A k \in DOMAIN secondaries' :
           KnownMuon(secondaries'[k])
           \/ (k \in DOMAIN secondaries /\ secondaries'[k] = secondaries[k])
  <2> DEFINE made == TracksOf(new, current)
  <2>1. /\ made \in Seq(NewTrack)
        /\ t.kind.pdg \in Species /\ \A k \in DOMAIN new : new[k] \in Daughters[t.kind.pdg]
    <3>1. t.kind.pdg \in Species
      BY <1>3 DEF Track, Kind
    <3>2. Daughters[t.kind.pdg] \in SUBSET Kind /\ MaxPerStep \in Nat
      BY <3>1, EventLoopAssumption DEF EventLoopAssumption
    <3>3. new \in SeqUpTo(Daughters[t.kind.pdg], MaxPerStep)
      BY <1>2 DEF SecondariesOf
    <3> QED  BY <1>3, <3>1, <3>2, <3>3, NewTracks
  <2>2. /\ \A k \in DOMAIN made : made[k].parent = current
        /\ Radiates(new) => \E k \in DOMAIN made : IsOptical(made[k])
    BY DEF TracksOf, Radiates, IsOptical
  <2>3. MuonsDecay => \A k \in DOMAIN made : KnownMuon(made[k])
    BY <2>1 DEF MuonsDecay, KnownMuon, TracksOf
  <2> HIDE DEF made
  <2>4. /\ Len(secondaries) \in Nat /\ DOMAIN secondaries = 1 .. Len(secondaries)
        /\ Len(made) \in Nat /\ DOMAIN made = 1 .. Len(made)
        /\ DOMAIN secondaries' = 1 .. Len(secondaries) + Len(made)
        /\ \A k \in 1 .. Len(secondaries) : secondaries'[k] = secondaries[k]
        /\ \A k \in 1 .. Len(made) : secondaries'[Len(secondaries) + k] = made[k]
    BY <1>2, <1>3, <2>1, ConcatProperties, LenProperties DEF made
  <2>5. \A k \in DOMAIN secondaries' \ DOMAIN secondaries :
          /\ k - Len(secondaries) \in DOMAIN made
          /\ secondaries'[k] = made[k - Len(secondaries)]
    BY <2>4
  <2>6. Radiates(new) => \E k \in DOMAIN secondaries' : IsOptical(secondaries'[k])
    BY <2>2, <2>4
  <2>7. MuonsDecay => \A k \in DOMAIN secondaries' :
          KnownMuon(secondaries'[k])
          \/ (k \in DOMAIN secondaries /\ secondaries'[k] = secondaries[k])
    BY <2>3, <2>4, <2>5
  <2> QED  BY <2>2, <2>4, <2>5, <2>6, <2>7
<1>8. LiveIsStacked'
  BY <1>4, <1>5 DEF LoopOK, LiveIsStacked, t
<1>9. SavedIsWorth' /\ MothersFirst'
  BY <1>1, <1>6, OrderStays DEF LoopOK
<1>10. MothersExplained'
  BY <1>1, <1>4, <1>6, MothersStay DEF LoopOK
<1>11. SecondariesExplained'
  BY <1>1, <1>7 DEF LoopOK, SecondariesExplained, StepOrPost
<1>12. SuspendedRadiates'
  <2>1. status' = "fSuspend" => TrackSecondariesFirst /\ Radiates(new)
    BY <1>2 DEF StatusAfter
  <2> QED  BY <1>7, <2>1 DEF SuspendedRadiates
<1>13. MuonsKnown'
  <2>1. \A id \in DOMAIN track : KnownMuon(track[id]) => KnownMuon(track'[id])
    BY <1>6 DEF KnownMuon, TracksStay
  <2> QED  BY <1>4, <1>7, <2>1 DEF LoopOK, MuonsKnown, MuonsDecay
<1> QED  BY <1>8, <1>9, <1>10, <1>11, <1>12, <1>13 DEF LoopOK

\* An abort deletes tracks and changes nothing else of them.
LEMMA AbortCurrentEventLoopOK == Inv /\ LoopOK /\ AbortCurrentEvent => LoopOK'
<1> SUFFICES ASSUME Inv, LoopOK, AbortCurrentEvent PROVE LoopOK'
  OBVIOUS
<1> DEFINE on == Ids(urgent) \cup Ids(waiting)
<1>1. /\ phase = "step" /\ current # 0 /\ IInv /\ phase' = "post"
      /\ status' = "fKillTrackAndSecondaries"
      /\ UNCHANGED <<secondaries, current, container>>
  BY DEF AbortCurrentEvent, Inv, IInv, PhaseOK, InTrackingManager
<1>2. track' = [id \in DOMAIN track |->
                  IF id = current THEN [track[id] EXCEPT !.steps = @ + 1]
                  ELSE IF id \in on THEN [track[id] EXCEPT !.deleted = TRUE]
                  ELSE track[id]]
  BY DEF AbortCurrentEvent
<1> HIDE DEF on
<1>3. /\ DOMAIN track' = DOMAIN track
      /\ \A id \in DOMAIN track :
           /\ track'[id].parent = track[id].parent /\ track'[id].kind = track[id].kind
           /\ track'[id].stacked = track[id].stacked
           /\ track[id].deleted => track'[id].deleted
  <2>1. \A id \in DOMAIN track : track[id] \in Track
    BY <1>1, TrackFacts
  <2> QED  BY <1>2, <2>1 DEF Track
<1>4. TracksStay /\ ContainerStays
  BY <1>1, <1>3 DEF TracksStay, ContainerStays
<1>5. LiveIsStacked'
  BY <1>3 DEF LoopOK, LiveIsStacked
<1>6. SavedIsWorth' /\ MothersFirst'
  BY <1>1, <1>4, OrderStays DEF LoopOK
<1>7. MothersExplained'
  BY <1>1, <1>3, <1>4, MothersStay DEF LoopOK
<1>8. SecondariesExplained' /\ SuspendedRadiates'
  BY <1>1 DEF LoopOK, SecondariesExplained, SuspendedRadiates
<1>9. MuonsKnown'
  BY <1>1, <1>3, <1>4, MuonsStay DEF LoopOK
<1> QED  BY <1>5, <1>6, <1>7, <1>8, <1>9 DEF LoopOK

\* A suspended track explains its daughters by the photons among them.
LEMMA SuspendTrackLoopOK == Inv /\ LoopOK /\ SuspendTrack => LoopOK'
<1> SUFFICES ASSUME Inv, LoopOK, SuspendTrack PROVE LoopOK'
  OBVIOUS
<1>1. /\ status = "fSuspend" /\ phase = "retire" /\ phase' = StackOrPop(secondaries')
      /\ UNCHANGED <<track, secondaries, container>>
  BY DEF SuspendTrack, Retire
<1>2. PICK k \in DOMAIN secondaries : TrackSecondariesFirst /\ IsOptical(secondaries[k])
  BY <1>1 DEF LoopOK, SuspendedRadiates
<1>3. phase' = "stack"
  BY <1>1, <1>2 DEF StackOrPop
<1>4. \A l \in DOMAIN secondaries : secondaries[l].parent = current
  BY <1>1 DEF LoopOK, SecondariesExplained
<1>5. TracksStay /\ ContainerStays
  BY <1>1 DEF TracksStay, ContainerStays
<1>6. LiveIsStacked' /\ SuspendedRadiates'
  BY <1>1, <1>3 DEF LoopOK, LiveIsStacked, SuspendedRadiates
<1>7. SavedIsWorth' /\ MothersFirst'
  BY <1>1, <1>5, OrderStays DEF LoopOK
<1>8. MothersExplained'
  BY <1>1, <1>5, MothersStay DEF LoopOK
<1>9. SecondariesExplained'
  <2>1. \A l \in DOMAIN secondaries' :
          \E m \in DOMAIN secondaries' : /\ secondaries'[m].parent = secondaries'[l].parent
                                         /\ IsOptical(secondaries'[m])
    BY <1>1, <1>2, <1>4
  <2> QED  BY <1>2, <1>3, <2>1 DEF SecondariesExplained, AboutToRadiate, IsOptical
<1>10. MuonsKnown'
  BY <1>1, <1>5, MuonsStay DEF LoopOK
<1> QED  BY <1>6, <1>7, <1>8, <1>9, <1>10 DEF LoopOK

\* A track that is done puts its trajectory after those of its ancestors.
LEMMA DeletedLoopOK ==
  ASSUME Inv, LoopOK, Retire,
         track' = [track EXCEPT ![current].deleted = TRUE],
         Insert(LegTrajectory), secondaries' \in {secondaries, <<>>}
  PROVE  LoopOK'
<1> DEFINE t == track[current]
           n == Len(container) + 1
<1>1. /\ IInv /\ LegsOK /\ phase = "retire" /\ current # 0
      /\ phase' = StackOrPop(secondaries') /\ LegTrajectory \in Trajectory
  BY RetireFacts DEF Inv, Retire
<1>2. phase' \in {"stack", "pop"}
  BY <1>1 DEF StackOrPop
<1>3. /\ current \in DOMAIN track /\ t \in Track /\ ~t.deleted /\ Tracked
  BY <1>1, CurrentIsLive DEF LegsOK, LegOK
<1>4. /\ DOMAIN track' = DOMAIN track
      /\ \A id \in DOMAIN track \ {current} : track'[id] = track[id]
      /\ track'[current].deleted
      /\ track'[current].kind = t.kind /\ track'[current].parent = t.parent
      /\ track'[current].stacked = t.stacked
  BY <1>3 DEF Track
<1> HIDE DEF t
<1>5. /\ container \in Seq(Trajectory) /\ Len(container) \in Nat
      /\ DOMAIN container = 1 .. Len(container)
  BY <1>1, LenProperties DEF IInv, TypeOK
<1>6. /\ ContainerStays
      /\ \A k \in DOMAIN container' \ DOMAIN container :
           k = n /\ LegTrajectory # NoTrajectory /\ container'[k] = LegTrajectory
      /\ LegTrajectory # NoTrajectory =>
           n \in DOMAIN container' /\ container'[n] = LegTrajectory
  <2>1. CASE LegTrajectory = NoTrajectory
    BY <2>1 DEF Insert, ContainerStays
  <2>2. CASE LegTrajectory # NoTrajectory
    <3>1. container' = Append(container, LegTrajectory)
      BY <2>2 DEF Insert
    <3> QED  BY <1>1, <1>5, <2>2, <3>1, AppendProperties DEF ContainerStays
  <2> QED  BY <2>1, <2>2
<1>7. TracksStay
  BY <1>4 DEF TracksStay, t
<1>8. /\ LegTrajectory # NoTrajectory => LegTrajectory.id = current
      /\ LegTrajectory.save <=> SaveAPriori(t)
      /\ ~DrawOptical /\ LegTrajectory # NoTrajectory => LegTrajectory.save
      /\ SaveAPriori(t) => LegTrajectory # NoTrajectory
  BY <1>3 DEF Tracked, IsWhole, NoTrajectory, t
<1>9. \A p \in DOMAIN track :
        /\ SaveAPriori(track'[p]) <=> SaveAPriori(track[p])
        /\ MaySuspend(p) => MaySuspend(p)'
        /\ Explained(p) => Explained(p)'
  BY <1>6, <1>7, ExplainedStays
<1>10. LiveIsStacked'
  BY <1>4 DEF LoopOK, LiveIsStacked, t
<1>11. SavedIsWorth'
  <2> SUFFICES ASSUME NEW k \in DOMAIN container'
               PROVE  /\ container'[k].save =>
                           /\ track'[container'[k].id].stacked
                           /\ SaveAPriori(track'[container'[k].id])
                      /\ ~DrawOptical => container'[k].save
    BY DEF SavedIsWorth
  <2>1. CASE k \in DOMAIN container
    <3>1. container'[k] = container[k] /\ container[k].id \in DOMAIN track
      BY <1>6, <2>1, MothersAreTracks DEF ContainerStays
    <3>2. /\ container[k].save => /\ track[container[k].id].stacked
                                  /\ SaveAPriori(track[container[k].id])
          /\ ~DrawOptical => container[k].save
      BY <2>1 DEF LoopOK, SavedIsWorth
    <3>3. /\ track'[container[k].id].stacked = track[container[k].id].stacked
          /\ SaveAPriori(track'[container[k].id]) <=> SaveAPriori(track[container[k].id])
      BY <1>7, <1>9, <3>1 DEF TracksStay
    <3> QED  BY <3>1, <3>2, <3>3
  <2>2. CASE k \notin DOMAIN container
    <3>1. container'[k] = LegTrajectory /\ LegTrajectory # NoTrajectory
      BY <1>6, <2>2
    <3>2. t.stacked
      BY <1>3 DEF LoopOK, LiveIsStacked, t
    <3> QED  BY <1>3, <1>4, <1>8, <1>9, <3>1, <3>2 DEF t
  <2> QED  BY <2>1, <2>2
<1>12. MothersExplained'
  BY <1>1, <1>4, <1>6, <1>7, MothersStay DEF LoopOK
<1>13. SecondariesExplained'
  <2>1. PICK c \in DOMAIN track : c = current
    BY <1>3
  <2>2. \A k \in DOMAIN secondaries' : secondaries'[k].parent = c
    BY <1>1, <2>1, EmptySeq DEF LoopOK, SecondariesExplained
  <2>3. SaveAPriori(track'[c]) => \E k \in DOMAIN container' : container'[k].id = c
    BY <1>6, <1>8, <1>9, <2>1 DEF t
  <2>4. Explained(c)'
    BY <2>3 DEF Explained, HasTrajectory
  <2> QED  BY <1>2, <2>2, <2>4 DEF SecondariesExplained
<1>14. SuspendedRadiates'
  BY <1>2 DEF SuspendedRadiates
<1>15. MothersFirst'
  <2> SUFFICES ASSUME NEW k \in DOMAIN container', NEW p \in DOMAIN track,
                      track'[container'[k].id].parent = p, SaveAPriori(track[p]),
                      ~MaySuspend(p)
               PROVE  \E m \in 1 .. k - 1 : container'[m].id = p
    <3>1. \A k \in DOMAIN container' : container'[k].id \in DOMAIN track
      BY <1>3, <1>6, <1>8, MothersAreTracks DEF ContainerStays
    <3>2. \A k \in DOMAIN container' : track'[container'[k].id].parent # 0 =>
            track'[container'[k].id].parent \in DOMAIN track
      BY <1>7, <3>1, MothersAreTracks DEF TracksStay
    <3>3. \A k \in DOMAIN container', p \in DOMAIN track :
            track'[container'[k].id].parent = p /\ SaveAPriori(track'[p]) =>
              MaySuspend(p)' \/ \E m \in 1 .. k - 1 : container'[m].id = p
      BY <1>9
    <3> QED  BY <3>2, <3>3 DEF MothersFirst
  <2>1. p # 0
    BY <1>1, TrackFacts
  <2>2. CASE k \in DOMAIN container
    <3>1. container'[k] = container[k] /\ container[k].id \in DOMAIN track
      BY <1>6, <2>2, MothersAreTracks DEF ContainerStays
    <3>2. PICK m \in 1 .. k - 1 : container[m].id = p
      BY <1>7, <2>1, <2>2, <3>1 DEF LoopOK, MothersFirst, TracksStay
    <3>3. m \in DOMAIN container
      BY <1>5, <2>2
    <3> QED  BY <1>6, <3>2, <3>3 DEF ContainerStays
  <2>3. CASE k \notin DOMAIN container
    <3>1. k = n /\ track[current].parent = p
      BY <1>3, <1>6, <1>7, <1>8, <2>3 DEF TracksStay
    <3>2. HasTrajectory(p)
      BY <1>1, <1>3, <2>1, <3>1
         DEF LoopOK, MothersExplained, AboutToRadiate, Explained
    <3>3. PICK m \in DOMAIN container : container[m].id = p
      BY <3>2 DEF HasTrajectory
    <3>4. m \in 1 .. k - 1
      BY <1>5, <3>1, <3>3
    <3> QED  BY <1>6, <3>3, <3>4 DEF ContainerStays
  <2> QED  BY <2>2, <2>3
<1>16. MuonsKnown'
  BY <1>4, <1>7, MuonsStay DEF LoopOK
<1> QED  BY <1>10, <1>11, <1>12, <1>13, <1>14, <1>15, <1>16 DEF LoopOK

\* What the loop leaves, in every state of it.
LEMMA ProcessingLoopOK == Inv /\ LoopOK /\ Processing => LoopOK'
<1> SUFFICES ASSUME Inv, LoopOK, Processing PROVE LoopOK'
  OBVIOUS
<1>1. CASE SuspendTrack
  BY <1>1, SuspendTrackLoopOK
<1>2. CASE KillTrack \/ AbortTrack
  BY <1>2, DeletedLoopOK DEF KillTrack, AbortTrack
<1> QED  BY <1>1, <1>2, BeginOfEventLoopOK, PushOneTrackLoopOK, PopNextTrackLoopOK,
            PreUserTrackingActionLoopOK, SteppingLoopOK, AbortCurrentEventLoopOK,
            PostUserTrackingActionLoopOK DEF Processing

-----------------------------------------------------------------------------
(***************************************************************************)
(* The table: what it holds after the first i trajectories.                *)
(***************************************************************************)
Best == [index : Nat \cup {-1}, energy : Int]

TableTypes ==
  /\ filling \in BOOLEAN /\ i \in Nat /\ rows \in Seq(Row)
  /\ lists \in [ListedParent -> SUBSET Nat]
  /\ leadingLepton \in Best /\ outgoingProton \in Best
  /\ eventRow \in [event : Nat, nPart : Nat, leptonIndex : Index, protonIndex : Index]
  /\ eventsGenerated \in Nat

\* The table is being filled, or is that of the event just written.
TableHolds == filling \/ Written

TableControl ==
  /\ filling => phase = "end" /\ i <= Len(container)
  /\ eventRow.event <= event
  /\ phase # "idle" => eventRow.event < event
  /\ Written => /\ i = Len(container) /\ eventRow.nPart = Len(rows)
                /\ eventRow.leptonIndex = TableIndex(leadingLepton)

\* One row per marked trajectory, and no two of the same track.
RowsOK ==
  TableHolds =>
    /\ Len(rows) >= 2
    /\ \A k \in 3 .. Len(rows) :
         \E n \in 1 .. i : container[n].save /\ rows[k].id = container[n].id
    /\ \A n \in 1 .. i :
         container[n].save => \E k \in 3 .. Len(rows) : rows[k].id = container[n].id
    /\ \A k, l \in 3 .. Len(rows) : rows[k].id = rows[l].id => k = l

\* The lists hold the tracks met so far.
ListsOK ==
  filling => \A p \in ListedParent, id \in Nat :
    id \in lists[p] <=>
      track[id].kind.pdg = p /\ \E n \in 1 .. i : container[n].id = id

\* The best of the primaries in a table, named by its row.
PrimariesOf(table, pdgs) ==
  {k \in DOMAIN table : k > 2 /\ table[k].parent = 0 /\ table[k].pdg \in pdgs}

Leads(best, pdgs, table) ==
  IF PrimariesOf(table, pdgs) = {} THEN best = NoIndex
  ELSE /\ best.index + 3 \in PrimariesOf(table, pdgs)
       /\ best.energy = table[best.index + 3].energy
       /\ \A k \in PrimariesOf(table, pdgs) : table[k].energy <= best.energy

\* No trajectory is skipped, so that an index of the container is a row.
LeptonOK ==
  ~DrawOptical /\ TableHolds => Len(rows) = i + 2 /\ Leads(leadingLepton, Muons, rows)

\* What ParentKnown says of a row.
ColumnOK(id, column) ==
  track[id].parent # 0 =>
    LET p == track[track[id].parent].kind.pdg
        known == IF p \in ListedParent THEN p ELSE NoIdentifiedParent
    IN  column \in {known} \cup (IF MaySuspend(track[id].parent)
                                 THEN {NoIdentifiedParent} ELSE {})

ColumnsOK ==
  MuonsDecay /\ TableHolds => \A k \in 3 .. Len(rows) : ColumnOK(rows[k].id, rows[k].parent)

TableOK ==
  TableTypes /\ TableControl /\ RowsOK /\ ListsOK /\ LeptonOK /\ ColumnsOK

TableInv == Inv /\ LoopOK /\ TableOK

\* A run begins with an empty table, that of no event.
LEMMA InitTableInv == Init /\ TableInit => TableInv
<1> SUFFICES ASSUME Init, TableInit PROVE TableInv
  OBVIOUS
<1>1. ~TableHolds
  BY DEF Init, TableInit, TableHolds, Written
<1>2. TableTypes
  <2>1. eventRow \in [event : Nat, nPart : Nat, leptonIndex : Index, protonIndex : Index]
    BY DEF TableInit, NoEventRow, Index
  <2>2. leadingLepton \in Best /\ outgoingProton \in Best
    BY DEF TableInit, Best, NoIndex
  <2>3. filling \in BOOLEAN /\ i \in Nat /\ eventsGenerated \in Nat
    BY DEF TableInit
  <2>4. rows \in Seq(Row)
    <3>1. <<>> \in Seq(Row)
      OBVIOUS
    <3> QED  BY <3>1 DEF TableInit
  <2>5. lists \in [ListedParent -> SUBSET Nat]
    BY DEF TableInit
  <2> QED  BY <2>1, <2>2, <2>3, <2>4, <2>5 DEF TableTypes
<1>3. TableControl
  BY DEF Init, TableInit, TableControl, Written, NoEventRow
<1>4. RowsOK /\ LeptonOK /\ ColumnsOK /\ ListsOK
  BY <1>1 DEF RowsOK, LeptonOK, ColumnsOK, ListsOK, TableHolds
<1> QED  BY <1>2, <1>3, <1>4, InitInv, InitLoopOK DEF TableInv, TableOK

\* The loop does not run while the table is filled, nor end an event.
LEMMA ProcessingPhases ==
  ASSUME IInv, Processing
  PROVE  /\ phase # "end" /\ phase' # "idle" /\ event \in Nat
         /\ IF phase = "idle" THEN event' = event + 1 ELSE event' = event
<1>1. event \in Nat
  BY DEF IInv, TypeOK
<1>2. CASE BeginOfEvent
  BY <1>1, <1>2 DEF BeginOfEvent, StackOrPop
<1>3. CASE PushOneTrack \/ PopNextTrack \/ NoMoreTracks
  BY <1>1, <1>3 DEF PushOneTrack, PopNextTrack, NoMoreTracks, StackOrPop
<1>4. CASE PreUserTrackingAction \/ Stepping \/ AbortCurrentEvent
           \/ PostUserTrackingAction
  BY <1>1, <1>4 DEF PreUserTrackingAction, Stepping, AbortCurrentEvent,
                    PostUserTrackingAction, StepOrPost
<1>5. CASE SuspendTrack \/ KillTrack \/ AbortTrack
  BY <1>1, <1>5 DEF SuspendTrack, KillTrack, AbortTrack, Retire, StackOrPop
<1> QED  BY <1>2, <1>3, <1>4, <1>5 DEF Processing

\* While the loop runs, the table is that of no event.
LEMMA ProcessingTableOK ==
  ASSUME TableInv, Processing, UNCHANGED tableVars
  PROVE  TableOK'
<1>1. /\ IInv /\ TableTypes /\ TableControl
      /\ UNCHANGED <<filling, i, rows, lists, leadingLepton, outgoingProton, eventRow,
                     eventsGenerated>>
  BY DEF TableInv, TableOK, Inv, tableVars, loopVars
<1>2. /\ phase # "end" /\ phase' # "idle" /\ event \in Nat
      /\ IF phase = "idle" THEN event' = event + 1 ELSE event' = event
  BY <1>1, ProcessingPhases
<1>3. ~filling /\ ~TableHolds'
  BY <1>1, <1>2 DEF TableControl, TableHolds, Written
<1>4. TableTypes'
  BY <1>1 DEF TableTypes
<1>5. TableControl'
  <2>1. eventRow.event \in Nat
    BY <1>1 DEF TableTypes
  <2> QED  BY <1>1, <1>2, <1>3, <2>1 DEF TableControl, TableHolds
<1> QED  BY <1>1, <1>3, <1>4, <1>5 DEF TableOK, RowsOK, LeptonOK, ColumnsOK, ListsOK

\* The table of an event begins with the beam and the target, or not at all.
LEMMA FillBeamAndTargetTableOK ==
  ASSUME TableInv, FillBeamAndTarget
  PROVE  TableOK' /\ (EndOfEvent \/ UNCHANGED vars)
<1>1. /\ phase = "end" /\ TableTypes /\ TableControl
      /\ i' = 0 /\ lists' = [p \in ListedParent |-> {}]
      /\ leadingLepton' = NoIndex /\ outgoingProton' = NoIndex
      /\ UNCHANGED <<event, track, stackVars, legVars, container, aborted,
                     eventRow, eventsGenerated>>
      /\ container \in Seq(Trajectory) /\ Len(container) \in Nat
  BY LenProperties DEF FillBeamAndTarget, Locals, TableInv, TableOK, Inv, IInv, TypeOK
<1>2. PICK known \in TargetIsKnown :
        /\ rows' = BeamAndTarget(known) /\ filling' = known
        /\ phase' = IF known THEN "end" ELSE "idle"
  BY DEF FillBeamAndTarget
<1>3. known \in BOOLEAN
  BY EventTableAssumption DEF EventTableAssumption
<1>4. EndOfEvent \/ UNCHANGED vars
  BY <1>1, <1>2, <1>3 DEF EndOfEvent, vars
<1>5. BeamRow \in Row /\ TargetRow \in Row
  BY DEF BeamRow, TargetRow, Row
<1>6. TableTypes'
  <2>1. rows' \in Seq(Row)
    BY <1>2, <1>5 DEF BeamAndTarget
  <2> QED  BY <1>1, <1>2, <1>3, <2>1 DEF TableTypes, Best, NoIndex
<1>7. ~Written'
  BY <1>1, <1>2, <1>3 DEF Written, TableControl, TableTypes, NoEventRow
<1>8. TableControl'
  BY <1>1, <1>2, <1>7 DEF TableControl, TableTypes
<1>9. CASE known
  <2>1. rows' = <<BeamRow, TargetRow>> /\ Len(rows') = 2 /\ DOMAIN rows' = 1 .. 2
    BY <1>2, <1>9 DEF BeamAndTarget
  <2>2. RowsOK' /\ ColumnsOK'
    BY <1>1, <2>1 DEF RowsOK, ColumnsOK
  <2>3. ListsOK'
    BY <1>1 DEF ListsOK
  <2>4. LeptonOK'
    <3>1. PrimariesOf(rows', Muons) = {}
      BY <2>1 DEF PrimariesOf
    <3> QED  BY <1>1, <2>1, <3>1 DEF LeptonOK, Leads
  <2> QED  BY <1>4, <1>6, <1>8, <2>2, <2>3, <2>4 DEF TableOK
<1>10. CASE ~known
  <2>1. ~filling' /\ ~TableHolds'
    BY <1>2, <1>7, <1>10 DEF TableHolds
  <2> QED  BY <1>4, <1>6, <1>8, <2>1 DEF TableOK, RowsOK, LeptonOK, ColumnsOK, ListsOK
<1> QED  BY <1>9, <1>10

\* The parent column is the PDG code of a list that the parent is in.
LEMMA ParentColumnIs ==
  ASSUME NEW p \in Nat, NEW listed
  PROVE  /\ ParentColumn(p, listed) \in Int
         /\ p # 0 => LET column == ParentColumn(p, listed) IN
              \/ column \in ListedParent /\ p \in listed[column]
              \/ column = NoIdentifiedParent /\ \A q \in ListedParent : p \notin listed[q]
<1>1. ListedParent \subseteq Int /\ NoIdentifiedParent \in Int
  BY DEF ListedParent, NoIdentifiedParent
<1>2. CASE \E q \in ListedParent : p \in listed[q]
  <2> DEFINE q == CHOOSE q \in ListedParent : p \in listed[q]
  <2>1. q \in ListedParent /\ p \in listed[q]
    BY <1>2
  <2>2. p # 0 => ParentColumn(p, listed) = q
    BY <1>2 DEF ParentColumn
  <2>3. p = 0 => ParentColumn(p, listed) = 0
    BY DEF ParentColumn
  <2> HIDE DEF q
  <2> QED  BY <1>1, <2>1, <2>2, <2>3
<1>3. CASE ~\E q \in ListedParent : p \in listed[q]
  BY <1>1, <1>3 DEF ParentColumn
<1> QED  BY <1>2, <1>3

\* A row that is added leads if it is a primary with more energy.
LEMMA LeadsStep ==
  ASSUME rows \in Seq(Row), i \in Nat, Len(rows) = i + 2,
         NEW row \in Row, row.energy \in Nat,
         NEW pdgs, NEW best, Leads(best, pdgs, rows)
  PROVE  Leads(MostEnergetic(best, pdgs, row), pdgs, Append(rows, row))
<1> DEFINE n     == Len(rows) + 1
           table == Append(rows, row)
           is    == row.parent = 0 /\ row.pdg \in pdgs
<1>1. /\ DOMAIN rows = 1 .. Len(rows) /\ n = i + 3 /\ n \in Nat
      /\ DOMAIN table = 1 .. n /\ table[n] = row
      /\ \A k \in DOMAIN rows : k < n /\ table[k] = rows[k] /\ rows[k] \in Row
  BY AppendProperties, LenProperties, ElementOfSeq
<1> HIDE DEF table, n
<1>2. PrimariesOf(table, pdgs) = PrimariesOf(rows, pdgs) \cup (IF is THEN {n} ELSE {})
  BY <1>1 DEF PrimariesOf
<1>3. \A k \in PrimariesOf(rows, pdgs) :
        /\ k \in DOMAIN rows /\ table[k] = rows[k] /\ rows[k].energy \in Int
  BY <1>1 DEF PrimariesOf, Row
<1>4. CASE is /\ row.energy > best.energy
  <2>1. MostEnergetic(best, pdgs, row) = [index |-> i, energy |-> row.energy]
    BY <1>4 DEF MostEnergetic
  <2>2. \A k \in PrimariesOf(table, pdgs) : table[k].energy <= row.energy
    <3>1. CASE PrimariesOf(rows, pdgs) = {}
      BY <1>1, <1>2, <3>1
    <3>2. CASE PrimariesOf(rows, pdgs) # {}
      <4>1. /\ best.energy \in Int
            /\ \A k \in PrimariesOf(rows, pdgs) : rows[k].energy <= best.energy
        BY <1>3, <3>2 DEF Leads
      <4> QED  BY <1>1, <1>2, <1>3, <1>4, <4>1
    <3> QED  BY <3>1, <3>2
  <2>3. n \in PrimariesOf(table, pdgs) /\ table[n] = row /\ i + 3 = n
    BY <1>1, <1>2, <1>4
  <2>4. Leads([index |-> i, energy |-> row.energy], pdgs, table)
    BY <2>2, <2>3 DEF Leads
  <2> QED  BY <2>1, <2>4 DEF table
<1>5. CASE is /\ ~(row.energy > best.energy)
  <2>1. MostEnergetic(best, pdgs, row) = best
    BY <1>5 DEF MostEnergetic
  <2>2. PrimariesOf(rows, pdgs) # {}
    BY <1>5 DEF Leads, NoIndex
  <2>3. /\ best.index + 3 \in PrimariesOf(rows, pdgs)
        /\ best.energy = rows[best.index + 3].energy /\ best.energy \in Int
        /\ \A k \in PrimariesOf(rows, pdgs) : rows[k].energy <= best.energy
    BY <1>3, <2>2 DEF Leads
  <2>4. \A k \in PrimariesOf(table, pdgs) : table[k].energy <= best.energy
    BY <1>1, <1>2, <1>3, <1>5, <2>3
  <2> QED  BY <1>2, <1>3, <2>1, <2>3, <2>4 DEF Leads, table
<1>6. CASE ~is
  <2>1. MostEnergetic(best, pdgs, row) = best
    BY <1>6 DEF MostEnergetic
  <2>2. PrimariesOf(table, pdgs) = PrimariesOf(rows, pdgs)
    BY <1>2, <1>6
  <2> QED  BY <1>3, <2>1, <2>2 DEF Leads, table
<1> QED  BY <1>4, <1>5, <1>6

\* One turn of the loop adds the row of a marked trajectory, which no row
\* was of, and notes its track in the list of its particle.
LEMMA FillTrackTableOK ==
  ASSUME TableInv, FillTrack
  PROVE  TableOK'
<1> DEFINE trj == container[i + 1]
           t   == track[trj.id]
           n   == Len(rows) + 1
<1>1. /\ IInv /\ LegsOK /\ LoopOK /\ filling /\ filling' /\ i' = i + 1
      /\ UNCHANGED <<event, phase, track, container, eventRow>>
      /\ phase = "end" /\ TableTypes /\ TableControl /\ TableHolds
      /\ RowsOK /\ ListsOK /\ LeptonOK /\ ColumnsOK
  BY DEF FillTrack, vars, TableInv, TableOK, Inv, TableControl, TableHolds, TableTypes
<1>2. PICK row :
        /\ row = [id |-> trj.id, pdg |-> t.kind.pdg, energy |-> t.kind.energy,
                  parent |-> ParentColumn(t.parent, lists')]
        /\ IF trj.save
           THEN /\ rows' = Append(rows, row)
                /\ leadingLepton' = MostEnergetic(leadingLepton, Muons, row)
                /\ outgoingProton' = MostEnergetic(outgoingProton, Protons, row)
                /\ eventsGenerated' = eventsGenerated + 1
           ELSE UNCHANGED <<rows, leadingLepton, outgoingProton, eventsGenerated>>
  BY DEF FillTrack
<1>3. lists' = IF t.kind.pdg \in ListedParent
               THEN [lists EXCEPT ![t.kind.pdg] = @ \cup {trj.id}] ELSE lists
  BY DEF FillTrack
<1>4. /\ i \in Nat /\ Len(container) \in Nat /\ i + 1 \in DOMAIN container
      /\ DOMAIN container = 1 .. Len(container)
      /\ trj.id \in DOMAIN track /\ trj.id \in Nat /\ t \in Track /\ t.parent \in Nat
  <2>1. /\ container \in Seq(Trajectory) /\ Len(container) \in Nat /\ i \in Nat
        /\ DOMAIN container = 1 .. Len(container) /\ i < Len(container)
    BY <1>1, LenProperties DEF FillTrack, TrajectoryLeft, TableTypes, IInv, TypeOK
  <2>2. i + 1 \in DOMAIN container
    BY <2>1
  <2>3. trj.id \in DOMAIN track
    BY <1>1, <2>2 DEF LegsOK, TrajectoryComplete
  <2> QED  BY <1>1, <2>1, <2>2, <2>3, TrackFacts
<1>5. /\ t.kind.pdg \in Int /\ t.kind.energy \in Nat
  BY <1>4, EventLoopAssumption DEF EventLoopAssumption, Track, Kind
<1>6. /\ row \in Row /\ row.id = trj.id /\ row.energy \in Nat
      /\ row.parent = ParentColumn(t.parent, lists')
  <2>1. ParentColumn(t.parent, lists') \in Int
    BY <1>4, ParentColumnIs
  <2> QED  BY <1>2, <1>4, <1>5, <2>1 DEF Row
<1>7. /\ n \in Nat /\ Len(rows) \in Nat /\ Len(rows) >= 2 /\ rows \in Seq(Row)
      /\ DOMAIN rows = 1 .. Len(rows)
  BY <1>1, LenProperties DEF TableTypes, RowsOK
<1>8. IF trj.save
      THEN /\ rows' \in Seq(Row) /\ Len(rows') = n /\ rows'[n] = row
           /\ \A k \in 1 .. Len(rows) : rows'[k] = rows[k]
      ELSE rows' = rows
  <2>1. CASE trj.save
    <3>1. rows' = Append(rows, row)
      BY <1>2, <2>1
    <3> QED  BY <1>6, <1>7, <2>1, <3>1, AppendProperties
  <2>2. CASE ~trj.save
    BY <1>2, <2>2
  <2> QED  BY <2>1, <2>2
<1>9. /\ \A p \in ListedParent, id \in Nat :
           id \in lists'[p] <=>
             track[id].kind.pdg = p /\ \E m \in 1 .. i + 1 : container[m].id = id
      /\ lists' \in [ListedParent -> SUBSET Nat]
  <2>1. lists \in [ListedParent -> SUBSET Nat]
    BY <1>1 DEF TableTypes
  <2>2. lists' \in [ListedParent -> SUBSET Nat]
    BY <1>3, <1>4, <2>1
  <2>3. ASSUME NEW p \in ListedParent, NEW id \in Nat
        PROVE  id \in lists'[p] <=> id \in lists[p] \/ (t.kind.pdg = p /\ id = trj.id)
    BY <1>3, <2>1
  <2>4. ASSUME NEW p \in ListedParent, NEW id \in Nat
        PROVE  id \in lists[p] <=>
                 track[id].kind.pdg = p /\ \E m \in 1 .. i : container[m].id = id
    BY <1>1 DEF ListsOK
  <2>5. 1 .. i + 1 = (1 .. i) \cup {i + 1}
    BY <1>4
  <2> QED  BY <2>2, <2>3, <2>4, <2>5
<1> HIDE DEF trj, t, n
<1>10. TableTypes'
  <2>1. leadingLepton' \in Best /\ outgoingProton' \in Best
    <3>1. \A best \in Best : \A pdgs : MostEnergetic(best, pdgs, row) \in Best
      BY <1>4, <1>6 DEF MostEnergetic, Best
    <3> QED  BY <1>1, <1>2, <3>1 DEF TableTypes
  <2>2. rows' \in Seq(Row) /\ eventsGenerated' \in Nat
    BY <1>1, <1>2, <1>7, <1>8 DEF TableTypes
  <2> QED  BY <1>1, <1>4, <1>9, <2>1, <2>2 DEF TableTypes
<1>11. TableControl'
  <2>1. i' <= Len(container) /\ ~Written'
    BY <1>1, <1>4 DEF Written
  <2> QED  BY <1>1, <2>1 DEF TableControl
<1>12. ListsOK'
  BY <1>1, <1>9 DEF ListsOK
<1>13. RowsOK'
  <2>1. /\ \A k \in 3 .. Len(rows) :
             \E m \in 1 .. i : container[m].save /\ rows[k].id = container[m].id
        /\ \A m \in 1 .. i : container[m].save =>
             \E k \in 3 .. Len(rows) : rows[k].id = container[m].id
        /\ \A k, l \in 3 .. Len(rows) : rows[k].id = rows[l].id => k = l
    BY <1>1 DEF RowsOK
  <2>2. 1 .. i + 1 = (1 .. i) \cup {i + 1} /\ container[i + 1] = trj
    BY <1>4 DEF trj
  <2>3. CASE ~trj.save
    <3>1. \A m \in 1 .. i + 1 : container[m].save => m \in 1 .. i
      BY <2>2, <2>3
    <3>2. /\ \A k \in 3 .. Len(rows) :
               \E m \in 1 .. i + 1 : container[m].save /\ rows[k].id = container[m].id
          /\ \A m \in 1 .. i + 1 : container[m].save =>
               \E k \in 3 .. Len(rows) : rows[k].id = container[m].id
      BY <2>1, <2>2, <3>1
    <3>3. rows' = rows
      BY <1>8, <2>3
    <3> QED  BY <1>1, <1>7, <2>1, <3>2, <3>3 DEF RowsOK
  <2>4. CASE trj.save
    <3>1. /\ Len(rows') = n /\ rows'[n].id = container[i + 1].id /\ n >= 3
          /\ \A k \in 3 .. Len(rows) : rows'[k] = rows[k]
          /\ 3 .. n = (3 .. Len(rows)) \cup {n} /\ n \notin 3 .. Len(rows)
      <4>1. n = Len(rows) + 1
        BY DEF n
      <4>2. 3 .. n = (3 .. Len(rows)) \cup {n} /\ n \notin 3 .. Len(rows) /\ n >= 3
        BY <1>7, <4>1
      <4>3. 3 .. Len(rows) \subseteq 1 .. Len(rows)
        BY <1>7
      <4> QED  BY <1>6, <1>8, <2>2, <2>4, <4>2, <4>3
    <3>2. \A k \in 3 .. Len(rows) : rows[k].id # container[i + 1].id
      <4>1. \A m \in 1 .. i : container[m].id # container[i + 1].id
        BY <1>1, <1>4 DEF LegsOK, TrajectoryComplete, NoRepeat
      <4> QED  BY <2>1, <4>1
    <3>3. \A k \in 3 .. n :
            \E m \in 1 .. i + 1 : container[m].save /\ rows'[k].id = container[m].id
      <4>1. \A k \in 3 .. Len(rows) :
              \E m \in 1 .. i + 1 : container[m].save /\ rows[k].id = container[m].id
        BY <2>1, <2>2
      <4>2. i + 1 \in 1 .. i + 1 /\ container[i + 1].save
        BY <2>2, <2>4
      <4> QED  BY <3>1, <4>1, <4>2
    <3>4. \A m \in 1 .. i + 1 : container[m].save =>
            \E k \in 3 .. n : rows'[k].id = container[m].id
      <4>1. \A m \in 1 .. i : container[m].save =>
              \E k \in 3 .. Len(rows) : rows'[k].id = container[m].id
        <5>1. \A m \in 1 .. i : container[m].save =>
                \E k \in 3 .. Len(rows) : rows[k].id = container[m].id
          BY <2>1
        <5>2. \A k \in 3 .. Len(rows) : rows'[k].id = rows[k].id
          BY <3>1
        <5> QED  BY <5>1, <5>2
      <4>2. \E k \in 3 .. n : rows'[k].id = container[i + 1].id
        BY <3>1
      <4>3. \A m \in 1 .. i + 1 : m \in 1 .. i \/ m = i + 1
        BY <2>2
      <4> QED  BY <3>1, <4>1, <4>2, <4>3
    <3>5. \A k, l \in 3 .. n : rows'[k].id = rows'[l].id => k = l
      <4>1. /\ \A k \in 3 .. Len(rows) : rows'[k].id # rows'[n].id
            /\ \A k, l \in 3 .. Len(rows) : rows'[k].id = rows'[l].id => k = l
        BY <2>1, <3>1, <3>2
      <4> QED  BY <3>1, <4>1
    <3>6. Len(rows') = n /\ Len(rows') >= 2 /\ i' = i + 1 /\ container' = container
      BY <1>1, <1>7, <3>1 DEF n
    <3> QED  BY <3>3, <3>4, <3>5, <3>6 DEF RowsOK
  <2> QED  BY <2>3, <2>4
<1>14. LeptonOK'
  <2> SUFFICES ASSUME ~DrawOptical
               PROVE  Len(rows') = i' + 2 /\ Leads(leadingLepton', Muons, rows')
    BY DEF LeptonOK
  <2>1. trj.save
    BY <1>1, <1>4 DEF LoopOK, SavedIsWorth, trj
  <2>2. Len(rows) = i + 2 /\ Leads(leadingLepton, Muons, rows)
    BY <1>1 DEF LeptonOK
  <2>3. Leads(MostEnergetic(leadingLepton, Muons, row), Muons, Append(rows, row))
    BY <1>4, <1>6, <1>7, <2>2, LeadsStep
  <2>4. /\ rows' = Append(rows, row)
        /\ leadingLepton' = MostEnergetic(leadingLepton, Muons, row)
    BY <1>2, <2>1
  <2>5. Len(rows') = i' + 2
    BY <1>1, <1>4, <1>8, <2>1, <2>2 DEF n
  <2> QED  BY <2>3, <2>4, <2>5
<1>15. ColumnsOK'
  <2> SUFFICES ASSUME MuonsDecay, NEW k \in 3 .. Len(rows'), NEW id, NEW column,
                      rows'[k].id = id, rows'[k].parent = column
               PROVE  ColumnOK(id, column)
    <3>1. \A id, column : ColumnOK(id, column) => ColumnOK(id, column)'
      BY <1>1 DEF ColumnOK, MaySuspend
    <3> QED  BY <3>1 DEF ColumnsOK, MuonsDecay
  <2>1. CASE k \in 3 .. Len(rows) /\ rows'[k] = rows[k]
    BY <1>1, <2>1 DEF ColumnsOK
  <2>2. CASE id = trj.id /\ column = ParentColumn(t.parent, lists')
    <3> SUFFICES ASSUME t.parent # 0 PROVE ColumnOK(id, column)
      BY <2>2 DEF ColumnOK, t
    <3> DEFINE mother == track[t.parent]
    <3>1. /\ t.parent \in DOMAIN track /\ mother \in Track
          /\ \/ column \in ListedParent /\ t.parent \in lists'[column]
             \/ /\ column = NoIdentifiedParent
                /\ \A q \in ListedParent : t.parent \notin lists'[q]
      <4>1. t.parent \in DOMAIN track
        BY <1>4, MothersAreTracks DEF TableInv, t
      <4> QED  BY <1>1, <1>4, <2>2, <4>1, ParentColumnIs, TrackFacts
    <3>2. CASE column \in ListedParent /\ t.parent \in lists'[column]
      <4>1. mother.kind.pdg = column
        BY <1>4, <1>9, <3>2
      <4>2. track[track[id].parent].kind.pdg = column
        BY <2>2, <4>1 DEF t
      <4> QED  BY <3>2, <4>2 DEF ColumnOK
    <3>3. CASE /\ column = NoIdentifiedParent
               /\ \A q \in ListedParent : t.parent \notin lists'[q]
      <4>1. ASSUME mother.kind.pdg \in ListedParent PROVE MaySuspend(t.parent)
        <5>1. SaveAPriori(mother)
          <6>1. KnownMuon(mother)
            BY <1>1, <3>1 DEF LoopOK, MuonsKnown
          <6>2. mother.kind.pdg \in Muons \/ mother.kind.pdg \in ParticleList
            BY <4>1 DEF Muons, ListedParent, ParticleList
          <6> QED  BY <6>1, <6>2 DEF KnownMuon, SaveAPriori, ProcessList
        <5>2. ~\E m \in 1 .. i + 1 : container[m].id = t.parent
          BY <1>4, <1>9, <3>3, <4>1
        <5>3. \A m \in 1 .. (i + 1) - 1 : m \in 1 .. i + 1
          BY <1>4
        <5> QED  BY <1>1, <1>4, <5>1, <5>2, <5>3 DEF LoopOK, MothersFirst, t, trj
      <4> QED  BY <2>2, <3>3, <4>1 DEF ColumnOK, t
    <3> QED  BY <3>1, <3>2, <3>3
  <2>3. \/ k \in 3 .. Len(rows) /\ rows'[k] = rows[k]
        \/ id = trj.id /\ column = ParentColumn(t.parent, lists')
    <3>1. CASE ~trj.save
      BY <1>8, <3>1
    <3>2. CASE trj.save
      <4>1. k \in 3 .. Len(rows) \/ k = n
        BY <1>7, <1>8, <3>2 DEF n
      <4> QED  BY <1>6, <1>7, <1>8, <3>2, <4>1
    <3> QED  BY <3>1, <3>2
  <2> QED  BY <2>1, <2>2, <2>3
<1> QED  BY <1>10, <1>11, <1>12, <1>13, <1>14, <1>15 DEF TableOK

\* The event row is written when every trajectory has been met.
LEMMA FillEventTableOK ==
  ASSUME TableInv, FillEvent
  PROVE  TableOK' /\ EndOfEvent
<1>1. /\ IInv /\ filling /\ filling' = FALSE /\ phase = "end" /\ phase' = "idle"
      /\ eventRow' = [event |-> event, nPart |-> Len(rows),
                      leptonIndex |-> TableIndex(leadingLepton),
                      protonIndex |-> TableIndex(outgoingProton)]
      /\ UNCHANGED <<i, rows, lists, leadingLepton, outgoingProton, eventsGenerated,
                     event, track, stackVars, legVars, container, aborted>>
      /\ TableTypes /\ TableControl /\ TableHolds
      /\ RowsOK /\ ListsOK /\ LeptonOK /\ ColumnsOK
  BY DEF FillEvent, TableInv, TableOK, Inv, TableControl, TableHolds
<1>2. EndOfEvent
  BY <1>1 DEF EndOfEvent
<1>3. /\ event \in Nat /\ i \in Nat /\ Len(container) \in Nat /\ Len(rows) \in Nat
      /\ i = Len(container)
  BY <1>1, LenProperties
     DEF FillEvent, TrajectoryLeft, TableControl, TableTypes, IInv, TypeOK
<1>4. TableTypes'
  <2>1. TableIndex(leadingLepton) \in Index /\ TableIndex(outgoingProton) \in Index
    BY <1>1 DEF TableTypes, TableIndex, Index, Best
  <2>2. eventRow' \in [event : Nat, nPart : Nat, leptonIndex : Index, protonIndex : Index]
    BY <1>1, <1>3, <2>1
  <2>3. /\ i' = i /\ rows' = rows /\ lists' = lists /\ filling' \in BOOLEAN
        /\ leadingLepton' = leadingLepton /\ outgoingProton' = outgoingProton
        /\ eventsGenerated' = eventsGenerated
    BY <1>1
  <2> QED  BY <1>1, <2>2, <2>3 DEF TableTypes
<1>5. TableControl'
  BY <1>1, <1>3 DEF TableControl, TableIndex
<1>6. RowsOK'
  BY <1>1 DEF RowsOK
<1>7. LeptonOK'
  BY <1>1 DEF LeptonOK, Leads, PrimariesOf
<1>8. ColumnsOK'
  BY <1>1 DEF ColumnsOK, ColumnOK, MaySuspend, MuonsDecay
<1>9. ListsOK'
  BY <1>1 DEF ListsOK
<1> QED  BY <1>2, <1>4, <1>5, <1>6, <1>7, <1>8, <1>9 DEF TableOK

\* A stuttering step changes nothing.
LEMMA StutterTableOK ==
  ASSUME TableInv, UNCHANGED allVars
  PROVE  TableOK' /\ UNCHANGED vars
<1>1. UNCHANGED <<filling, i, rows, lists, leadingLepton, outgoingProton, eventRow,
                  eventsGenerated, event, phase, track, container, aborted>>
  BY DEF allVars, tableVars, loopVars, vars
<1>2. UNCHANGED vars
  BY DEF allVars
<1>3. TableTypes' /\ TableControl'
  BY <1>1 DEF TableInv, TableOK, TableTypes, TableControl, Written, TableIndex
<1>4. RowsOK' /\ ListsOK'
  BY <1>1 DEF TableInv, TableOK, RowsOK, ListsOK, TableHolds, Written
<1>5. LeptonOK'
  BY <1>1 DEF TableInv, TableOK, LeptonOK, Leads, PrimariesOf, TableHolds, Written
<1>6. ColumnsOK'
  BY <1>1 DEF TableInv, TableOK, ColumnsOK, ColumnOK, MaySuspend, MuonsDecay,
              TableHolds, Written
<1> QED  BY <1>2, <1>3, <1>4, <1>5, <1>6 DEF TableOK

\* Seen from the loop, filling the table is the end of an event.
LEMMA TableStepIsLoopStep == TableInv /\ [TableNext]_allVars => [Next]_vars
<1> SUFFICES ASSUME TableInv, [TableNext]_allVars PROVE [Next]_vars
  OBVIOUS
<1>1. CASE Processing /\ UNCHANGED tableVars
  BY <1>1 DEF Next
<1>2. CASE FillBeamAndTarget
  BY <1>2, FillBeamAndTargetTableOK DEF Next
<1>3. CASE FillTrack
  BY <1>3 DEF FillTrack
<1>4. CASE FillEvent
  BY <1>4, FillEventTableOK DEF Next
<1>5. CASE UNCHANGED allVars
  BY <1>5, StutterTableOK
<1> QED  BY <1>1, <1>2, <1>3, <1>4, <1>5 DEF TableNext

\* Every step keeps the invariant of the loop and that of the table.
LEMMA NextTableInv == TableInv /\ [TableNext]_allVars => TableInv'
<1> SUFFICES ASSUME TableInv, [TableNext]_allVars PROVE TableInv'
  OBVIOUS
<1>1. Inv /\ LoopOK /\ [Next]_vars
  BY TableStepIsLoopStep DEF TableInv
<1>2. Inv'
  BY <1>1, NextInv
<1>3. LoopOK'
  BY <1>1, ProcessingLoopOK, EndOfEventLoopOK, StutterLoopOK DEF Next
<1>4. TableOK'
  BY ProcessingTableOK, FillBeamAndTargetTableOK, FillTrackTableOK, FillEventTableOK,
     StutterTableOK DEF TableNext
<1> QED  BY <1>2, <1>3, <1>4 DEF TableInv

LEMMA TableInvariance == TableSpec => []TableInv
BY InitTableInv, NextTableInv, PTL DEF TableSpec

-----------------------------------------------------------------------------
\* What the invariant says of the event that has just been written.
LEMMA InvCompletesTable == TableInv => TableComplete
<1> SUFFICES ASSUME TableInv, Written, ~aborted
             PROVE  /\ eventRow.nPart = Len(rows)
                    /\ \A k, l \in 3 .. Len(rows) : rows[k].id = rows[l].id => k = l
                    /\ {rows[k].id : k \in 3 .. Len(rows)} =
                         {id \in DOMAIN track : track[id].stacked /\ SaveAPriori(track[id])}
  BY DEF TableComplete
<1>1. /\ phase = "idle" /\ IInv /\ LegsOK /\ LoopOK /\ TableControl /\ RowsOK /\ TableHolds
      /\ i = Len(container) /\ container \in Seq(Trajectory)
  BY DEF Written, TableInv, TableOK, TableControl, TableHolds, Inv, IInv, TypeOK
<1>2. /\ eventRow.nPart = Len(rows)
      /\ \A k, l \in 3 .. Len(rows) : rows[k].id = rows[l].id => k = l
  BY <1>1 DEF TableControl, RowsOK
<1>3. DOMAIN container = 1 .. i
  BY <1>1, LenProperties
<1>4. ASSUME NEW k \in 3 .. Len(rows)
      PROVE  /\ rows[k].id \in DOMAIN track
             /\ track[rows[k].id].stacked /\ SaveAPriori(track[rows[k].id])
  <2>1. PICK m \in 1 .. i : container[m].save /\ rows[k].id = container[m].id
    BY <1>1 DEF RowsOK
  <2> QED  BY <1>1, <1>3, <2>1 DEF LegsOK, TrajectoryComplete, LoopOK, SavedIsWorth
<1>5. ASSUME NEW id \in DOMAIN track, track[id].stacked, SaveAPriori(track[id])
      PROVE  \E k \in 3 .. Len(rows) : rows[k].id = id
  <2>1. urgent = <<>> /\ waiting = <<>> /\ current = 0
    BY <1>1 DEF IInv, PhaseOK, InTrackingManager
  <2>2. Live = {}
    BY <1>1, <2>1, EmptyStack DEF IInv, TrackInOnePlace, InTracking
  <2>3. track[id].deleted
    BY <2>2 DEF Live
  <2>4. PICK m \in DOMAIN container : container[m].id = id /\ container[m].save
    BY <1>1, <1>5, <2>3 DEF LegsOK, Finished, IsSaved
  <2> QED  BY <1>1, <1>3, <2>4 DEF RowsOK
<1> QED  BY <1>2, <1>4, <1>5

LEMMA InvNamesTheLepton == TableInv /\ ~DrawOptical => LeptonIndexIsLepton
<1> SUFFICES ASSUME TableInv, ~DrawOptical, Written
             PROVE  IndexNamesTheBest(eventRow.leptonIndex, Muons)
  BY DEF LeptonIndexIsLepton
<1>1. /\ eventRow.leptonIndex = TableIndex(leadingLepton)
      /\ Leads(leadingLepton, Muons, rows) /\ leadingLepton \in Best
  BY DEF TableInv, TableOK, TableControl, LeptonOK, TableHolds, TableTypes
<1>2. Primaries(Muons) = PrimariesOf(rows, Muons)
  BY DEF Primaries, PrimariesOf
<1>3. CASE Primaries(Muons) = {}
  BY <1>1, <1>2, <1>3 DEF Leads, IndexNamesTheBest, TableIndex, NoIndex
<1>4. CASE Primaries(Muons) # {}
  <2>1. /\ leadingLepton.index + 3 \in Primaries(Muons)
        /\ leadingLepton.energy = rows[leadingLepton.index + 3].energy
        /\ \A k \in Primaries(Muons) : rows[k].energy <= leadingLepton.energy
    BY <1>1, <1>2, <1>4 DEF Leads
  <2>2. leadingLepton.index \in Nat
    BY <1>1, <2>1 DEF Primaries, Best
  <2>3. eventRow.leptonIndex = leadingLepton.index + 2
    BY <1>1, <2>2 DEF TableIndex
  <2>4. eventRow.leptonIndex + 1 = leadingLepton.index + 3
    BY <2>2, <2>3
  <2> QED  BY <1>4, <2>1, <2>4 DEF IndexNamesTheBest, RowAt
<1> QED  BY <1>3, <1>4

LEMMA InvKnowsParents == TableInv /\ MuonsDecay => ParentKnown
BY DEF TableInv, TableOK, ColumnsOK, ColumnOK, ParentKnown, TableHolds

-----------------------------------------------------------------------------
\* In every reachable state the variables of the loop and of the table have
\* their types (EventAction::EndOfEventAction).
THEOREM TableTypesHold == TableSpec => []TableTypeOK
<1>1. TableInv => TableTypeOK
  BY DEF TableInv, TableOK, TableTypes, TableTypeOK, Best, Inv, IInv
<1> QED  BY <1>1, TableInvariance, PTL

\* The table of an event that was not aborted has, once the event is written,
\* exactly one row for every tracked particle that TrackingAction finds worth
\* saving, however its legs were interleaved with those of other tracks.
THEOREM TableIsComplete == TableSpec => []TableComplete
BY InvCompletesTable, TableInvariance, PTL

\* As long as optical photons are not drawn, leptonIndex names the row of the
\* most energetic primary muon, or is -1 if there is none; with photons drawn
\* the LeptonIndex run shows the contrary (EventAction.cpp:258, 389).
THEOREM LeptonIndexIsRight ==
  ASSUME ~DrawOptical
  PROVE  TableSpec => []LeptonIndexIsLepton
<1>1. TableInv => LeptonIndexIsLepton
  BY InvNamesTheLepton
<1> QED  BY <1>1, TableInvariance, PTL

\* If the muons that steps create come from decays, so that every one of them
\* is saved, the parent column of a secondary is that of its parent, or 999
\* when the parent was suspended to track photons (EventAction.cpp:315).
THEOREM ParentsAreKnown ==
  ASSUME MuonsDecay
  PROVE  TableSpec => []ParentKnown
<1>1. TableInv => ParentKnown
  BY InvKnowsParents
<1> QED  BY <1>1, TableInvariance, PTL

\* Filling the table takes no step that the event loop does not take: every
\* property of EventLoop holds of the program that writes the table too.
THEOREM TableRunsTheLoop == TableSpec => Init /\ [][Next]_vars
<1>1. TableSpec => Init /\ []TableInv /\ [][TableNext]_allVars
  BY TableInvariance, PTL DEF TableSpec
<1> QED  BY <1>1, TableStepIsLoopStep, PTL
=============================================================================
