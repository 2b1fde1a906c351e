----------------------------- MODULE WCDigitizer -----------------------------
(***************************************************************************)
(* WCDigitizer::Digitize: the trigger time of an event and the digits of   *)
(* its hits.                                                               *)
(*                                                                         *)
(* The hit times are put in a histogram; t0 is the end of the first window *)
(* of TimeHistoStepBin bins with more than GlobalThreshold entries, and    *)
(* RealOffset is `offset' minus t0.  Then each hit gives at most one       *)
(* digit, from its photo-electrons in the gate.  The code's times are      *)
(* floats, here they are integers; of the photo-electrons of a digit only  *)
(* the sign is kept, as the random smearing makes everything else possible.*)
(***************************************************************************)
EXTENDS Integers, Sequences, FiniteSets

CONSTANTS
  TimeHistoStep, TimeHistoStepBin, TimeHistoMaxBin, GlobalThreshold,
  offset, eventgateup, pmtgate,
  Noise,      \* what the time resolution may add to a digit's time
  Hits,       \* the hits collections an event may leave
  MaxEvents   \* bound: events

\* What the sensitive detector leaves: a hit is of a tube that has no other
\* one, and is made for its first photo-electron.
OneHitPerTube(collection) ==
  \A g, h \in DOMAIN collection :
    /\ collection[h].time # <<>>
    /\ collection[g].tubeID = collection[h].tubeID => g = h

ASSUME WCDigitizerAssumption ==
  /\ TimeHistoStep \in Nat \ {0} /\ TimeHistoStepBin \in Nat \ {0}
  /\ {TimeHistoMaxBin, GlobalThreshold, offset, eventgateup, pmtgate, MaxEvents}
        \subseteq Nat
  /\ Noise \subseteq Int
  /\ Hits \subseteq Seq([tubeID : Nat, time : Seq(Nat)])
  /\ \A collection \in Hits : OneHitPerTube(collection)

LongTime == TimeHistoStep * TimeHistoMaxBin

VARIABLES
  event,         \* number of events digitized
  phase,         \* where Digitize is
  hits,          \* the WCHitsCollection
  triggerhisto,  \* entries per bin, from bin 0
  RealOffset,
  j,             \* the bin that the trigger loop looks at, from 1
  i,             \* the hit that the digit loop looks at, from 1
  digits         \* the WCDigitsCollection

vars == <<event, phase, hits, triggerhisto, RealOffset, j, i, digits>>

Init ==
  /\ event = 0 /\ phase = "idle" /\ hits = <<>>
  /\ triggerhisto = [b \in 0 .. TimeHistoMaxBin - 1 |-> 0]
  /\ RealOffset = 0 /\ j = 1 /\ i = 1 /\ digits = <<>>

\* Mutant: the times stay in the order of the detections.
SortHitTimesMutant(collection) == collection

\* The times before the k-th in increasing order, and the times so ordered.
Earlier(s, k) == {l \in DOMAIN s : s[l] < s[k] \/ (s[l] = s[k] /\ l < k)}
Increasing(s) ==
  [n \in DOMAIN s |-> s[CHOOSE k \in DOMAIN s : Cardinality(Earlier(s, k)) = n - 1]]

\* SortHitTimes on every hit (the track IDs of the hit are not sorted along).
SortHitTimes(collection) ==
  [h \in DOMAIN collection |-> [collection[h] EXCEPT !.time = Increasing(@)]]

\* The times below LongTime of one bin, over all the hits.
Entries(collection, b) ==
  {ht \in UNION {{h} \X DOMAIN collection[h].time : h \in DOMAIN collection} :
     LET tc == collection[ht[1]].time[ht[2]]
     IN tc < LongTime /\ tc \div TimeHistoStep = b}

\* The collection of a new event is sorted and histogrammed; memset and the
\* assignment forget what the previous event left.
FillTriggerHisto ==
  /\ phase = "idle" /\ event < MaxEvents
  /\ event' = event + 1
  /\ \E collection \in Hits :
       /\ hits' = SortHitTimes(collection)
       /\ triggerhisto' = [b \in 0 .. TimeHistoMaxBin - 1 |->
                             Cardinality(Entries(hits', b))]
  /\ RealOffset' = offset
  /\ j' = 1 /\ i' = 1
  /\ digits' = <<>>
  /\ phase' = "trigger"

\* Mutant: the window is one bin too long.
BeginningMutant(bin) ==
  IF bin - TimeHistoStepBin > 1 THEN bin - TimeHistoStepBin ELSE 1

\* One turn of the trigger loop: the entries of the last TimeHistoStepBin
\* bins up to bin j, bins being counted from 1.
Beginning(bin) ==
  IF bin + 1 - TimeHistoStepBin > 1 THEN bin + 1 - TimeHistoStepBin ELSE 1

acc(bin) == Cardinality(UNION {{k} \X (1 .. triggerhisto[k - 1]) : k \in Beginning(bin) .. bin})

FindTrigger ==
  /\ phase = "trigger" /\ j <= TimeHistoMaxBin
  /\ IF acc(j) > GlobalThreshold
     THEN /\ RealOffset' = RealOffset - TimeHistoStep * j
          /\ phase' = "digitize"
          /\ UNCHANGED j
     ELSE /\ j' = j + 1
          /\ UNCHANGED <<RealOffset, phase>>
  /\ UNCHANGED <<event, hits, triggerhisto, i, digits>>

\* The loop ran out of bins: there is no trigger, and the event is digitized
\* with RealOffset = offset all the same.
NoTrigger ==
  /\ phase = "trigger" /\ j > TimeHistoMaxBin
  /\ phase' = "digitize"
  /\ UNCHANGED <<event, hits, triggerhisto, RealOffset, j, i, digits>>

\* GetPeInGate: the number of times up to the nearer end of the two gates.
bound1 == offset - RealOffset + eventgateup
bound2(hit) == hit.time[1] + pmtgate

PeInGate(hit) ==
  LET mintime == IF bound1 < bound2(hit) THEN bound1 ELSE bound2(hit)
  IN Cardinality({k \in DOMAIN hit.time : hit.time[k] <= mintime})

\* Smearing and Threshold: the hit may be rejected, or accepted with an error
\* that leaves the photo-electrons positive or not.  Threshold accepts 0
\* photo-electrons with a probability of 0.0086.
SmearedPe(totalPe) == {"rejected", "positive", "negative"}

\* A digit needs photo-electrons and a positive time.
Accepted(pe, digihittime) == pe = "positive" /\ digihittime > 0

\* One turn of the loop over the hits.
DigitizeHit ==
  /\ phase = "digitize" /\ i <= Len(hits)
  /\ LET hit == hits[i] IN
       \E pe \in SmearedPe(PeInGate(hit)), error \in Noise :
         LET digihittime == RealOffset + hit.time[1] + error
         IN digits' = IF Accepted(pe, digihittime)
                      THEN Append(digits, [tubeID |-> hit.tubeID,
                             time |-> digihittime, totalPe |-> PeInGate(hit)])
                      ELSE digits
  /\ i' = i + 1
  /\ UNCHANGED <<event, phase, hits, triggerhisto, RealOffset, j>>

\* The digits are handed to the event.
StoreDigiCollection ==
  /\ phase = "digitize" /\ i > Len(hits)
  /\ phase' = "stored"
  /\ UNCHANGED <<event, hits, triggerhisto, RealOffset, j, i, digits>>

\* The run manager deletes the event with its hits and digits; the histogram
\* and RealOffset are members of the digitizer and stay.
DeleteEvent ==
  /\ phase = "stored"
  /\ phase' = "idle"
  /\ hits' = <<>> /\ digits' = <<>>
  /\ j' = 1 /\ i' = 1
  /\ UNCHANGED <<event, triggerhisto, RealOffset>>

Next == FillTriggerHisto \/ FindTrigger \/ NoTrigger \/ DigitizeHit
          \/ StoreDigiCollection \/ DeleteEvent

Spec == Init /\ [][Next]_vars
-----------------------------------------------------------------------------
TypeOK ==
  /\ event \in Nat /\ phase \in {"idle", "trigger", "digitize", "stored"}
  /\ hits \in Seq([tubeID : Nat, time : Seq(Nat)])
  /\ triggerhisto \in [0 .. TimeHistoMaxBin - 1 -> Nat]
  /\ RealOffset \in Int
  /\ j \in 1 .. TimeHistoMaxBin + 1 /\ i \in Nat
  /\ digits \in Seq([tubeID : Nat, time : Nat \ {0}, totalPe : Nat])

\* Reference: the photo-electrons whose time lies in the window that ends
\* with bin b, counted on the times themselves, without the histogram.
InWindow(b) ==
  {ht \in UNION {{h} \X DOMAIN hits[h].time : h \in DOMAIN hits} :
     LET t == hits[ht[1]].time[ht[2]]
     IN /\ TimeHistoStep * (b - TimeHistoStepBin) <= t
        /\ t < TimeHistoStep * b}
TriggerBins(n) == {b \in 1 .. TimeHistoMaxBin : Cardinality(InWindow(b)) >= n}

\* RealOffset after the trigger loop, if a window must hold n hits.
OffsetFor(n) ==
  IF TriggerBins(n) = {} THEN offset
  ELSE offset - TimeHistoStep * (CHOOSE b \in TriggerBins(n) :
                                   \A c \in TriggerBins(n) : b <= c)

\* t0 is the end of the first window with more than GlobalThreshold hits: the
\* histogram, the window's moving start and the loop's exit agree with the
\* definition on the times, and nothing is left of an earlier event.  (So
\* exactly GlobalThreshold hits, "# of hits to trigger t0 determination" at
\* WCDigitizer.hh:203, do not trigger.)
TriggerIsFirstWindow ==
  phase \in {"digitize", "stored"} => RealOffset = OffsetFor(GlobalThreshold + 1)

\* The earliest time of a tube's photo-electrons.
FirstTime(tube) ==
  LET times == UNION {{hits[h].time[k] : k \in DOMAIN hits[h].time} :
                        h \in {g \in DOMAIN hits : hits[g].tubeID = tube}}
  IN CHOOSE t \in times : \A u \in times : t <= u

\* A tube has at most one digit; its time is that of the tube's earliest
\* photo-electron, whatever the order of the detections, counted from t0 and
\* shifted by offset.
DigitFromFirstTime ==
  /\ \A k, l \in DOMAIN digits : digits[k].tubeID = digits[l].tubeID => k = l
  /\ \A k \in DOMAIN digits :
       digits[k].time - RealOffset - FirstTime(digits[k].tubeID) \in Noise
=============================================================================
