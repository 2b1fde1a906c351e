---------------------------- MODULE EventOutput ----------------------------
(***************************************************************************)
(* The hit and digit rows of an event (EventAction::EndOfEventAction).     *)
(*                                                                         *)
(* At the end of an event its sub-trees are reset; an unknown target ends  *)
(* the handler there.  Otherwise the event is digitized, each hit gives a  *)
(* row with its tube, its number of photo-electrons and the first          *)
(* MaxTimes of their times, each digit gives a row, and the entry of the   *)
(* event is filled: the tree then holds a copy of both sub-trees.  The     *)
(* sub-trees and the column of the times are members of the analysis and   *)
(* last over the events.  The rows of the tracks are in EventTable.        *)
(***************************************************************************)
EXTENDS WCDigitizer

CONSTANT MaxTimes   \* the times written of a hit (100 in the code)

ASSUME EventOutputAssumption == MaxTimes \in Nat

VARIABLES
  hit_tree,    \* rows of m_Event_hit_tree
  digit_tree,  \* rows of m_Event_digit_tree
  hit_pe_vec,  \* the column of the times of a hit
  nHits,       \* hits written
  nDigits,     \* digits written
  entry        \* the entry of the event, once it is filled

outVars == <<hit_tree, digit_tree, hit_pe_vec, nHits, nDigits, entry>>

NoEntry == [nHits |-> 0, nDigits |-> 0, hit |-> <<>>, digit |-> <<>>, filled |-> FALSE]

OutputInit ==
  /\ Init
  /\ hit_tree = <<>> /\ digit_tree = <<>> /\ hit_pe_vec = <<>>
  /\ nHits = 0 /\ nDigits = 0
  /\ entry = NoEntry

\* Every event starts with empty sub-trees.  Mutant: the rows of the digits
\* are left from the last event.
ResetTreesMutant == hit_tree' = <<>> /\ UNCHANGED digit_tree
ResetTrees == hit_tree' = <<>> /\ digit_tree' = <<>>

\* The target is unknown to the particle table: nothing is digitized and no
\* entry is filled.
UnknownTarget ==
  /\ phase = "idle" /\ event < MaxEvents
  /\ event' = event + 1
  /\ ResetTrees
  /\ UNCHANGED <<phase, hits, triggerhisto, RealOffset, j, i, digits,
                 hit_pe_vec, nHits, nDigits, entry>>

BeginDigitize ==
  /\ FillTriggerHisto
  /\ ResetTrees
  /\ nHits' = 0 /\ nDigits' = 0
  /\ UNCHANGED <<hit_pe_vec, entry>>

Digitize ==
  /\ FindTrigger \/ NoTrigger \/ DigitizeHit \/ StoreDigiCollection
  /\ UNCHANGED outVars

HitRow(hit, pe) == [tubeId |-> hit.tubeID, totalPE |-> Len(hit.time), pe |-> pe]
DigitRow(digit) == [tubeId |-> digit.tubeID, time |-> digit.time]

\* The column is cleared before the times of the hit are put there.
fill_hit ==
  /\ phase = "stored" /\ nHits < Len(hits)
  /\ LET hit == hits[nHits + 1]
         n   == IF Len(hit.time) < MaxTimes THEN Len(hit.time) ELSE MaxTimes
     IN /\ hit_pe_vec' = SubSeq(hit.time, 1, n)
        /\ hit_tree' = Append(hit_tree, HitRow(hit, hit_pe_vec'))
  /\ nHits' = nHits + 1
  /\ UNCHANGED <<vars, digit_tree, nDigits, entry>>

fill_digit ==
  /\ phase = "stored" /\ nHits = Len(hits) /\ nDigits < Len(digits)
  /\ digit_tree' = Append(digit_tree, DigitRow(digits[nDigits + 1]))
  /\ nDigits' = nDigits + 1
  /\ UNCHANGED <<vars, hit_tree, hit_pe_vec, nHits, entry>>

fill_event ==
  /\ phase = "stored" /\ nHits = Len(hits) /\ nDigits = Len(digits)
  /\ ~entry.filled
  /\ entry' = [nHits |-> nHits, nDigits |-> nDigits, hit |-> hit_tree,
               digit |-> digit_tree, filled |-> TRUE]
  /\ UNCHANGED <<vars, hit_tree, digit_tree, hit_pe_vec, nHits, nDigits>>

\* The entry is in the file, and nothing reads it there.
EndEvent ==
  /\ entry.filled
  /\ DeleteEvent
  /\ entry' = NoEntry
  /\ nHits' = 0 /\ nDigits' = 0
  /\ UNCHANGED <<hit_tree, digit_tree, hit_pe_vec>>

OutputNext == UnknownTarget \/ BeginDigitize \/ Digitize \/ fill_hit
                \/ fill_digit \/ fill_event \/ EndEvent

OutputSpec == OutputInit /\ [][OutputNext]_<<vars, outVars>>
-----------------------------------------------------------------------------
OutputTypeOK ==
  /\ TypeOK
  /\ hit_tree \in Seq([tubeId : Nat, totalPE : Nat, pe : Seq(Nat)])
  /\ digit_tree \in Seq([tubeId : Nat, time : Nat \ {0}])
  /\ hit_pe_vec \in Seq(Nat)
  /\ nHits \in 0 .. Len(hits) /\ nDigits \in 0 .. Len(digits)
  /\ entry.filled \in BOOLEAN

\* A hit row holds the earliest times of its tube's photo-electrons, in
\* order: those written are as many as may be and none left out is earlier.
\* EventAction.cpp:422 asks for the digitization to come first because it
\* sorts them.
EarliestTimes(row, hit) ==
  LET n == Len(row.pe) IN
    /\ row.totalPE = Len(hit.time)
    /\ n = row.totalPE \/ (n = MaxTimes /\ n < row.totalPE)
    /\ \A a, b \in 1 .. n : a < b => row.pe[a] <= row.pe[b]
    /\ \A t \in {hit.time[k] : k \in DOMAIN hit.time} :
         LET Times(s, u) == Cardinality({k \in DOMAIN s : s[k] = u})
         IN /\ Times(row.pe, t) <= Times(hit.time, t)
            /\ Times(row.pe, t) < Times(hit.time, t) => \A k \in 1 .. n : row.pe[k] <= t

\* The entry is that of its event alone: a row for each hit and each digit
\* and the number of both, the earliest times of each hit, and for each digit
\* row a hit row of the same tube whose first time it is timed by; no row and
\* no time of another hit or of an earlier event, also when that one ended
\* early.
EntryIsEvent ==
  entry.filled =>
    /\ entry.nHits = Len(entry.hit) /\ entry.nDigits = Len(entry.digit)
    /\ \A h \in DOMAIN hits :
         \E r \in DOMAIN entry.hit :
           entry.hit[r].tubeId = hits[h].tubeID /\ EarliestTimes(entry.hit[r], hits[h])
    /\ Len(entry.hit) = Len(hits) /\ Len(entry.digit) = Len(digits)
    /\ \A d \in DOMAIN entry.digit :
         \E r \in DOMAIN entry.hit :
           /\ entry.hit[r].tubeId = entry.digit[d].tubeId
           /\ entry.hit[r].pe # <<>> =>
                entry.digit[d].time - RealOffset - entry.hit[r].pe[1] \in Noise
=============================================================================
