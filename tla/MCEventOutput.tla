---------------------------- MODULE MCEventOutput ----------------------------
(***************************************************************************)
(* One tube with up to three photo-electrons, or two with up to two, in a  *)
(* histogram of five bins of two units; times reach beyond LongTime, and   *)
(* at most two of a hit are written.                                       *)
(***************************************************************************)
EXTENDS EventOutput

MCTime == {0, 1, 3, 4, 7, 10}
MCTimes(n) == UNION {[1 .. k -> MCTime] : k \in 1 .. n}
MCHits ==
  {<<>>}
  \cup {<<[tubeID |-> 1, time |-> s]>> : s \in MCTimes(3)}
  \cup {<<[tubeID |-> 2, time |-> s], [tubeID |-> 1, time |-> t]>> :
           s \in MCTimes(2), t \in MCTimes(1)}
MCNoise == {-1, 0, 1}
=============================================================================
