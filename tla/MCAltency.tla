----------------------------- MODULE MCAltency ------------------------------
(***************************************************************************)
(* Altency with periods of two samples.  A wakeup is in time, or misses a  *)
(* release and reads the clock only after the next one; two of the latter  *)
(* are more than sumj holds.                                               *)
(***************************************************************************)
EXTENDS Altency

MCDelays  == {<<0, 0>>, <<3, 6>>}
MCOptions ==
  {[freeze_max |-> FALSE, stop_upon_switch |-> TRUE, need_histo |-> FALSE, MaxPeriods |-> 2],
   [freeze_max |-> TRUE, stop_upon_switch |-> FALSE, need_histo |-> TRUE, MaxPeriods |-> 1]}

\* What the theorems suppose.
ASSUME DelaysInTime == InTime
=============================================================================
