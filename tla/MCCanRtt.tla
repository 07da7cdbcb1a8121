------------------------------ MODULE MCCanRtt ------------------------------
(***************************************************************************)
(* CanRtt with three frames, which make one report of three frames' length *)
(* or three of one, a queue of one message, which fills up, and two other  *)
(* programs on the bus: the filter refuses the one's frames and takes the  *)
(* other's, whose identifier differs only above the mask.                  *)
(***************************************************************************)
EXTENDS CanRtt

MCOthers       == {2, 1025}
MCCountsPerSec == {0, 1, 2}
=============================================================================
