--------------------------- MODULE MCCyclicStart ---------------------------
(***************************************************************************)
(* CyclicStart with three threads.  A second has 20 ticks of 50 ms, so the *)
(* last tick of a second is less than 100 ms before the next one; the run  *)
(* covers the end of a second: 150, 100, 50 and 0 ms before the next.  Of  *)
(* the offsets, one is negative and one is an int whose double is not.     *)
(***************************************************************************)
EXTENDS CyclicStart

MCOffsets == {-3, 0, 3, 5}
=============================================================================
