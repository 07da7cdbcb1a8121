----------------------------- MODULE MCGpioPwm -----------------------------
(***************************************************************************)
(* GpioPwm with a range of duty cycles short enough to be swept whole.     *)
(***************************************************************************)
EXTENDS GpioPwm

\* 0 is clamped to 1, 3 does not divide the range, 9 is longer than it.
MCStepArgs == {0, 2, 3, 9}
=============================================================================
