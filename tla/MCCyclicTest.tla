---------------------------- MODULE MCCyclicTest ----------------------------
(***************************************************************************)
(* CyclicTest with two timer threads, endless or with two loops.           *)
(***************************************************************************)
EXTENDS CyclicTest

MCMaxCycles == {0, 2}
=============================================================================
