---------------------------- MODULE MCCyclicLoop ----------------------------
(***************************************************************************)
(* CyclicLoop with an interval of two ticks and a thread that may lose the *)
(* processor for two before each step, so that it is late by up to two     *)
(* periods. The ring has two slots and a line of output stands for two     *)
(* samples: four cycles make two lines, fill the ring twice, and leave     *)
(* read and unread values beside each other. The histogram has two cells,  *)
(* so any lateness of a period overflows it. An aligned start is one tick  *)
(* ahead of the clock.                                                     *)
(*                                                                         *)
(* Four cycles are run in one mode.  What the reader makes of the values   *)
(* does not depend on how the thread waits, and every mode has two cycles. *)
(***************************************************************************)
EXTENDS CyclicLoop

MCShifts == {1}

TwoCycles ==
  [mode : Modes, abstime : BOOLEAN, aligned : BOOLEAN, max_cycles : {0, 2}, duration : {0, 3}]
FourCycles ==
  [mode : {"clock_nanosleep"}, abstime : {TRUE}, aligned : {FALSE}, max_cycles : {4}, duration : {0}]
MCOptions  == TwoCycles \cup FourCycles

\* A POSIX timer armed with the absolute time of the first period.
PosixTimer == {o \in TwoCycles : o.mode = "cyclic" /\ o.abstime /\ ~ o.aligned}
=============================================================================
