---------------------------- MODULE MCCrossLink -----------------------------
(***************************************************************************)
(* CrossLink with two descriptors, as many as it needs, and each signal    *)
(* at least once.                                                          *)
(***************************************************************************)
EXTENDS CrossLink
=============================================================================
