------------------------------ MODULE MCRtIpc -------------------------------
(***************************************************************************)
(* RtIpc with messages of two bytes, of which one more is sent than an     *)
(* endpoint holds.                                                         *)
(***************************************************************************)
EXTENDS RtIpc
=============================================================================
