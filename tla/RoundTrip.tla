----------------------------- MODULE RoundTrip ------------------------------
(***************************************************************************)
(* What the round-trip test over CAN promises its statistics: frames go    *)
(* out one at a time.  The next leaves only when at least as many were     *)
(* received as went out; what is received was sent, or is the frame of     *)
(* another program that strayed into the test.                             *)
(***************************************************************************)
EXTENDS Naturals

VARIABLES sent, received, strays

Init == sent = 0 /\ received = 0 /\ strays = 0

Leave ==
  /\ received >= sent
  /\ sent' = sent + 1
  /\ UNCHANGED <<received, strays>>

Return ==
  /\ received < sent + strays
  /\ received' = received + 1
  /\ UNCHANGED <<sent, strays>>

Stray ==
  /\ strays' = strays + 1
  /\ UNCHANGED <<sent, received>>

Next == Leave \/ Return \/ Stray

Spec == Init /\ [][Next]_<<sent, received, strays>>
=============================================================================
