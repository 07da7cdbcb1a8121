---------------------------- MODULE AlignedStart ----------------------------
(***************************************************************************)
(* What "align thread wakeups" promises: the timer threads agree on one    *)
(* base time, which is fixed once, and only when every thread has arrived. *)
(***************************************************************************)
CONSTANTS
  Threads,   \* the timer threads
  Times,     \* the possible times
  NoTime     \* no time yet

VARIABLES
  arrived,   \* the threads that are ready to start
  base,      \* the agreed base time
  taken      \* the base time each thread has taken over

vars == <<arrived, base, taken>>

Init ==
  /\ arrived = {}
  /\ base = NoTime
  /\ taken = [t \in Threads |-> NoTime]

Arrive(t) ==
  /\ t \notin arrived
  /\ arrived' = arrived \cup {t}
  /\ UNCHANGED <<base, taken>>

Agree ==
  /\ arrived = Threads
  /\ base = NoTime
  /\ base' \in Times
  /\ UNCHANGED <<arrived, taken>>

Take(t) ==
  /\ base # NoTime /\ taken[t] = NoTime
  /\ taken' = [taken EXCEPT ![t] = base]
  /\ UNCHANGED <<arrived, base>>

Next == Agree \/ \E t \in Threads : Arrive(t) \/ Take(t)

Spec == Init /\ [][Next]_vars
=============================================================================
