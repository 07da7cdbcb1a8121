----------------------------- MODULE CyclicStart -----------------------------
(***************************************************************************)
(* The start of cyclictest's timer threads (examples/posix/cyclictest/     *)
(* cyclictest.c): main creates them one after the other; with --aligned    *)
(* and --secaligned they meet at two barriers, between which thread 0      *)
(* reads the clock into globalt for all of them.                           *)
(*                                                                         *)
(* A barrier is the count-down of struct thread_barrier with its mutex and *)
(* condition variable: a critical section is one step, and a thread that   *)
(* waits is in "asleep" until a broadcast moves it to "awake".  Time is    *)
(* counted in ticks, Second of them to a second.  offset is an int, and so *)
(* is its product with a thread's number; a time's tv_nsec has 64 bits.    *)
(***************************************************************************)
EXTENDS Integers

CONSTANTS
  N,         \* num_threads
  Second,    \* ticks of a second, a multiple of 10
  Half,      \* an int goes from -Half to Half - 1, in ticks
  Offsets,   \* the values of offset, in ticks
  MinClock,  \* the earliest time the program is started,
  MaxClock,  \* bound: the clock stops there
  NoTime     \* no time read yet

ASSUME NAssumption      == N \in Nat \ {0}
ASSUME SecondAssumption == Second \in Nat \ {0} /\ Second % 10 = 0
ASSUME HalfAssumption   == Half \in Nat \ {0}
ASSUME OffsetAssumption == Offsets \subseteq (-Half)..(Half - 1)
ASSUME ClockAssumption  == MinClock \in Nat /\ MaxClock \in Nat
ASSUME NoTimeAssumption == NoTime \notin Int

Threads  == 0..(N - 1)
Clocks   == MinClock..MaxClock
Ints     == (-Half)..(Half - 1)
Barriers == {"globalt_barr", "align_barr"}
Labels   == Barriers \cup {"unborn", "clock", "now", "loop"}

VARIABLES
  mode,      \* "plain" | "aligned" | "secaligned"
  offset,
  main,      \* "create" | "loop" | "outall" | "exited"
  created,   \* how many threads main has created
  pc,        \* the place of each timer thread
  count,     \* of each barrier
  asleep, awake, \* the threads in each barrier's condition variable
  clock,
  globalt,   \* the common start time
  readAt,    \* when thread 0 read the clock for it
  now        \* each thread's start time

config  == <<mode, offset>>
barrier == <<count, asleep, awake>>
times   == <<globalt, readAt, now>>
vars    == <<config, main, created, pc, barrier, clock, times>>

Goto(t, label) == pc' = [pc EXCEPT ![t] = label]

\* The threads that have taken the barrier's mutex and wait for the others.
Inside(b) == asleep[b] \cup awake[b]
------------------------------------------------------------------------------
Init ==
  /\ mode \in {"plain", "aligned", "secaligned"} /\ offset \in Offsets
  /\ main = "create" /\ created = 0
  /\ pc = [t \in Threads |-> "unborn"]
  /\ count = [b \in Barriers |-> N]
  /\ asleep = [b \in Barriers |-> {}] /\ awake = [b \in Barriers |-> {}]
  /\ clock \in Clocks
  /\ globalt = NoTime /\ readAt = NoTime
  /\ now = [t \in Threads |-> NoTime]

Tick ==
  /\ main # "exited" /\ clock < MaxClock
  /\ clock' = clock + 1
  /\ UNCHANGED <<config, main, created, pc, barrier, times>>

(***************************************************************************)
(* main                                                                    *)
(***************************************************************************)
Create ==
  /\ main = "create" /\ created < N
  /\ created' = created + 1
  /\ Goto(created, IF mode = "plain" THEN "now" ELSE "globalt_barr")
  /\ UNCHANGED <<config, main, barrier, clock, times>>

AllCreated ==
  /\ main = "create" /\ created = N
  /\ main' = "loop"
  /\ UNCHANGED <<config, created, pc, barrier, clock, times>>

\* The buffer of values cannot be allocated: goto outall.
CreateFails ==
  /\ main = "create" /\ created < N
  /\ main' = "outall"
  /\ UNCHANGED <<config, created, pc, barrier, clock, times>>

\* A thread that still has to set its priority.
SetsPriority(t) ==
  \/ mode = "plain" /\ pc[t] = "now"
  \/ pc[t] = "globalt_barr" /\ t \notin Inside("globalt_barr")

\* fatal(), called by main or by a thread that cannot set its priority.
Fatal ==
  /\ main # "exited"
  /\ main = "create" \/ \E t \in Threads : SetsPriority(t)
  /\ main' = "exited"
  /\ UNCHANGED <<config, created, pc, barrier, clock, times>>

(***************************************************************************)
(* barrier_wait                                                            *)
(***************************************************************************)
\* Where a thread goes from each barrier: thread 0 reads the clock in between.
After(b, t) ==
  IF b = "align_barr" THEN "now" ELSE IF t = 0 THEN "clock" ELSE "align_barr"

\* A mutant: one arrival too many is not waited for.
EnterShort(b, t) ==
  /\ pc[t] = b /\ t \notin Inside(b)
  /\ count' = [count EXCEPT ![b] = @ - 1]
  /\ awake' = [awake EXCEPT ![b] = @ \cup asleep[b]]
  /\ IF count[b] > 2
     THEN asleep' = [asleep EXCEPT ![b] = {t}] /\ UNCHANGED pc
     ELSE asleep' = [asleep EXCEPT ![b] = {}] /\ Goto(t, After(b, t))
  /\ UNCHANGED <<config, main, created, clock, times>>

\* A mutant: the last thread wakes nobody.
EnterSilently(b, t) ==
  /\ pc[t] = b /\ t \notin Inside(b)
  /\ count' = [count EXCEPT ![b] = @ - 1]
  /\ IF count[b] > 1
     THEN asleep' = [asleep EXCEPT ![b] = @ \cup {t}] /\ UNCHANGED pc
     ELSE Goto(t, After(b, t)) /\ UNCHANGED asleep
  /\ UNCHANGED <<config, main, created, clock, times, awake>>

\* The last of N arrivals goes through; each arrival broadcasts.  No thread finds
\* the count at 0: that takes N arrivals, and each thread arrives once.
Enter(b, t) ==
  /\ pc[t] = b /\ t \notin Inside(b)
  /\ count[b] > 0
  /\ count' = [count EXCEPT ![b] = @ - 1]
  /\ awake' = [awake EXCEPT ![b] = @ \cup asleep[b]]
  /\ IF count[b] > 1
     THEN asleep' = [asleep EXCEPT ![b] = {t}] /\ UNCHANGED pc
     ELSE asleep' = [asleep EXCEPT ![b] = {}] /\ Goto(t, After(b, t))
  /\ UNCHANGED <<config, main, created, clock, times>>

\* The loop around pthread_cond_wait.
Recheck(b, t) ==
  /\ pc[t] = b /\ t \in awake[b]
  /\ awake' = [awake EXCEPT ![b] = @ \ {t}]
  /\ IF count[b] > 0
     THEN asleep' = [asleep EXCEPT ![b] = @ \cup {t}] /\ UNCHANGED pc
     ELSE Goto(t, After(b, t)) /\ UNCHANGED asleep
  /\ UNCHANGED <<config, main, created, clock, count, times>>

(***************************************************************************)
(* timerthread, around and after the barriers                              *)
(***************************************************************************)
\* A mutant: always the next full second.
NextSecond(c) == (c \div Second + 1) * Second

\* The next full second, or the one after if less than 100 ms are left.
FullSecond(c) ==
  (c \div Second + IF (c % Second) * 10 > 9 * Second THEN 2 ELSE 1) * Second

ReadClock ==
  /\ pc[0] = "clock"
  /\ readAt' = clock
  /\ globalt' = IF mode = "secaligned" THEN FullSecond(clock) ELSE clock
  /\ Goto(0, "align_barr")
  /\ UNCHANGED <<config, main, created, barrier, clock, now>>

\* A product of ints, cut to the width of an int.
AsInt(x) == ((x + Half) % (2 * Half)) - Half

\* A mutant: the offset is not multiplied.
SameShift(t) == offset

Shift(t) == IF mode = "aligned" THEN AsInt(offset * t) ELSE offset

TakeNow(t) ==
  /\ pc[t] = "now"
  /\ now' = [now EXCEPT ![t] = IF mode = "plain" THEN clock ELSE globalt + Shift(t)]
  /\ Goto(t, "loop")
  /\ UNCHANGED <<config, main, created, barrier, clock, globalt, readAt>>

Thread(t) ==
  /\ main # "exited"
  /\ \/ \E b \in Barriers : Enter(b, t) \/ Recheck(b, t)
     \/ t = 0 /\ ReadClock
     \/ TakeNow(t)

MainThread == Create \/ AllCreated \/ CreateFails

Next == Tick \/ MainThread \/ Fatal \/ \E t \in Threads : Thread(t)

\* Every thread that can run is scheduled; nothing has to fail.
Fairness == WF_vars(MainThread) /\ \A t \in Threads : WF_vars(Thread(t))

Spec == Init /\ [][Next]_vars /\ Fairness
------------------------------------------------------------------------------
TypeOK ==
  /\ mode \in {"plain", "aligned", "secaligned"} /\ offset \in Offsets
  /\ main \in {"create", "loop", "outall", "exited"} /\ created \in 0..N
  /\ pc \in [Threads -> Labels]
  /\ count \in [Barriers -> 0..N]
  /\ asleep \in [Barriers -> SUBSET Threads]
  /\ awake \in [Barriers -> SUBSET Threads]
  /\ clock \in Clocks
  /\ globalt \in Nat \cup {NoTime} /\ readAt \in Clocks \cup {NoTime}
  /\ now \in [Threads -> Int \cup {NoTime}]

\* "align thread wakeups to a specific offset": whatever order the threads run
\* in, thread t starts t offsets after thread 0, if that distance is an int; with
\* --secaligned they all start at the same time.
StartsAligned ==
  \A s, t \in Threads :
    now[s] # NoTime /\ now[t] # NoTime =>
      /\ mode = "aligned" /\ {offset * s, offset * t} \subseteq Ints =>
           now[t] - now[s] = offset * (t - s)
      /\ mode = "secaligned" => now[t] = now[s]

\* "Ensure that the thread start timestamp is not in the past": the full second
\* chosen leaves at least 100 ms, and at most 1.1 s, from the reading.
StartsInTime ==
  mode = "secaligned" /\ globalt # NoTime =>
    /\ globalt % Second = 0
    /\ 10 * (globalt - readAt) >= Second
    /\ 10 * (globalt - readAt) < 11 * Second

\* Nobody goes past the second barrier before the common time is there.
NoneTakesTooEarly ==
  mode # "plain" /\ (\E t \in Threads : pc[t] \in {"now", "loop"}) =>
    globalt # NoTime /\ readAt # NoTime

\* If nothing fails, every thread gets into its loop.
EverythingStarts ==
  (main = "loop") ~> ((\A t \in Threads : pc[t] = "loop") \/ main = "exited")

(***************************************************************************)
(* The start implements the promise of AlignedStart, when it is asked for. *)
(***************************************************************************)
\* The threads that have come to the first barrier, or beyond.
Arrived ==
  {t \in Threads : /\ pc[t] # "unborn"
                   /\ pc[t] = "globalt_barr" => t \in Inside("globalt_barr")}

Promise ==
  INSTANCE AlignedStart WITH
    Threads <- Threads,
    Times   <- Nat,
    arrived <- Arrived,
    base    <- globalt,
    taken   <- [t \in Threads |-> IF now[t] = NoTime THEN NoTime ELSE globalt]

\* The base time is agreed on once, when every thread has come to the first
\* barrier, and each thread takes it over once and only then.
PromiseSpec == Promise!Spec
==============================================================================
