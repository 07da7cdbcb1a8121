----------------------------- MODULE CyclicTest -----------------------------
(***************************************************************************)
(* The life of a cyclictest run (examples/posix/cyclictest/cyclictest.c):  *)
(* main creates the timer threads, displays their statistics until         *)
(* somebody shuts the run down, then ends, joins and frees the threads.    *)
(*                                                                         *)
(* The run is shut down by a signal, by a latency over the limit of        *)
(* --breaktrace, by --duration or, through main, by --loops.  With         *)
(* --refresh_on_max main waits on a condition variable between two         *)
(* displays; a thread that finds a new maximum and the signal handler      *)
(* signal it, and neither holds the mutex.                                 *)
(*                                                                         *)
(* A thread's measuring is in CyclicLoop; here its outcome is any that     *)
(* changes something the threads share.  The kernel delivers the           *)
(* program's signals to main, between two of its steps.  The run has no    *)
(* histogram, which would take the place of the summary.                   *)
(***************************************************************************)
EXTENDS Integers, FiniteSets

CONSTANTS
  N,          \* num_threads
  MaxMax,     \* bound: how often a thread finds a new maximum
  MaxCycles,  \* the values of max_cycles; 0 is endless
  NoThread    \* no thread

ASSUME NAssumption     == N \in Nat \ {0} /\ MaxMax \in Nat /\ MaxCycles \subseteq Nat
ASSUME NobodyAssumption == NoThread \notin 0..N - 1

Threads == 0..N - 1
Modes   == {"timers", "sys_itimer"}  \* a timer each, or ITIMER_REAL for all

VARIABLES
  mode, max_cycles, refresh_on_max, quiet,  \* the options
  aligned,          \* --aligned or --secaligned
  shutdown,
  main, i,          \* where main is, and its loop counter
  allstopped,
  waiting,          \* main is in pthread_cond_wait
  pc,               \* the place of each timer thread
  threadstarted, cycles, max,  \* of each thread's statistics
  live,             \* the threads whose statistics are allocated
  killed,           \* the threads that got SIGTERM from main
  joined, summary,  \* the threads joined, and those a summary was printed of
  break_thread_id,
  itimer, alarm     \* ITIMER_REAL is armed, SIGALRM is pending

options  == <<mode, max_cycles, refresh_on_max, aligned>>
mainvars == <<main, i, allstopped, quiet, live, killed, joined, summary>>
statvars == <<threadstarted, cycles, max>>
timer    == <<itimer, alarm>>
vars     == <<options, mainvars, shutdown, waiting, pc, statvars, break_thread_id, timer>>

Goto(t, label) == pc' = [pc EXCEPT ![t] = label]
------------------------------------------------------------------------------
Init ==
  /\ mode \in Modes /\ max_cycles \in MaxCycles
  /\ refresh_on_max \in BOOLEAN /\ quiet \in {0, 1} /\ aligned \in BOOLEAN
  /\ shutdown = FALSE
  /\ main = "create" /\ i = 0 /\ allstopped = FALSE /\ waiting = FALSE
  /\ pc = [t \in Threads |-> "unborn"]
  /\ threadstarted = [t \in Threads |-> 0]
  /\ cycles = [t \in Threads |-> 0] /\ max = [t \in Threads |-> 0]
  /\ live = {} /\ killed = {} /\ joined = {} /\ summary = {}
  /\ break_thread_id = NoThread
  /\ itimer = FALSE /\ alarm = FALSE

(***************************************************************************)
(* main: creating the threads                                              *)
(***************************************************************************)
Last(k) == k = N

Create ==
  /\ main = "create"
  /\ IF ~ Last(i)
     THEN /\ live' = live \cup {i}
          /\ threadstarted' = [threadstarted EXCEPT ![i] = 1]
          /\ Goto(i, "setup")
          /\ i' = i + 1
          /\ UNCHANGED main
     ELSE main' = "display" /\ UNCHANGED <<live, threadstarted, pc, i>>
  /\ UNCHANGED <<options, quiet, allstopped, killed, joined, summary, shutdown,
                 waiting, cycles, max, break_thread_id, timer>>

\* The statistics are there but the buffer of values is not: goto outall.
CreateFails ==
  /\ main = "create" /\ i < N
  /\ live' = live \cup {i}
  /\ main' = "outall"
  /\ UNCHANGED <<options, i, quiet, allstopped, killed, joined, summary, shutdown,
                 waiting, pc, statvars, break_thread_id, timer>>

(***************************************************************************)
(* main: the display                                                       *)
(***************************************************************************)
\* The loop's test and its body up to usleep.
Display ==
  /\ main = "display"
  /\ IF shutdown
     THEN main' = "outall" /\ UNCHANGED allstopped
     ELSE /\ main' = "usleep"
          /\ allstopped' = (max_cycles # 0 /\ \E t \in Threads : cycles[t] >= max_cycles)
  /\ UNCHANGED <<options, i, quiet, live, killed, joined, summary, shutdown,
                 waiting, pc, statvars, break_thread_id, timer>>

IgnoresAllStopped == shutdown                                     \* a mutant
StopDisplay == shutdown \/ allstopped

AfterSleep ==
  /\ main = "usleep"
  /\ main' = IF StopDisplay THEN "outall"
             ELSE IF refresh_on_max THEN "cond_wait" ELSE "display"
  /\ UNCHANGED <<options, i, quiet, allstopped, live, killed, joined, summary,
                 shutdown, waiting, pc, statvars, break_thread_id, timer>>

\* pthread_cond_wait, with no predicate around it.
CondWait ==
  /\ main = "cond_wait"
  /\ waiting' = TRUE
  /\ main' = "woken"
  /\ UNCHANGED <<options, i, quiet, allstopped, live, killed, joined, summary,
                 shutdown, pc, statvars, break_thread_id, timer>>

Woken ==
  /\ main = "woken" /\ ~ waiting
  /\ main' = "display"
  /\ UNCHANGED <<options, i, quiet, allstopped, live, killed, joined, summary,
                 shutdown, waiting, pc, statvars, break_thread_id, timer>>

(***************************************************************************)
(* main: the end                                                           *)
(***************************************************************************)
OutAll ==
  /\ main = "outall"
  /\ shutdown' = TRUE
  /\ quiet' = IF quiet # 0 THEN 2 ELSE 0
  /\ i' = 0
  /\ main' = "kill"
  /\ UNCHANGED <<options, allstopped, live, killed, joined, summary, waiting, pc,
                 statvars, break_thread_id, timer>>

\* A statistics block that was never allocated is used all the same.
Kill ==
  /\ main = "kill"
  /\ IF Last(i)
     THEN main' = "free" /\ UNCHANGED killed
     ELSE IF i \notin live THEN main' = "crashed" /\ UNCHANGED killed
     ELSE /\ main' = "join"
          /\ killed' = IF threadstarted[i] > 0 THEN killed \cup {i} ELSE killed
  /\ UNCHANGED <<options, i, quiet, allstopped, live, joined, summary, shutdown,
                 waiting, pc, statvars, break_thread_id, timer>>

JoinNoWait(t) == TRUE                                             \* a mutant
JoinReturns(t) == pc[t] = "done"

Join ==
  /\ main = "join"
  /\ IF threadstarted[i] # 0
     THEN /\ JoinReturns(i)
          /\ joined' = joined \cup {i}
          /\ summary' = IF quiet # 0 THEN summary \cup {i} ELSE summary
     ELSE UNCHANGED <<joined, summary>>
  /\ i' = i + 1
  /\ main' = "kill"
  /\ UNCHANGED <<options, quiet, allstopped, live, killed, shutdown, waiting, pc,
                 statvars, break_thread_id, timer>>

Free ==
  /\ main = "free"
  /\ live' = {}
  /\ main' = "exited"
  /\ UNCHANGED <<options, i, quiet, allstopped, killed, joined, summary, shutdown,
                 waiting, pc, statvars, break_thread_id, timer>>

MainThread ==
  \/ Create \/ Display \/ AfterSleep \/ CondWait \/ Woken
  \/ OutAll \/ Kill \/ Join \/ Free

(***************************************************************************)
(* sighand, for SIGINT and SIGTERM                                         *)
(***************************************************************************)
Signalled == waiting' = (waiting /\ ~ refresh_on_max)

Signal ==
  /\ main \notin {"exited", "crashed"}
  /\ shutdown' = TRUE
  /\ Signalled
  /\ UNCHANGED <<options, mainvars, pc, statvars, break_thread_id, timer>>

(***************************************************************************)
(* timerthread                                                             *)
(***************************************************************************)
\* With an aligned start the threads wait for each other.  The two barriers, and what
\* they agree on between them, are in CyclicStart: here they are one.
Arrive(t) ==
  /\ pc[t] = "setup" /\ aligned
  /\ Goto(t, "barrier")
  /\ UNCHANGED <<options, mainvars, shutdown, waiting, statvars, break_thread_id, timer>>

AllArrived == \A u \in Threads : pc[u] \notin {"unborn", "setup"}

Setup(t) ==
  /\ \/ pc[t] = "setup" /\ ~ aligned
     \/ pc[t] = "barrier" /\ AllArrived
  /\ threadstarted' = [threadstarted EXCEPT ![t] = @ + 1]
  /\ itimer' = (itimer \/ mode = "sys_itimer")
  /\ Goto(t, "loop")
  /\ UNCHANGED <<options, mainvars, shutdown, waiting, cycles, max, break_thread_id, alarm>>

Loop(t) ==
  /\ pc[t] = "loop"
  /\ Goto(t, IF shutdown THEN "out" ELSE "wait")
  /\ UNCHANGED <<options, mainvars, shutdown, waiting, statvars, break_thread_id, timer>>

\* One of the threads in sigwait takes the SIGALRM of the process.
Wake(t) ==
  /\ pc[t] = "wait"
  /\ mode = "sys_itimer" => alarm
  /\ alarm' = FALSE
  /\ Goto(t, "measure")
  /\ UNCHANGED <<options, mainvars, shutdown, waiting, statvars, break_thread_id, itimer>>

\* SIGTERM runs sighand in the thread; a sleep it interrupts ends the loop.
Interrupted(t) ==
  /\ t \in killed /\ pc[t] = "wait" /\ mode = "timers"
  /\ Goto(t, "out")
  /\ UNCHANGED <<options, mainvars, shutdown, waiting, statvars, break_thread_id, timer>>

\* A new maximum is signalled as soon as it is found...
Measure(t) ==
  /\ pc[t] = "measure"
  /\ \/ /\ max[t] < MaxMax
        /\ max' = [max EXCEPT ![t] = @ + 1]
        /\ Signalled
     \/ UNCHANGED <<max, waiting>>
  /\ Goto(t, "decide")
  /\ UNCHANGED <<options, mainvars, shutdown, threadstarted, cycles, break_thread_id, timer>>

\* ...and only then the end of the duration or the limit shuts the run down.
Decide(t) ==
  /\ pc[t] = "decide"
  /\ \/ UNCHANGED <<shutdown, break_thread_id>>
     \/ shutdown' = TRUE /\ UNCHANGED break_thread_id
     \/ /\ shutdown' = TRUE
        /\ break_thread_id' = IF break_thread_id = NoThread THEN t ELSE break_thread_id
  /\ Goto(t, "count")
  /\ UNCHANGED <<options, mainvars, waiting, statvars, timer>>

\* cycles is counted only for --loops, to keep it bounded.
Count(t) ==
  /\ pc[t] = "count"
  /\ cycles' = IF max_cycles = 0 THEN cycles ELSE [cycles EXCEPT ![t] = @ + 1]
  /\ Goto(t, IF max_cycles # 0 /\ max_cycles = cycles'[t] THEN "out" ELSE "loop")
  /\ UNCHANGED <<options, mainvars, shutdown, waiting, threadstarted, max, break_thread_id, timer>>

\* The first thread to leave disarms the interval timer of them all.
Out(t) ==
  /\ pc[t] = "out"
  /\ itimer' = FALSE
  /\ threadstarted' = [threadstarted EXCEPT ![t] = -1]
  /\ Goto(t, "done")
  /\ UNCHANGED <<options, mainvars, shutdown, waiting, cycles, max, break_thread_id, alarm>>

Thread(t) ==
  /\ main # "exited" /\ main # "crashed"
  /\ \/ Arrive(t) \/ Setup(t) \/ Loop(t) \/ Wake(t) \/ Interrupted(t)
     \/ Measure(t) \/ Decide(t) \/ Count(t) \/ Out(t)

Expire ==
  /\ itimer /\ main # "exited" /\ main # "crashed"
  /\ alarm' = TRUE
  /\ UNCHANGED <<options, mainvars, shutdown, waiting, pc, statvars, break_thread_id, itimer>>

Next == MainThread \/ CreateFails \/ Signal \/ Expire \/ \E t \in Threads : Thread(t)

\* main and the threads are scheduled, and an armed timer expires.  Nobody has to
\* send a signal, and no latency has to be large.
Fairness == WF_vars(MainThread) /\ WF_vars(Expire) /\ \A t \in Threads : WF_vars(Thread(t))

Spec == Init /\ [][Next]_vars /\ Fairness
------------------------------------------------------------------------------
TypeOK ==
  /\ mode \in Modes /\ max_cycles \in MaxCycles
  /\ refresh_on_max \in BOOLEAN /\ quiet \in 0..2 /\ aligned \in BOOLEAN
  /\ shutdown \in BOOLEAN /\ allstopped \in BOOLEAN /\ waiting \in BOOLEAN
  /\ main \in {"create", "display", "usleep", "cond_wait", "woken", "outall",
               "kill", "join", "free", "exited", "crashed"}
  /\ i \in 0..N
  /\ pc \in [Threads -> {"unborn", "setup", "barrier", "loop", "wait", "measure",
                         "decide", "count", "out", "done"}]
  /\ threadstarted \in [Threads -> -1..2]
  /\ cycles \in [Threads -> Nat] /\ max \in [Threads -> 0..MaxMax]
  /\ live \subseteq Threads /\ killed \subseteq Threads
  /\ joined \subseteq Threads /\ summary \subseteq Threads
  /\ break_thread_id \in Threads \cup {NoThread}
  /\ itimer \in BOOLEAN /\ alarm \in BOOLEAN

\* No timer thread runs on statistics that are not allocated, before they are or
\* after main has freed them.
Running(t) == pc[t] \notin {"unborn", "done"}

StatsOutliveThreads == \A t \in Threads : Running(t) => t \in live

\* "print only a summary on exit": the lines of a quiet run are printed once no
\* thread can change them, and when main returns every thread has its line.
SummaryIsFinal ==
  /\ \A t \in summary : quiet = 2 /\ ~ Running(t)
  /\ main = "exited" /\ quiet # 0 => summary = {t \in Threads : pc[t] # "unborn"}

\* A run that is shut down, or a thread of which has done its loops, ends; not
\* with --refresh_on_max, nor with one interval timer for several threads, nor if
\* main gives up creating threads while those it has wait for the others to arrive.
Over == main \in {"exited", "crashed"}
LoopsDone == max_cycles # 0 /\ \E t \in Threads : pc[t] = "done" /\ cycles[t] = max_cycles

Stranded ==
  main = "join" /\ pc[i] = "barrier" /\ \E t \in Threads : pc[t] = "unborn"

TestEnds ==
  (~ refresh_on_max /\ (mode = "timers" \/ N = 1) /\ (shutdown \/ LoopsDone))
    ~> Over \/ Stranded

\* "--loops: number of loops", "--duration: length for the test run": also with
\* --refresh_on_max the run is over when its threads are.
RefreshOnMaxEnds ==
  (refresh_on_max /\ main # "create" /\ \A t \in Threads : pc[t] = "done") ~> Over
==============================================================================
