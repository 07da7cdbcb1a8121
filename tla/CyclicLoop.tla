----------------------------- MODULE CyclicLoop -----------------------------
(***************************************************************************)
(* The measuring loop of one timer thread of cyclictest (timerthread in    *)
(* examples/posix/cyclictest/cyclictest.c), with its statistics            *)
(* (CyclicStats): it waits for its next period in one of the four modes of *)
(* the program, reads the clock, records how late it is and computes the   *)
(* next period.                                                            *)
(*                                                                         *)
(* Time is a number of ticks.  A tick may pass before any step that has to *)
(* do with time, so the thread may be preempted anywhere that makes a      *)
(* difference; Late bounds how long it stays so.                           *)
(* The timers are the kernel's: an expiry makes the signal pending, or     *)
(* counts as an overrun (POSIX timers) or is lost (the interval timer)     *)
(* when the signal still is.                                               *)
(***************************************************************************)
EXTENDS CyclicStats

CONSTANTS
  Interval,   \* interval, in ticks
  Options,    \* the options the program is run with
  Shifts,     \* how far an aligned start may be from when the thread has it
  Late,       \* bound: the ticks a thread that could run is kept from a step
  TraceLimit, \* tracelimit (--breaktrace); 0 is none
  None        \* no time, or no value

ASSUME IntervalAssumption == Interval \in Nat \ {0}
ASSUME LateAssumption     == Late \in Nat /\ 10 * Late < Word
ASSUME ShiftAssumption    == Shifts \subseteq Int /\ \A d \in Shifts : d >= -Late
ASSUME LimitAssumption    == TraceLimit \in Nat /\ None \notin Int

Modes == {"cyclic", "clock_nanosleep", "sys_nanosleep", "sys_itimer"}

\* How the thread waits; TIMER_ABSTIME; --aligned or --secaligned; --loops and
\* --duration, in ticks, 0 if endless.
ASSUME OptionsAssumption ==
  Options \subseteq [mode : Modes, abstime : BOOLEAN, aligned : BOOLEAN,
                     max_cycles : Nat, duration : Nat]

VARIABLES
  mode, abstime, aligned, max_cycles, duration,
  now, next, stop,      \* the thread's timespecs
  shutdown,
  break_value,          \* break_thread_value
  pc,
  wake,                 \* when a sleep ends
  expiry, pending, overruns, \* the timer: next expiry, signal, expiries missed
  overrun_count,        \* what timer_getoverrun returns
  clock, waited         \* the time; ticks passed since the thread could run

options == <<mode, abstime, aligned, max_cycles, duration>>
locals  == <<now, next, stop>>
breaks  == <<shutdown, break_value>>
timer   == <<expiry, pending, overruns, overrun_count>>
time    == <<clock, waited>>
vars    == <<options, locals, breaks, pc, wake, timer, time, stats>>

HasTimer == mode \in {"cyclic", "sys_itimer"}
Goto(label) == pc' = label /\ waited' = 0
------------------------------------------------------------------------------
\* One of the two ends is chosen, so that the loop is bounded.  Two modes do not
\* look at timermode.
Init ==
  /\ \E o \in Options :
       /\ mode = o.mode /\ abstime = o.abstime /\ aligned = o.aligned
       /\ max_cycles = o.max_cycles /\ duration = o.duration
  /\ mode \in {"sys_nanosleep", "sys_itimer"} => abstime
  /\ (max_cycles = 0) # (duration = 0)
  /\ clock = Late /\ waited = 0
  /\ now = 0 /\ next = 0 /\ stop = None
  /\ shutdown = FALSE /\ break_value = None
  /\ pc = "start"
  /\ wake = 0
  /\ expiry = None /\ pending = FALSE /\ overruns = 0 /\ overrun_count = 0
  /\ StatsInit

(***************************************************************************)
(* The clock and the timers                                                *)
(***************************************************************************)
Sleeping ==
  \/ pc = "sigwait" /\ ~ pending /\ expiry # None
  \/ pc = "sleep" /\ clock < wake

OneShot(e) == None                                  \* a mutant: no it_interval
NextExpiry(e) == e + Interval

Tick ==
  /\ pc \in {"start", "arm", "loop", "sigwait", "relsleep", "sleep", "read"}
  /\ Sleeping \/ waited < Late
  /\ clock' = clock + 1
  /\ waited' = IF Sleeping THEN 0 ELSE waited + 1
  /\ IF expiry = clock + 1
     THEN /\ expiry' = NextExpiry(expiry)
          /\ pending' = TRUE
          /\ overruns' = IF pending THEN overruns + 1 ELSE overruns
     ELSE UNCHANGED <<expiry, pending, overruns>>
  /\ UNCHANGED <<options, locals, breaks, pc, wake, overrun_count, stats>>

(***************************************************************************)
(* timerthread, before its loop                                            *)
(***************************************************************************)
\* now is the time just read or, with an aligned start, one agreed on before, with an
\* offset (CyclicStart).
GetStart ==
  /\ pc = "start"
  /\ \E d \in (IF aligned THEN Shifts ELSE {0}) : now' = clock + d
  /\ next' = now' + Interval
  /\ stop' = IF duration # 0 THEN now' + duration ELSE None
  /\ Goto("arm")
  /\ UNCHANGED <<options, breaks, wake, timer, clock, stats>>

\* timer_settime, whose expiry may already have passed, or setitimer.
Arm ==
  /\ pc = "arm"
  /\ LET first == IF mode = "cyclic" /\ abstime THEN next ELSE clock + Interval
         missed == (clock - first) \div Interval
     IN IF ~ HasTimer
        THEN UNCHANGED <<expiry, pending, overruns>>
        ELSE IF first > clock
        THEN expiry' = first /\ UNCHANGED <<pending, overruns>>
        ELSE /\ pending' = TRUE
             /\ overruns' = missed
             /\ expiry' = first + (missed + 1) * Interval
  /\ Goto("loop")
  /\ UNCHANGED <<options, locals, breaks, wake, overrun_count, clock, stats>>

(***************************************************************************)
(* Waiting for the next period                                             *)
(***************************************************************************)
\* The test of shutdown, and the part of the wait before the call that blocks.
Loop ==
  /\ pc = "loop"
  /\ IF shutdown THEN Goto("out") /\ UNCHANGED <<now, wake>>
     ELSE IF HasTimer THEN Goto("sigwait") /\ UNCHANGED <<now, wake>>
     ELSE IF mode = "clock_nanosleep" /\ abstime
     THEN Goto("sleep") /\ wake' = next /\ UNCHANGED now
     ELSE Goto("relsleep") /\ now' = clock /\ UNCHANGED wake
  /\ UNCHANGED <<options, next, stop, breaks, timer, clock, stats>>

RelSleep ==
  /\ pc = "relsleep"
  /\ wake' = clock + Interval
  /\ Goto("sleep")
  /\ UNCHANGED <<options, locals, breaks, timer, clock, stats>>

SigWait ==
  /\ pc = "sigwait" /\ pending
  /\ pending' = FALSE /\ overruns' = 0
  /\ overrun_count' = IF mode = "cyclic" THEN overruns ELSE 0
  /\ Goto("read")
  /\ UNCHANGED <<options, locals, breaks, wake, expiry, clock, stats>>

WakesEarly == TRUE                                                \* a mutant
SleepIsOver == clock >= wake

Wake ==
  /\ pc = "sleep" /\ SleepIsOver
  /\ next' = IF mode = "clock_nanosleep" /\ abstime THEN next ELSE now + Interval
  /\ Goto("read")
  /\ UNCHANGED <<options, now, stop, breaks, wake, timer, clock, stats>>

\* main's SIGTERM interrupts a sleep, and that ends the loop; sigwait goes on
\* to wait.
Interrupted ==
  /\ shutdown /\ pc = "sleep"
  /\ Goto("out")
  /\ UNCHANGED <<options, locals, breaks, wake, timer, clock, stats>>

ReadClock ==
  /\ pc = "read"
  /\ now' = clock
  /\ Goto("record")
  /\ UNCHANGED <<options, next, stop, breaks, wake, timer, clock, stats>>

(***************************************************************************)
(* Recording the latency                                                   *)
(***************************************************************************)
\* calcdiff in a uint64_t.
Diff == AsUnsigned(now - next)

HitsLimit == TraceLimit # 0 /\ Diff > TraceLimit

Record ==
  /\ pc = "record"
  /\ Store(Diff)
  /\ shutdown' = (shutdown \/ (stop # None /\ now >= stop) \/ HitsLimit)
  /\ break_value' = IF HitsLimit THEN Diff ELSE break_value
  /\ Goto("count")
  /\ UNCHANGED <<options, locals, wake, timer, clock>>

\* A mutant: one period too far.
CatchUpPast(t) ==
  IF now < t THEN t ELSE t + ((now - t) \div Interval + 1) * Interval

\* while (tsgreater(&now, &next)): the first period that is not before now.
CatchUp(t) ==
  IF now <= t THEN t ELSE t + ((now - t - 1) \div Interval + 1) * Interval

Count ==
  /\ pc = "count"
  /\ CountCycle
  /\ next' = CatchUp(next + Interval
               + IF mode = "cyclic" THEN overrun_count * Interval ELSE 0)
  /\ Goto(IF max_cycles # 0 /\ max_cycles = cycles' THEN "out" ELSE "loop")
  /\ UNCHANGED <<options, now, stop, breaks, wake, timer, clock>>

\* timer_delete or setitimer with 0.
Out ==
  /\ pc = "out"
  /\ expiry' = None /\ pending' = FALSE
  /\ Goto("done")
  /\ UNCHANGED <<options, locals, breaks, wake, overruns, overrun_count, clock, stats>>

Thread ==
  \/ GetStart \/ Arm \/ Loop \/ RelSleep \/ SigWait \/ Wake \/ Interrupted
  \/ ReadClock \/ Record \/ Count \/ Out

(***************************************************************************)
(* main                                                                    *)
(***************************************************************************)
\* sighand, or another thread that shuts the program down.
Shutdown ==
  /\ ~ shutdown /\ pc \notin {"out", "done"}
  /\ shutdown' = TRUE
  /\ UNCHANGED <<options, locals, break_value, pc, wake, timer, time, stats>>

Display ==
  /\ PrintStat
  /\ UNCHANGED <<options, locals, breaks, pc, wake, timer, time>>

Terminated == pc = "done" /\ cycles = cyclesread /\ UNCHANGED vars

Next == Tick \/ Thread \/ Shutdown \/ Display \/ Terminated

\* Time passes, and the thread, which the kernel schedules, goes on when it can.
Spec == Init /\ [][Next]_vars /\ WF_vars(Tick) /\ WF_vars(Thread)
------------------------------------------------------------------------------
TypeOK ==
  /\ StatsTypeOK
  /\ mode \in Modes /\ abstime \in BOOLEAN /\ aligned \in BOOLEAN
  /\ now \in Nat /\ next \in Nat /\ stop \in Nat \cup {None}
  /\ shutdown \in BOOLEAN /\ break_value \in Unsigned \cup {None}
  /\ pc \in {"start", "arm", "loop", "sigwait", "relsleep", "sleep", "read",
             "record", "count", "out", "done"}
  /\ wake \in Nat /\ clock \in Nat /\ waited \in 0..Late
  /\ expiry \in Nat \cup {None} /\ pending \in BOOLEAN
  /\ overruns \in Nat /\ overrun_count \in Nat

\* With clock_nanosleep and nanosleep a latency is never negative, however the
\* thread is preempted between its calls, so none wraps around.
NanosleepNeverEarly == ~ HasTimer => NoneWrapped

\* With absolute clock_nanosleep the thread waits for a period of the grid it
\* started on and leaves out only periods that are over: the one it waits for
\* is not before now and less than an interval after it, or exactly one interval
\* if the thread was just in time.
GridKept ==
  mode = "clock_nanosleep" /\ abstime /\ pc = "loop" /\ cycles > 0 =>
    /\ now <= next /\ next <= now + Interval
    /\ next = now + Interval => act = 0
    /\ stop # None => (next - stop + duration) % Interval = 0

\* "send break trace command when latency > USEC"
BreakOnlyAboveLimit == break_value # None => AsLong(break_value) > TraceLimit

\* --loops and --duration end the loop, in each mode and with any scheduling.
LoopEnds == <>(pc = "done")
==============================================================================
