-------------------------- MODULE CyclicTestProofs --------------------------
(***************************************************************************)
(* Safety of the end of a cyclictest run for every number of threads, in   *)
(* every mode and with every option of CyclicTest.                         *)
(***************************************************************************)
EXTENDS CyclicTest, TLAPS

\* threadstarted says how far its thread is: main kills and joins by it.
StartedInv ==
  \A t \in Threads :
    threadstarted[t] = CASE pc[t] = "unborn" -> 0
                         [] pc[t] \in {"setup", "barrier"} -> 1
                         [] pc[t] = "done"   -> -1
                         [] OTHER            -> 2

\* While main creates threads, those before i exist and the others do not.
CreateInv ==
  main = "create" =>
    \A t \in Threads : /\ t < i => t \in live
                       /\ t >= i => pc[t] = "unborn"

\* Once main is at its end, the threads before i are ended and accounted for.
Born(t) == pc[t] # "unborn"

EndInv ==
  /\ main \in {"kill", "join"} =>
       /\ \A t \in Threads : t < i => ~ Running(t)
       /\ quiet # 0 => summary = {t \in Threads : t < i /\ Born(t)}
  /\ main = "join" => i \in Threads
  /\ main \in {"free", "exited"} =>
       /\ \A t \in Threads : ~ Running(t)
       /\ quiet # 0 => summary = {t \in Threads : Born(t)}
  /\ main \in {"create", "display", "usleep", "cond_wait", "woken", "outall"} =>
       summary = {}
  /\ main \in {"kill", "join", "free", "exited", "crashed"} => quiet \in {0, 2}
  /\ \A t \in summary : quiet = 2 /\ ~ Running(t) /\ Born(t)

IInv == TypeOK /\ StatsOutliveThreads /\ StartedInv /\ CreateInv /\ EndInv

LEMMA TestInit == Init => IInv
<1> SUFFICES ASSUME Init PROVE IInv
  OBVIOUS
<1>1. TypeOK
  <2>1. /\ shutdown \in BOOLEAN /\ allstopped \in BOOLEAN /\ waiting \in BOOLEAN
        /\ itimer \in BOOLEAN /\ alarm \in BOOLEAN /\ aligned \in BOOLEAN
    BY Zenon DEF Init
  <2>2. i \in 0..N /\ quiet \in 0..2 /\ max \in [Threads -> 0..MaxMax]
    BY NAssumption DEF Init
  <2>3. QED
    BY <2>1, <2>2 DEF Init, TypeOK
<1>2. QED
  BY <1>1, NAssumption DEF Init, IInv, StatsOutliveThreads, StartedInv, CreateInv,
     EndInv, Running, Threads

Labels ==
  {"setup", "barrier", "loop", "wait", "measure", "decide", "count", "out", "done"}

Level(label) == CASE label = "unborn" -> 0 [] label \in {"setup", "barrier"} -> 1
                  [] label = "done" -> -1 [] OTHER -> 2

\* What a thread does to the variables it shares.
KeepsFlags ==
  shutdown' \in BOOLEAN /\ waiting' \in BOOLEAN /\ itimer' \in BOOLEAN /\ alarm' \in BOOLEAN
KeepsCounts ==
  /\ cycles' \in [Threads -> Nat] /\ max' \in [Threads -> 0..MaxMax]
  /\ break_thread_id' \in Threads \cup {NoThread}

\* main and the options change only together with main's variables.
LEMMA MainKept ==
  ASSUME TypeOK, UNCHANGED <<options, mainvars>>
  PROVE  /\ mode' \in Modes /\ max_cycles' \in MaxCycles
         /\ refresh_on_max' \in BOOLEAN /\ quiet' \in 0..2 /\ aligned' \in BOOLEAN
         /\ allstopped' \in BOOLEAN
         /\ main' \in {"create", "display", "usleep", "cond_wait", "woken", "outall",
                       "kill", "join", "free", "exited", "crashed"}
         /\ i' \in 0..N
         /\ live' \subseteq Threads /\ killed' \subseteq Threads
         /\ joined' \subseteq Threads /\ summary' \subseteq Threads
BY Zenon DEF TypeOK, options, mainvars

LEMMA AllKept ==
  ASSUME TypeOK, UNCHANGED <<options, mainvars, pc, statvars, break_thread_id, timer>>,
         shutdown' \in BOOLEAN, waiting' \in BOOLEAN
  PROVE  TypeOK'
BY MainKept, Zenon DEF TypeOK, statvars, timer

\* A step of a thread that runs takes it to a label, with the threadstarted that
\* belongs to it, and leaves main alone.
LEMMA ThreadKeepsInv ==
  ASSUME IInv, NEW t \in Threads, NEW label \in Labels,
         Running(t), Goto(t, label),
         threadstarted' = [threadstarted EXCEPT ![t] = Level(label)],
         UNCHANGED <<options, mainvars>>, KeepsFlags, KeepsCounts
  PROVE  IInv'
<1>0. TypeOK'
  <2>1. pc' \in [Threads -> {"unborn", "setup", "barrier", "loop", "wait", "measure",
                            "decide", "count", "out", "done"}]
    BY DEF IInv, TypeOK, Goto, Labels
  <2>2. Level(label) \in -1..2
    BY DEF Level
  <2>3. threadstarted' \in [Threads -> -1..2]
    BY <2>2 DEF IInv, TypeOK
  <2>4. QED
    BY <2>1, <2>3, MainKept, Zenon DEF IInv, TypeOK, KeepsFlags, KeepsCounts
<1> USE DEF IInv, TypeOK, Goto, mainvars
<1>1. \A u \in Threads : pc'[u] = IF u = t THEN label ELSE pc[u]
  OBVIOUS
<1>2. \A u \in Threads : Born(u)' <=> Born(u)
  BY <1>1 DEF Born, Running, Labels
<1>3. \A u \in Threads : Running(u)' => Running(u)
  BY <1>1 DEF Running
<1>4. StatsOutliveThreads'
  BY <1>3 DEF StatsOutliveThreads
<1>5. StartedInv'
  <2> SUFFICES ASSUME NEW u \in Threads
               PROVE  threadstarted'[u] = Level(pc'[u])
    BY Zenon DEF StartedInv, Level
  <2>1. threadstarted[u] = Level(pc[u])
    BY Zenon DEF StartedInv, Level
  <2>2. QED
    BY <1>1, <2>1
<1>6. CreateInv'
  BY <1>1 DEF CreateInv, Running
<1>7. EndInv'
  <2>1. \A v \in summary' : v \in Threads /\ quiet' = 2 /\ ~ Running(v)' /\ Born(v)'
    BY <1>2, <1>3 DEF EndInv
  <2>2. main' \in {"kill", "join"} =>
          /\ \A u \in Threads : u < i' => ~ Running(u)'
          /\ quiet' # 0 => summary' = {u \in Threads : u < i' /\ Born(u)'}
    BY <1>2, <1>3 DEF EndInv
  <2>3. main' \in {"free", "exited"} =>
          /\ \A u \in Threads : ~ Running(u)'
          /\ quiet' # 0 => summary' = {u \in Threads : Born(u)'}
    BY <1>2, <1>3 DEF EndInv
  <2>4. QED
    BY <2>1, <2>2, <2>3 DEF EndInv
<1>8. QED
  BY <1>0, <1>4, <1>5, <1>6, <1>7

LEMMA TestNext == IInv /\ [Next]_vars => IInv'
<1> SUFFICES ASSUME IInv, [Next]_vars PROVE IInv'
  OBVIOUS
<1> USE NAssumption DEF IInv, TypeOK, Threads, Goto, options, mainvars, statvars, timer
<1>1. ASSUME Create PROVE IInv'
  <2>1. CASE i = N
    BY <1>1, <2>1 DEF Create, Last, StatsOutliveThreads, StartedInv, CreateInv,
       EndInv, Running, Born
  <2>2. CASE i # N
    <3>1. i \in Threads /\ i + 1 \in 0..N /\ pc[i] = "unborn"
      BY <1>1, <2>2 DEF Create, CreateInv
    <3>2. \A t \in Threads :
            /\ pc'[t] = IF t = i THEN "setup" ELSE pc[t]
            /\ threadstarted'[t] = IF t = i THEN 1 ELSE threadstarted[t]
      BY <1>1, <2>2, <3>1 DEF Create, Last
    <3>3. TypeOK'
      <4>1. live' \subseteq Threads /\ i' \in 0..N /\ main' = "create"
        <5>1. live' = live \cup {i} /\ i' = i + 1 /\ main' = main /\ main = "create"
          BY <1>1, <2>2 DEF Create, Last
        <5>2. QED
          BY <3>1, <5>1
      <4>2. threadstarted' \in [Threads -> -1..2]
        <5>1. threadstarted' = [threadstarted EXCEPT ![i] = 1]
          BY <1>1, <2>2 DEF Create, Last
        <5>2. 1 \in -1..2
          OBVIOUS
        <5>3. QED
          BY <5>1, <5>2, Zenon
      <4>3. pc' \in [Threads -> {"unborn", "setup", "barrier", "loop", "wait",
                                  "measure", "decide", "count", "out", "done"}]
        BY <1>1, <2>2, <3>1 DEF Create, Last
      <4>4. QED
        BY <1>1, <4>1, <4>2, <4>3 DEF Create
    <3>4. StatsOutliveThreads'
      BY <1>1, <2>2, <3>2 DEF Create, Last, StatsOutliveThreads, Running
    <3>5. StartedInv'
      <4> SUFFICES ASSUME NEW t \in Threads
                   PROVE  threadstarted'[t] = Level(pc'[t])
        BY Zenon DEF StartedInv, Level
      <4>1. threadstarted[t] = Level(pc[t])
        BY Zenon DEF StartedInv, Level
      <4>2. QED
        BY <3>2, <4>1 DEF Level
    <3>6. CreateInv'
      BY <1>1, <2>2, <3>1, <3>2 DEF Create, Last, CreateInv
    <3>7. EndInv'
      BY <1>1, <2>2 DEF Create, Last, EndInv
    <3>8. QED
      BY <3>3, <3>4, <3>5, <3>6, <3>7
  <2>3. QED
    BY <2>1, <2>2
<1>2. ASSUME CreateFails \/ Display \/ AfterSleep \/ CondWait \/ Woken \/ OutAll
      PROVE  IInv'
  <2> USE DEF StatsOutliveThreads, StartedInv, CreateInv, EndInv, Running, Born
  <2>1. CASE CreateFails
    BY <2>1 DEF CreateFails
  <2>2. CASE Display
    <3>1. allstopped' \in BOOLEAN
      BY <2>2, Zenon DEF Display
    <3>2. QED
      BY <2>2, <3>1 DEF Display
  <2>3. CASE AfterSleep
    BY <2>3 DEF AfterSleep, StopDisplay
  <2>4. CASE CondWait
    BY <2>4 DEF CondWait
  <2>5. CASE Woken
    BY <2>5 DEF Woken
  <2>6. CASE OutAll
    BY <2>6 DEF OutAll
  <2>7. QED
    BY <1>2, <2>1, <2>2, <2>3, <2>4, <2>5, <2>6
<1>3. ASSUME Kill PROVE IInv'
  <2>1. main' \in {"free", "crashed", "join"} /\ (main' = "join" => i \in Threads)
    BY <1>3 DEF Kill, Last
  <2>2. killed' \subseteq Threads
    BY <1>3 DEF Kill, Last
  <2>3. UNCHANGED <<options, i, quiet, allstopped, live, joined, summary, shutdown, waiting,
                    pc, statvars, break_thread_id, timer>>
    BY <1>3 DEF Kill
  <2>4. TypeOK'
    BY <2>1, <2>2, <2>3
  <2>5. StatsOutliveThreads' /\ StartedInv' /\ CreateInv'
    BY <2>1, <2>3 DEF StatsOutliveThreads, StartedInv, CreateInv, Running
  <2>6. EndInv'
    BY <1>3, <2>1, <2>3 DEF Kill, Last, EndInv, Running, Born
  <2>7. QED
    BY <2>4, <2>5, <2>6
<1>4. ASSUME Join PROVE IInv'
  <2>1. i \in Threads /\ i + 1 \in 0..N /\ main' = "kill" /\ i' = i + 1
    BY <1>4 DEF Join, EndInv
  <2>2. ~ Running(i) /\ (Born(i) <=> threadstarted[i] # 0)
    <3>1. threadstarted[i] = Level(pc[i])
      BY <2>1, Zenon DEF StartedInv, Level
    <3>2. Born(i) <=> threadstarted[i] # 0
      BY <3>1 DEF Level, Born
    <3>3. QED
      BY <1>4, <3>2 DEF Join, JoinReturns, Running, Born
  <2>3. summary' = IF Born(i) /\ quiet # 0 THEN summary \cup {i} ELSE summary
    BY <1>4, <2>2 DEF Join
  <2>4. TypeOK'
    BY <1>4, <2>1 DEF Join
  <2>5. StatsOutliveThreads' /\ StartedInv' /\ CreateInv'
    BY <1>4 DEF Join, StatsOutliveThreads, StartedInv, CreateInv, Running
  <2>6. EndInv'
    <3>1. \A t \in Threads : (Born(t)' <=> Born(t)) /\ (Running(t)' <=> Running(t))
      BY <1>4 DEF Join, Born, Running
    <3>2. \A t \in Threads : t < i + 1 <=> t < i \/ t = i
      BY <2>1
    <3>3. \A t \in Threads : t < i' => ~ Running(t)'
      BY <1>4, <2>1, <2>2, <3>1, <3>2 DEF Join, EndInv
    <3>4. quiet' # 0 => summary' = {t \in Threads : t < i' /\ Born(t)'}
      <4>1. quiet # 0 => summary = {t \in Threads : t < i /\ Born(t)}
        BY <1>4 DEF Join, EndInv
      <4>2. quiet' = quiet
        BY <1>4 DEF Join
      <4>3. QED
        BY <2>1, <2>3, <3>1, <3>2, <4>1, <4>2
    <3>5. \A t \in summary' : quiet' = 2 /\ ~ Running(t)' /\ Born(t)'
      BY <1>4, <2>1, <2>2, <2>3, <3>1 DEF Join, EndInv
    <3>6. quiet' \in {0, 2}
      BY <1>4 DEF Join, EndInv
    <3>7. QED
      BY <2>1, <3>3, <3>4, <3>5, <3>6 DEF EndInv
  <2>7. QED
    BY <2>4, <2>5, <2>6
<1>5. ASSUME Free \/ Signal \/ Expire PROVE IInv'
  <2> USE DEF StatsOutliveThreads, StartedInv, CreateInv, EndInv, Running, Born
  <2>1. CASE Free
    BY <2>1 DEF Free
  <2>2. CASE Signal
    <3>1. shutdown' \in BOOLEAN /\ waiting' \in BOOLEAN
      BY <2>2, Zenon DEF Signal, Signalled
    <3>2. UNCHANGED <<options, mainvars, pc, statvars, break_thread_id, timer>>
      BY <2>2 DEF Signal
    <3>3. TypeOK'
      BY <3>1, <3>2, AllKept
    <3>4. StatsOutliveThreads' /\ StartedInv'
      BY <3>2, Zenon
    <3>5. CreateInv'
      BY <3>2
    <3>6. EndInv'
      BY <3>2
    <3>7. QED
      BY <3>3, <3>4, <3>5, <3>6
  <2>3. CASE Expire
    BY <2>3 DEF Expire
  <2>4. QED
    BY <1>5, <2>1, <2>2, <2>3
<1>6. ASSUME NEW t \in Threads, Thread(t) PROVE IInv'
  <2> USE DEF Running, Labels
  <2>1. threadstarted[t] = Level(pc[t])
    BY Zenon DEF StartedInv, Level
  <2>2. KeepsFlags
    BY <1>6, Zenon DEF Thread, Arrive, Setup, Loop, Wake, Interrupted, Measure, Signalled,
       Decide, Count, Out, KeepsFlags
  <2>3. KeepsCounts
    <3>1. max' \in [Threads -> 0..MaxMax]
      <4>1. \/ UNCHANGED max
            \/ max[t] < MaxMax /\ max' = [max EXCEPT ![t] = @ + 1]
        BY <1>6, Zenon DEF Thread, Arrive, Setup, Loop, Wake, Interrupted, Measure, Decide,
           Count, Out
      <4>2. CASE max[t] < MaxMax /\ max' = [max EXCEPT ![t] = @ + 1]
        <5>1. max[t] \in 0..MaxMax /\ max[t] + 1 \in 0..MaxMax
          BY <4>2
        <5>2. QED
          BY <4>2, <5>1
      <4>3. QED
        BY <4>1, <4>2
    <3>2. cycles' \in [Threads -> Nat]
      <4>1. cycles' = cycles \/ cycles' = [cycles EXCEPT ![t] = @ + 1]
        BY <1>6, Zenon DEF Thread, Arrive, Setup, Loop, Wake, Interrupted, Measure, Decide,
           Count, Out
      <4>2. cycles \in [Threads -> Nat] /\ cycles[t] + 1 \in Nat
        OBVIOUS
      <4>3. [cycles EXCEPT ![t] = @ + 1] \in [Threads -> Nat]
        BY <4>2
      <4>4. QED
        BY <4>1, <4>2, <4>3, Zenon
    <3>3. break_thread_id' = break_thread_id \/ break_thread_id' = t
      BY <1>6, Zenon DEF Thread, Arrive, Setup, Loop, Wake, Interrupted, Measure, Decide,
         Count, Out
    <3>4. QED
      BY <3>1, <3>2, <3>3 DEF KeepsCounts
  <2>4. ASSUME NEW label \in Labels, Goto(t, label), Running(t), Level(label) = Level(pc[t]),
               UNCHANGED <<options, mainvars, threadstarted>>
        PROVE  IInv'
    <3>1. threadstarted' = [threadstarted EXCEPT ![t] = Level(label)]
      BY <2>1, <2>4
    <3>2. QED
      BY <2>2, <2>3, <2>4, <3>1, ThreadKeepsInv
  <2>5. CASE Setup(t)
    <3>1. threadstarted[t] = 1 /\ Running(t)
      BY <2>1, <2>5 DEF Setup, Level
    <3>2. threadstarted' = [threadstarted EXCEPT ![t] = Level("loop")]
      BY <2>5, <3>1 DEF Setup, Level
    <3>3. QED
      BY <2>2, <2>3, <2>5, <3>1, <3>2, ThreadKeepsInv DEF Setup
  <2>6. CASE Out(t)
    <3>1. threadstarted' = [threadstarted EXCEPT ![t] = Level("done")]
      BY <2>6 DEF Out, Level
    <3>2. QED
      BY <2>2, <2>3, <2>6, <3>1, ThreadKeepsInv DEF Out
  <2>7. CASE Arrive(t)
    BY <2>4, <2>7 DEF Arrive, Level
  <2>8. CASE Loop(t)
    BY <2>4, <2>8 DEF Loop, Level
  <2>9. CASE Wake(t) \/ Interrupted(t)
    BY <2>4, <2>9 DEF Wake, Interrupted, Level
  <2>10. CASE Measure(t) \/ Decide(t)
    BY <2>4, <2>10 DEF Measure, Decide, Level
  <2>11. CASE Count(t)
    <3>1. pc' = [pc EXCEPT ![t] = "out"] \/ pc' = [pc EXCEPT ![t] = "loop"]
      BY <2>11 DEF Count
    <3>2. QED
      BY <2>4, <2>11, <3>1 DEF Count, Level
  <2>12. QED
    BY <1>6, <2>5, <2>6, <2>7, <2>8, <2>9, <2>10, <2>11 DEF Thread
<1>7. CASE UNCHANGED vars
  <2>1. TypeOK'
    BY <1>7, AllKept DEF vars
  <2>2. StatsOutliveThreads' /\ StartedInv'
    BY <1>7 DEF vars, StatsOutliveThreads, StartedInv, Running
  <2>3. CreateInv'
    BY <1>7 DEF vars, CreateInv, Running, Born
  <2>4. EndInv'
    BY <1>7 DEF vars, EndInv, Running, Born
  <2>5. QED
    BY <2>1, <2>2, <2>3, <2>4
<1>8. QED
  BY <1>1, <1>2, <1>3, <1>4, <1>5, <1>6, <1>7 DEF Next, MainThread

\* No timer thread ever uses statistics that main has not allocated or has freed,
\* with any number of threads and wherever the creation fails.
THEOREM TestStatsSafe == Spec => []StatsOutliveThreads
<1>1. IInv => StatsOutliveThreads
  BY DEF IInv
<1>2. QED
  BY <1>1, TestInit, TestNext, PTL DEF Spec

\* The summary of a quiet run is printed of threads that have ended, and of all.
THEOREM TestSummaryFinal == Spec => []SummaryIsFinal
<1>1. IInv => SummaryIsFinal
  BY DEF IInv, EndInv, SummaryIsFinal, Born
<1>2. QED
  BY <1>1, TestInit, TestNext, PTL DEF Spec

\* The run is type-correct: main's counter and the threads' states stay in range.
THEOREM TestTypeCorrect == Spec => []TypeOK
<1>1. IInv => TypeOK
  BY DEF IInv
<1>2. QED
  BY <1>1, TestInit, TestNext, PTL DEF Spec
=============================================================================
