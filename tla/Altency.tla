------------------------------ MODULE Altency -------------------------------
(***************************************************************************)
(* The latency test examples/alchemy/altency.c.  The sampling task waits   *)
(* for its periods and, once a second's worth of samples is taken, stores  *)
(* the results in globals and posts a semaphore; the display task copies   *)
(* and prints them; main waits for a signal and prints the summary.  There *)
(* is no lock.  A test by the kernel (-t 1 and 2) has no sampling task.    *)
(*                                                                         *)
(* A step of a task ends where another task could see the difference: one  *)
(* store or one read of a global.  The kernel's timer keeps the releases:  *)
(* a task that comes late is told how many of them it missed.              *)
(***************************************************************************)
EXTENDS Integers, SequencesExt, FiniteSetsExt

CONSTANTS
  period_ns, ONE_BILLION,
  Half,             \* 2^31: an int32_t is below it
  TEN_MILLIONS,     \* the first value of the minima
  fault_threshold,  \* CONFIG_XENO_DEFAULT_PERIOD
  bucketsize, histogram_size,
  Delays,           \* of a wakeup, and of the reading of the clock after it
  Options,          \* combinations of -f, -b and (any of) -h, -s, -g, with a
                    \* bound each: the periods measured after the warm-up
  MaxSwitches       \* bound: mode switches

ASSUME PeriodAssumption ==
  period_ns \in Nat \ {0} /\ ONE_BILLION \in Nat /\ period_ns <= ONE_BILLION
ASSUME WordAssumption == Half \in Nat /\ Half > 2 * ONE_BILLION /\ TEN_MILLIONS \in 1..Half - 1
ASSUME HistogramAssumption ==
  bucketsize \in Nat \ {0} /\ histogram_size \in Nat \ {0} /\ fault_threshold \in Nat
ASSUME DelaysAssumption == Delays \subseteq {d \in Nat \X Nat : d[1] <= d[2]}
ASSUME OptionsAssumption ==
  Options \subseteq [freeze_max: BOOLEAN, stop_upon_switch: BOOLEAN, need_histo: BOOLEAN,
                     MaxPeriods: Nat]
ASSUME BoundAssumption  == MaxSwitches \in Nat

WARMUP_TIME == 1
nsamples    == ONE_BILLION \div period_ns

VARIABLES
  test_mode, freeze_max, stop_upon_switch,
  need_histo, MaxPeriods,   \* need_histo(): one of -h, -s, -g is given; the bound
  main, finished, divisor, summary,
  dsp, snap, toread,        \* the display task, its copies, those still to make
  smp, local, todo,         \* the sampling task, its variables, stores still to make
  warmup, test_loops, g,    \* g: the globals minjitter to goverrun
  sampling_relaxed, max_relaxed,
  sem, posts,               \* display_sem and its count
  histogram, mem,           \* the three histograms and their memory
  bench,                    \* the kernel's benchmark
  release, clock,           \* the kernel's next release of the sampler; the time
  dts, origin, pended, cut  \* history: latencies since the warm-up, the release
                            \* at its end, snapshots taken, what main found measured

options == <<test_mode, freeze_max, stop_upon_switch, need_histo, MaxPeriods>>
mainv   == <<main, finished, divisor, summary, cut>>
dspv    == <<dsp, snap, toread, pended>>
smpv    == <<smp, local, todo, warmup, test_loops, dts, origin>>
relaxed == <<sampling_relaxed, max_relaxed>>
semv    == <<sem, posts>>
histov  == <<histogram, mem>>
timer   == <<release, clock>>
vars    == <<options, mainv, dspv, smpv, g, relaxed, semv, histov, bench, timer>>

\* What the sampler stores at the end of a period, and the display task copies.
PostFirst ==                                                      \* a mutant
  <<"post", "minjitter", "gminjitter", "maxjitter", "gmaxjitter", "avgjitter", "gavgjitter",
    "goverrun">>
Stores ==
  <<"minjitter", "gminjitter", "maxjitter", "gmaxjitter", "avgjitter", "gavgjitter", "goverrun",
    "post">>
Globals == ToSet(Stores) \ {"post"}
Reads  == <<"minjitter", "gminjitter", "avgjitter", "maxjitter", "gmaxjitter">>

Running == main \notin {"exited", "crashed"}

\* C's conversion to int32_t, and its division.
AsInt(v)    == ((v + Half) % (2 * Half)) - Half
Quot(a, b)  == IF a >= 0 THEN a \div b ELSE -((-a) \div b)
------------------------------------------------------------------------------
Init ==
  /\ test_mode \in {"user", "kernel"}
  /\ \E o \in Options :
       /\ freeze_max = o.freeze_max /\ stop_upon_switch = o.stop_upon_switch
       /\ need_histo = o.need_histo /\ MaxPeriods = o.MaxPeriods
  /\ main = "alloc" /\ finished = FALSE /\ divisor = 1
  /\ summary = [gmin |-> 0, gmax |-> 0, gavg |-> 0]
  /\ dsp = "unborn" /\ snap = [f \in ToSet(Reads) |-> 0] /\ toread = <<>>
  /\ smp = "unborn" /\ todo = <<>> /\ warmup = TRUE /\ test_loops = 0
  /\ local = [count |-> 0, minj |-> 0, maxj |-> 0, sumj |-> 0, overrun |-> 0, dt |-> 0,
              expected_ns |-> 0, old_relaxed |-> 0]
  /\ g = [minjitter |-> 0, maxjitter |-> 0, avgjitter |-> 0, gminjitter |-> TEN_MILLIONS,
          gmaxjitter |-> -TEN_MILLIONS, gavgjitter |-> 0, goverrun |-> 0]
  /\ sampling_relaxed = 0 /\ max_relaxed = 0
  /\ sem = "none" /\ posts = 0 /\ bench = "idle"
  /\ histogram = [k \in {"avg", "min", "max"} |-> [c \in 0..histogram_size - 1 |-> 0]]
  /\ mem = "none"
  /\ release = 0 /\ clock = 0 /\ dts = <<>> /\ origin = 0 /\ pended = 0 /\ cut = -1

(***************************************************************************)
(* latency: the samples of a period                                        *)
(***************************************************************************)
Start ==
  /\ smp = "start" /\ smp' \in {"loop", "ended"}
  /\ UNCHANGED <<options, mainv, dspv, local, todo, warmup, test_loops, dts, origin, g, relaxed,
                 semv, histov, bench, timer>>

LoopTop ==
  /\ smp = "loop" /\ smp' = "wait"
  /\ local' = [local EXCEPT !.minj = TEN_MILLIONS, !.maxj = -TEN_MILLIONS, !.overrun = 0,
                            !.count = 0, !.sumj = 0]
  /\ test_loops' = test_loops + 1
  /\ UNCHANGED <<options, mainv, dspv, todo, warmup, dts, origin, g, relaxed, semv, histov,
                 bench, timer>>

\* Mode switches are put down to a new maximum that is late enough.
Suspect(dt) == dt > local.maxj /\ dt > fault_threshold

AdvanceOne(ov) == period_ns                                       \* a mutant
Advance(ov)    == period_ns + period_ns * ov

\* A wakeup, and all the task does of its own until it looks at finished.  ov is what
\* rt_task_wait_period returns, 0 if it returns no error.
TakeSample(now, ov, dt) ==
  /\ clock' = now /\ release' = release + period_ns * (ov + 1)
  /\ local' = [local EXCEPT
       !.dt = dt, !.maxj = Max({@, dt}), !.minj = Min({@, dt}), !.count = @ + 1,
       !.sumj = AsInt(@ + dt), !.overrun = @ + ov, !.expected_ns = @ + Advance(ov),
       !.old_relaxed = sampling_relaxed]
  /\ max_relaxed' = IF Suspect(dt) THEN max_relaxed + sampling_relaxed - local.old_relaxed
                                   ELSE max_relaxed
  /\ dts' = IF warmup THEN dts ELSE Append(dts, now - release)

Sample ==
  /\ smp = "wait" /\ test_loops <= MaxPeriods
  /\ \E d \in Delays :
       LET ready == Max({release, clock})
           now == ready + d[2]
       IN TakeSample(now, (ready + d[1] - release) \div period_ns,
                     AsInt(now - local.expected_ns))
  /\ smp' = IF freeze_max THEN "freeze" ELSE "check"
  /\ UNCHANGED <<options, mainv, dspv, todo, warmup, test_loops, origin, g, sampling_relaxed,
                 semv, histov, bench>>

\* The timer was stopped: exit().
WaitFails ==
  /\ smp = "wait" /\ main' = "exited"
  /\ UNCHANGED <<options, finished, divisor, summary, cut, dspv, smpv, g, relaxed, semv, histov,
                 bench, timer>>

\* A mode switch of the sampling task, which looks at the count only at the next sample.
sigdebug ==
  /\ smp = "wait"
  /\ \/ /\ stop_upon_switch /\ main' = "exited"
        /\ UNCHANGED sampling_relaxed
     \/ /\ ~ stop_upon_switch /\ sampling_relaxed < MaxSwitches
        /\ sampling_relaxed' = sampling_relaxed + 1
        /\ UNCHANGED main
  /\ UNCHANGED <<options, finished, divisor, summary, cut, dspv, smpv, g, max_relaxed, semv,
                 histov, bench, timer>>

Freeze ==
  /\ smp = "freeze" /\ smp' = "check"
  /\ g' = IF local.dt > g.gmaxjitter /\ ~ (finished \/ warmup)
          THEN [g EXCEPT !.gmaxjitter = local.dt] ELSE g
  /\ UNCHANGED <<options, mainv, dspv, local, todo, warmup, test_loops, dts, origin, relaxed,
                 semv, histov, bench, timer>>

AlsoWarmUp == ~ finished /\ need_histo                            \* a mutant
Recording  == ~ (finished \/ warmup) /\ need_histo

Cell(v) ==
  LET inabs == (IF v >= 0 THEN v ELSE -v) \div bucketsize
  IN IF inabs < histogram_size THEN inabs ELSE histogram_size - 1

\* After a sample comes the next, or the end of the period.
AfterSample ==
  IF local.count < nsamples THEN "wait" ELSE IF warmup THEN "warm" ELSE "check_extremes"

\* The check and the increment are two steps: main may set finished, dump the
\* histograms and free them in between.
CheckSample ==
  /\ smp = "check" /\ smp' = IF Recording THEN "add" ELSE AfterSample
  /\ UNCHANGED <<options, mainv, dspv, local, todo, warmup, test_loops, dts, origin, g, relaxed,
                 semv, histov, bench, timer>>

AddSample ==
  /\ smp = "add" /\ smp' = AfterSample
  /\ histogram' = [histogram EXCEPT !.avg[Cell(local.dt)] = @ + 1]
  /\ UNCHANGED <<options, mainv, dspv, local, todo, warmup, test_loops, dts, origin, g, relaxed,
                 semv, mem, bench, timer>>

(***************************************************************************)
(* latency: the end of a period                                            *)
(***************************************************************************)
CheckExtremes ==
  /\ smp = "check_extremes" /\ smp' = IF Recording THEN "add_extremes" ELSE "store"
  /\ todo' = Stores
  /\ UNCHANGED <<options, mainv, dspv, local, warmup, test_loops, dts, origin, g, relaxed, semv,
                 histov, bench, timer>>

AddExtremes ==
  /\ smp = "add_extremes" /\ smp' = "store"
  /\ histogram' = [histogram EXCEPT !.max[Cell(local.maxj)] = @ + 1,
                                    !.min[Cell(local.minj)] = @ + 1]
  /\ UNCHANGED <<options, mainv, dspv, local, todo, warmup, test_loops, dts, origin, g, relaxed,
                 semv, mem, bench, timer>>

Stored ==
  [minjitter |-> local.minj, gminjitter |-> Min({g.gminjitter, local.minj}),
   maxjitter |-> local.maxj, gmaxjitter |-> Max({g.gmaxjitter, local.maxj}),
   avgjitter |-> Quot(local.sumj, nsamples), gavgjitter |-> g.gavgjitter + g.avgjitter,
   goverrun |-> g.goverrun + local.overrun]

\* A post before the display task has created the semaphore is lost.
Store ==
  /\ smp = "store"
  /\ IF Head(todo) = "post"
     THEN /\ posts' = IF sem = "live" THEN posts + 1 ELSE posts
          /\ UNCHANGED g
     ELSE g' = [g EXCEPT ![Head(todo)] = Stored[Head(todo)]] /\ UNCHANGED posts
  /\ todo' = Tail(todo)
  /\ smp' = IF todo' = <<>> THEN "loop" ELSE "store"
  /\ UNCHANGED <<options, mainv, dspv, local, warmup, test_loops, dts, origin, relaxed, sem,
                 histov, bench, timer>>

LoopsKept  == test_loops                                          \* a mutant
LoopsReset == 0

WarmUpEnds ==
  /\ smp = "warm" /\ smp' = "loop"
  /\ IF test_loops = WARMUP_TIME
     THEN warmup' = FALSE /\ test_loops' = LoopsReset /\ origin' = release
     ELSE UNCHANGED <<warmup, test_loops, origin>>
  /\ UNCHANGED <<options, mainv, dspv, local, todo, dts, g, relaxed, semv, histov, bench, timer>>

Sampler ==
  \/ Start \/ LoopTop \/ Sample \/ WaitFails \/ sigdebug \/ Freeze \/ CheckSample \/ AddSample
  \/ CheckExtremes \/ AddExtremes \/ Store \/ WarmUpEnds

(***************************************************************************)
(* display                                                                 *)
(***************************************************************************)
DisplayFails ==
  /\ dsp = "create" /\ dsp' = "ended"
  /\ UNCHANGED <<options, mainv, snap, toread, pended, smpv, g, relaxed, semv, histov, bench, timer>>

CreateSem ==
  /\ dsp = "create" /\ test_mode = "user"
  /\ sem' = "live" /\ dsp' = "pend"
  /\ UNCHANGED <<options, mainv, snap, toread, pended, smpv, g, relaxed, posts, histov, bench, timer>>

\* Once main has closed the device every ioctl fails.
StartBench ==
  /\ dsp = "create" /\ test_mode = "kernel" /\ bench = "idle"
  /\ bench' = "running" /\ dsp' = "pend"
  /\ UNCHANGED <<options, mainv, snap, toread, pended, smpv, g, relaxed, semv, histov, timer>>

Pend ==
  /\ dsp = "pend" /\ sem = "live" /\ posts > 0
  /\ posts' = posts - 1 /\ pended' = pended + 1
  /\ dsp' = "read" /\ toread' = Reads
  /\ UNCHANGED <<options, mainv, snap, smpv, g, relaxed, sem, histov, bench, timer>>

ReadGlobal ==
  /\ dsp = "read"
  /\ snap' = [snap EXCEPT ![Head(toread)] = g[Head(toread)]]
  /\ toread' = Tail(toread)
  /\ dsp' = IF toread' = <<>> THEN "pend" ELSE "read"
  /\ UNCHANGED <<options, mainv, pended, smpv, g, relaxed, semv, histov, bench, timer>>

\* The semaphore or the benchmark is gone.
DisplayEnds ==
  /\ dsp = "pend" /\ (sem = "deleted" \/ bench = "stopped")
  /\ dsp' = "ended"
  /\ UNCHANGED <<options, mainv, snap, toread, pended, smpv, g, relaxed, semv, histov, bench, timer>>

Display == DisplayFails \/ CreateSem \/ StartBench \/ Pend \/ ReadGlobal \/ DisplayEnds

(***************************************************************************)
(* main                                                                    *)
(***************************************************************************)
\* Without memory main goes to cleanup at once.
Alloc ==
  /\ main = "alloc"
  /\ \/ main' = "display" /\ mem' = "allocated"
     \/ main' = "cleanup" /\ UNCHANGED mem
  /\ UNCHANGED <<options, finished, divisor, summary, cut, dspv, smpv, g, relaxed, semv,
                 histogram, bench, timer>>

\* The device, a task or its affinity cannot be had: return from main.
SetupFails ==
  /\ main \in {"display", "sampling"} /\ main' = "exited"
  /\ UNCHANGED <<options, finished, divisor, summary, cut, dspv, smpv, g, relaxed, semv, histov,
                 bench, timer>>

StartTasks ==
  /\ \/ /\ main = "display" /\ main' = IF test_mode = "user" THEN "sampling" ELSE "sigwait"
        /\ dsp' = "create" /\ UNCHANGED smp
     \/ /\ main = "sampling" /\ main' = "sigwait"
        /\ smp' = "start" /\ UNCHANGED dsp
  /\ UNCHANGED <<options, finished, divisor, summary, cut, snap, toread, pended, local, todo,
                 warmup, test_loops, dts, origin, g, relaxed, semv, histov, bench, timer>>

\* SIGINT, SIGTERM, SIGHUP, or SIGALRM at the end of -T.
Sigwait ==
  /\ main = "sigwait" /\ main' = "cleanup"
  /\ finished' = TRUE
  /\ UNCHANGED <<options, divisor, summary, cut, dspv, smpv, g, relaxed, semv, histov, bench, timer>>

\* Periods whose average is in gavgjitter, and whether the next one is counted.
Measured == Len(dts) \div nsamples
InSum ==
  LET last == /\ Len(dts) > 0 /\ Len(dts) % nsamples = 0
              /\ \/ smp \in {"freeze", "check", "add", "check_extremes", "add_extremes"}
                 \/ /\ smp = "store"
                    /\ "gavgjitter" \in ToSet(todo)
  IN IF last THEN Measured - 1 ELSE Measured
NextCounted ==
  smp # "loop" /\ (smp = "store" => "gavgjitter" \in ToSet(todo))

\* cleanup
StopTest ==
  /\ main = "cleanup"
  /\ IF test_mode = "user"
     THEN /\ main' = "loops"
          /\ sem' = IF sem = "live" THEN "deleted" ELSE sem
          /\ UNCHANGED bench
     ELSE main' = "dump" /\ bench' = "stopped" /\ UNCHANGED sem
  /\ UNCHANGED <<options, finished, divisor, summary, cut, dspv, smpv, g, relaxed, posts, histov, timer>>

CountLoops ==
  /\ main = "loops" /\ main' = "divide"
  /\ divisor' = (IF test_loops > 1 THEN test_loops ELSE 2) - 1
  /\ cut' = IF NextCounted THEN InSum ELSE -1
  /\ UNCHANGED <<options, finished, summary, dspv, smpv, g, relaxed, semv, histov, bench, timer>>

Divide ==
  /\ main = "divide" /\ main' = "copy"
  /\ g' = [g EXCEPT !.gavgjitter = Quot(@, divisor)]
  /\ UNCHANGED <<options, finished, divisor, summary, cut, dspv, smpv, relaxed, semv, histov, bench, timer>>

Copy ==
  /\ main = "copy" /\ main' = "dump"
  /\ summary' = [gmin |-> g.gminjitter, gmax |-> g.gmaxjitter, gavg |-> g.gavgjitter]
  /\ UNCHANGED <<options, finished, divisor, cut, dspv, smpv, g, relaxed, semv, histov, bench, timer>>

\* Histograms that were not allocated are dumped all the same.
Dump ==
  /\ main = "dump"
  /\ main' = IF need_histo /\ mem = "none" THEN "crashed" ELSE "free"
  /\ UNCHANGED <<options, finished, divisor, summary, cut, dspv, smpv, g, relaxed, semv, histov,
                 bench, timer>>

Free ==
  /\ main = "free" /\ main' = "exit"
  /\ mem' = IF mem = "allocated" THEN "freed" ELSE mem
  /\ UNCHANGED <<options, finished, divisor, summary, cut, dspv, smpv, g, relaxed, semv,
                 histogram, bench, timer>>

Exit ==
  /\ main = "exit" /\ main' = "exited"
  /\ UNCHANGED <<options, finished, divisor, summary, cut, dspv, smpv, g, relaxed, semv, histov,
                 bench, timer>>

Main ==
  \/ Alloc \/ SetupFails \/ StartTasks \/ Sigwait \/ StopTest \/ CountLoops \/ Divide \/ Copy
  \/ Dump \/ Free \/ Exit

Terminated == ~ Running /\ UNCHANGED vars

Next == (Running /\ (Main \/ Sampler \/ Display)) \/ Terminated

Spec == Init /\ [][Next]_vars
------------------------------------------------------------------------------
TypeOK ==
  /\ test_mode \in {"user", "kernel"}
  /\ freeze_max \in BOOLEAN /\ stop_upon_switch \in BOOLEAN /\ need_histo \in BOOLEAN
  /\ MaxPeriods \in Nat
  /\ main \in {"alloc", "display", "sampling", "sigwait", "cleanup", "loops", "divide", "copy",
               "dump", "free", "exit", "exited", "crashed"}
  /\ finished \in BOOLEAN /\ divisor \in Nat \ {0}
  /\ summary \in [gmin: Int, gmax: Int, gavg: Int]
  /\ dsp \in {"unborn", "create", "pend", "read", "ended"}
  /\ snap \in [ToSet(Reads) -> Int] /\ toread \in Seq(ToSet(Reads))
  /\ smp \in {"unborn", "start", "loop", "wait", "freeze", "check", "add", "check_extremes",
              "add_extremes", "store", "warm", "ended"}
  /\ todo \in Seq(ToSet(Stores)) /\ warmup \in BOOLEAN /\ test_loops \in Nat
  /\ g \in [Globals -> Int]
  /\ local \in [count: 0..nsamples, minj: -Half..Half - 1, maxj: -Half..Half - 1,
                sumj: -Half..Half - 1, dt: -Half..Half - 1, overrun: Nat, expected_ns: Nat,
                old_relaxed: Nat]
  /\ sampling_relaxed \in Nat /\ max_relaxed \in Nat
  /\ sem \in {"none", "live", "deleted"} /\ posts \in Nat
  /\ histogram \in [{"avg", "min", "max"} -> [0..histogram_size - 1 -> Nat]]
  /\ mem \in {"none", "allocated", "freed"} /\ bench \in {"idle", "running", "stopped"}
  /\ release \in Nat /\ clock \in Nat /\ dts \in Seq(Nat) /\ origin \in Nat
  /\ pended \in Nat /\ cut \in Int

\* The sampler expects each release when the kernel has it, however many it missed
\* and however late it asked, so no latency is negative or counts from the wrong
\* release; and after the warm-up each release was either sampled or counted in the
\* overruns, which are those main prints and those of the period at hand.
ReleasesAccounted ==
  smp = "wait" =>
    /\ local.expected_ns = release
    /\ ~ warmup => release = origin + period_ns * (Len(dts) + g.goverrun + local.overrun)

Until(m)  == SubSeq(dts, 1, m)
Period(j) == SubSeq(dts, (j - 1) * nsamples + 1, j * nsamples)
MinOf(s)  == Min(ToSet(s) \cup {TEN_MILLIONS})
MaxOf(s)  == Max(ToSet(s) \cup {-TEN_MILLIONS})

Total(s) ==
  LET sum[i \in 0..Len(s)] == IF i = 0 THEN 0 ELSE sum[i - 1] + s[i]
  IN sum[Len(s)]
AvgOf(s)  == Total(s) \div nsamples

\* No wakeup and no reading of the clock is so late that a latency does not fit the 32
\* bits of dt: 2.1 seconds in a program that samples every 100 us.
InTime == \A c, d \in Delays : d[2] < Half /\ c[2] - c[1] + d[2] <= Half

\* With no sample two periods late, the 32 bits of sumj hold their sum.
Modest == \A i \in 1..Len(dts) : dts[i] < 2 * period_ns

\* A line of output is never about a period older than the one that was announced; if
\* the sampler has not finished another one meanwhile, all its columns are of that
\* period, and best and worst are those up to it.
ShownFresh ==
  test_mode = "user" /\ dsp = "pend" /\ pended > 0 =>
    \E worst \in pended * nsamples..Len(dts) :
      /\ snap.gmaxjitter = MaxOf(Until(worst))
      /\ \E j \in pended..Measured : snap.minjitter = MinOf(Period(j))
      /\ \E j \in pended..Measured : snap.maxjitter = MaxOf(Period(j))
      /\ \E j \in pended..Measured : snap.gminjitter = MinOf(Until(j * nsamples))
      /\ Modest => \E j \in pended..Measured : snap.avgjitter = AvgOf(Period(j))

\* Wherever the signal finds the sampler, the summary has the mean of the complete
\* periods without the warm-up, and extremes of these and perhaps of samples of the
\* period at hand.  (Left out: a period that ends while main computes, and one whose
\* average is already added while the next is not yet counted.)
SummaryExact ==
  test_mode = "user" /\ main \in {"dump", "free", "exit"} /\ cut = InSum =>
    /\ Modest => summary.gavg =
         IF cut = 0 THEN 0
         ELSE Total([j \in 1..cut |-> AvgOf(Period(j))]) \div cut
    /\ \E m \in cut * nsamples..Len(dts) : summary.gmin = MinOf(Until(m))
    /\ \E m \in cut * nsamples..Len(dts) : summary.gmax = MaxOf(Until(m))

Hits(h) == Total([i \in 1..histogram_size |-> h[i - 1]])
Counts(s) ==
  [c \in 0..histogram_size - 1 |->
     Cardinality({i \in 1..Len(s) :
       IF c < histogram_size - 1 THEN s[i] \in c * bucketsize..(c + 1) * bucketsize - 1
                                 ELSE s[i] >= c * bucketsize})]

\* What main dumps is exact: the histogram of all samples is that of those since the
\* warm-up, without a gap, up to the signal or one after it, and the others are those
\* of the extremes of the periods up to it.
HistogramsExact ==
  LET samples == Hits(histogram.avg)
      periods == Hits(histogram.max)
  IN /\ samples <= Len(dts) /\ periods <= Measured
     /\ need_histo /\ ~ finished =>
          samples >= Len(dts) - 1 /\ periods >= Measured - 1
     /\ histogram.avg = Counts(Until(samples))
     /\ histogram.max = Counts([j \in 1..periods |-> MaxOf(Period(j))])
     /\ histogram.min = Counts([j \in 1..periods |-> MinOf(Period(j))])
==============================================================================
