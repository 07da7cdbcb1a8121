# A verification development for cmake_xenomai

The repository gives Xenomai a CMake interface: a bootstrap source that is linked into applications, a
CMake package with a macro that sets up targets, a script that installs it, and, as examples, the demo and
test programs of Xenomai built with it. This directory holds TLA+ models of those parts, the TLC
configurations that check them on small instances, and theorems about them with proofs for TLAPS.
`PROJECT.json` lists the runs, the lines of code each definition stands for, the hazards and the theorems.

```
tlc -config MCCyclicLoop.cfg MCCyclicLoop      # one run
tlapm CyclicLoopProofs.tla                     # the proofs of one module
```

## 1. The system

Paths are relative to the repository. Every program of the examples is on its own; the programs share the
bootstrap, which runs before their `main`, and the CMake macro, which decides how it is linked.

### 1.1 Bootstrap header: `config/bootstrap-template.h`

*State.* Per image (executable or shared library) a static `early_args` (argc and argv); in the constructor
a descriptor, two heap blocks, a buffer whose length doubles.
*Operations.* The constructor `xenomai_bootstrap`, which gets the vector from glibc or from
`/proc/self/cmdline` (`_xenomai_init_fetchargv`); `call_xenomai_init`; `xenomai_bootstrap_getargv`; the main
wrapper `xenomai_main`.
*Interaction.* The loader calls the constructors, a library's before the executable's; `main`, wrapped or
not, asks one image for the vector; `xenomai_init` (outside) takes its options out of it.
*Hard.* Every call of the fetch may fail; the failure is silent and left to the wrapper; the buffer may just
fit; two images each have their own state.
*Correct if* main gets the reduced vector whenever the image it asks was initialised, the vector is the
command line whatever its length, nothing leaks on any path, and the wrapper initialises exactly once.

### 1.2 cyclictest: `examples/posix/cyclictest/cyclictest.c`

The largest program. Its parts:

- **Start.** `main` creates the timer threads; with `--aligned` and `--secaligned` they meet at two barriers
  made of a mutex, a condition variable and a count (`globalt_barr`, `align_barr`); between them thread 0
  reads the clock into `globalt`. *Hard:* arrivals and wakeups in any order, a failure in the middle.
  *Correct if* nobody uses `globalt` before it is set, everybody starts at the promised distance, everybody
  starts.
- **Measuring loop.** `timerthread` waits for its next period in one of four ways (POSIX timer,
  `clock_nanosleep` absolute or relative, `nanosleep`, interval timer), reads the clock, records the
  difference and computes the next period. *Hard:* preemption between any two of these, expiries while a
  signal is pending, a difference that is negative and stored in a `uint64_t`. *Correct if* it never counts a
  latency that was not there, stays on its grid, and ends.
- **Statistics.** `struct thread_stat`: extremes, histogram with overflows and outliers, a ring of values.
  The thread writes, `main` reads (`print_stat`), without a lock. *Correct if* histogram, extremes and
  output lines are those of the latencies recorded.
- **Life of a run.** `main` creates, displays, waits (with `--refresh_on_max` on a condition variable), and
  at the end kills, joins, prints the summary and frees; a signal handler, a thread over `--breaktrace`, a
  thread at the end of `--duration` or `main`'s own look at `--loops` shut it down. *Hard:* a shutdown at any
  point, a signal nobody waits for. *Correct if* nothing is freed under a thread and the run ends.
- **Options.** `process_options` and `parse_time_string`, `parse_cpumask`, `handlepolicy`: some forty
  switches with dependencies between them.
- **Tracing.** `setup_tracer`, `tracing`, and the saved kernel variables (`setkernvar`, `restorekernvars`).
- **fifo thread and SIGUSR1**, which print the statistics on request while the run goes on.
- Helpers: `error.c`, `rt-utils.c`, `rt-sched.h`, `rt_numa.h`.

### 1.3 gpiopwm: `examples/posix/cobalt/gpiopwm.c`

Three threads, one PWM device, two semaphores, SIGINT. The init thread starts and stops the device, the
control thread (sweep, manual or UDP) changes its duty cycle. *Correct if* the device is changed only while
it runs, is stopped before `main` returns, the sweep covers its range, and each way of ending it ends it.

### 1.4 The other programs

| Program | State and threads | Hard | Correct if |
| --- | --- | --- | --- |
| `examples/posix/cobalt/can-rtt.c` | transmitter, receiver, a message queue, two sockets, counters | lost frames, foreign frames, full queue, the handler at any step, a setup of seven steps that may fail | each round trip measured is that of the frame sent last, each report is about its own frames, a failed setup leaves nothing, a signal ends it |
| `examples/alchemy/cobalt/cross-link.c` | two tasks, two serial lines, flags | check-then-close by tasks, main and handler; descriptors given out again; flags changed by load and store | a close hits its own line; in the end all is closed and gone |
| `examples/alchemy/altency.c` | sampling task, display task, semaphore, globals, histograms | unlocked snapshots, missed releases, a signal at any place of a period | lines are about complete periods, summary and histograms are exact, no release is lost |
| `xddp-*`, `iddp-*`, `bufp-*` in `examples/posix/cobalt` | two or three threads per program over an RTIPC protocol | any order of binding, opening and lookup; threads that wait for each other's echo | what was sent is received, in order; a lookup waits; a signal ends it |
| `examples/posix/cobalt/eth_p_all.c` | one loop | nothing | (prints) |

### 1.5 CMake and scripts

| Part | State | Hard | Correct if |
| --- | --- | --- | --- |
| macro `xenomai_target_bootstrap` (`config/xenomai-macros.cmake.in`) | sources, definitions, libraries of a target | combinations of MAIN, MAIN_WRAP, MODE, old CMake | exactly one main, one constructor per target |
| `xenomai-targets.cmake.in`, `xenomai-config*.cmake.in` | the imported targets | included twice, or both flavours | all targets are defined or none; a second inclusion does nothing |
| `config/install_cmakeconfig.sh` | options, variables it expands | nested references, relative paths, missing values | each placeholder is replaced by the value meant |
| `config_template/create_template.sh` | none | | (text substitution) |
| `cmake/modules/FindXenomai.cmake` | cache variables | | (superseded; CMake's search decides) |
| `patchset/`, build files, `test/` | none | | |

## 2. Plan

Done, in the order it was done: gpiopwm, the bootstrap, the start, the loop with its statistics, and the life
of a run of cyclictest; then CanRtt, Altency, RtIpc and CrossLink; then the proofs of section 5. What is left,
most important first:

1. **CyclicTest** with the fifo thread and SIGUSR1, which read the statistics while main frees them;
   **KernelVariables**: what `setup_tracer` saves, sets and restores.
2. **CyclicOptions**: `process_options` as a fold over a command line, and its invariants against what
   **CyclicStart**, **CyclicLoop** and **CyclicTest** assume of the options.
3. **TargetBootstrap**: the macro as a function from arguments to sources, definitions and libraries,
   checked against the promise of its documentation over all arguments; **ImportTargets**: guard and inclusion
   in every order; **InstallConfig**: the script's option loop and expansion of variables.

## 3. The modules

`MCx` instantiates module `x` for TLC and defines its constants' values. Definitions named *a mutant* are
not part of a model: each is a plausible error in the definition below it, and replacing that definition by
it must break a property.

**Bootstrap.** `pc` walks through the constructors of the images present, one action per system call or loop
turn (`Open`, `MallocList`, `Read`, `Count`, `MallocVector`, `Fill`), each of which may fail where the code
tests for it; `CallInit`, then `xenomai_main` or `main`. `Read` takes what fits and doubles the buffer as the
code does; `Count` and `Fill` are the two passes over the bytes. `early` is `early_args`, empty when argc is 0.
A string is a sequence of numbers, because what is checked is where one ends; what `xenomai_init` drops is any
string that begins with the byte `Option`.

**CyclicStart**, implementing **AlignedStart**. `main` creates the threads; a thread in `Enter` takes the
barrier's mutex, counts down and broadcasts, then waits; `Recheck` is the loop around `pthread_cond_wait`. A
critical section is one step because the code holds the mutex from its first to its last line;
`pthread_cond_wait` gives the mutex up, so the thread is then in `asleep`, and in `awake` after a broadcast.
`ReadClock` is thread 0 between the barriers, `TakeNow` the computation of its start: the offset times the thread's
number is a product of ints and cut to their width (`AsInt`), the time it is added to has 64 bits. `AlignedStart` is the
promise: one base time, agreed on once, when all have arrived.

**CyclicStats** holds `struct thread_stat` and the reader. `Store` is everything the thread writes up to
the increment of `cycles`, `CountCycle` the increment, and `PrintStat` one turn of `print_stat`'s loop, so the
reader may run between the two. The fields are C's: `Word` values, `AsLong` and `AsUnsigned` convert as C does.
`samples` is a history variable.

**CyclicLoop** adds the loop to it. `pc` names the calls between which a tick may pass: computing the start,
arming the timer, testing `shutdown`, `sigwait`, the start of a relative sleep, the sleep, reading the clock.
`Tick` moves the clock and the kernel's timer: an expiry makes the signal pending or counts as an overrun when
it still is. `Record` and `Count` are compositions with `Store` and `CountCycle`. `CatchUp` is the loop
`while (tsgreater(&now, &next))` in closed form. With an aligned start (`aligned`) the start time is not the thread's clock
but one that CyclicStart agreed on: `Shifts` says how far off it may be, ahead or behind by no more than a delay.
`Options` is the set of option records a run is made with; a `TraceLimit` of 0 is a run without `--breaktrace`.

**CyclicTest** is the run around the loops: `Create`, `Display`, `AfterSleep`, `CondWait`, `Woken`, `OutAll`,
`Kill`, `Join`, `Free` are `main`; `Signal` is `sighand`; the threads go through the loop with an arbitrary
outcome of each measurement, since what they measure is CyclicLoop's. With `aligned` a thread is in "barrier" until
all have come (`Arrive`, `AllArrived`); the two barriers themselves are CyclicStart's. `main`'s `crashed` is the dereference of a
null pointer after a failed allocation (`goto outall` from the middle of the creation).

**GpioPwm** has one program counter per thread. `Ctrl` is one of the three control threads, `handler` says
which; actions they share (`WaitSetup`, `ChangeDuty`, `PostSynch`) are one action. `SemSync` is the retry on
EINTR. An ioctl whose result the code checks may fail.

**CanRtt**, implementing **RoundTrip**. `main` names the next step of the setup, or of its undoing
(`OnFailure` is the label each step goes to), or of the end; `tx` and `rx` are the two threads, one action per
call or per write to a variable the other reads (`rxcount`, `txcount`). `bus` and `rxqueue` are frames on their
way and received; `Lose` and `Arrive` are the bus and other programs, whose identifiers the receiver's filter
tells apart by ten bits; `strays` counts those that pass it though they are others'. A call on a socket or on the
queue fails when it is closed, and may fail besides (`SendFails`, `RxFails`, `ReceiveFails`). A frame is the time it
carries. `rtts` is a history of the round trips. RoundTrip is the promise on which the figures rest: the next frame
leaves when as many are back as were sent, and what comes back was sent, or is a stray.

**Altency.** The sampler's turn is `Sample` up to its first look at `finished`, then one action for each look at
and each store to something shared (`Stores` lists the stores of a period's end in their order), so the display
task (`ReadGlobal`, one global at a time) and main (`StopTest` to `Free`) may run between any two. `release` is
the kernel's timer: a wakeup may be so late that releases are missed, and the clock may be read later still.
`sumj`, `dt` are int32_t, by `AsInt`. A history keeps all latencies since the warm-up.

**RtIpc.** A program is a record of the calls each thread makes, once and then in a loop; `Step` is the call a
thread is at. The seven records are the seven programs, and the actions (`Bind`, `Lookup`, `Send`, `Recv`, ...)
are what they share. The protocols are outside the repository; they are modelled as the programs and their
comments use them: a bind registers the label set before it, a lookup waits for it, a pipe or a number needs the
other side to be bound. A message is a range of numbered bytes.

**CrossLink.** `Setup` is the list of main's calls, with the changes of `write_state` and `read_state` in two
halves. `frames` is the stack of running calls of `cleanup_all` in main's thread: main's own, and those of the
handler of SIGINT and of SIGTERM, which may interrupt each other. `file` says what is behind each descriptor;
`open` takes the lowest free one.

**Proofs.** `XProofs` has the theorems about module `X`; those about CyclicStats are in `CyclicLoopProofs`, which
carries them over to the running loop, and those about GpioPwm and RtIpc in `CobaltProofs`, which is why RtIpc's
definitions are named apart (`IpcInit`, `IpcNext`, `IpcSpec`). What a theorem says of every value of the constants, a run of section 4
says of a few, so that a formula is known to hold somewhere before its proof is begun.

## 4. The runs

Every run covers its model completely; the bounds below are all there are.

| Run | Asks | Bounds |
| --- | --- | --- |
| bootstrap | the vector, leaks and initialisation with one or two images, each call failing or not | `FirstLen` 3: command lines of up to three strings, of 0 to 2 bytes each, that are shorter than, equal to and longer than a buffer once or several times doubled |
| cyclic_start | alignment, the full second, the barriers' promise, that everybody starts | 3 threads: one is last, one is woken, one is still on its way; a second of 20 ticks of which the run sees the last 4, so both choices of the full second occur; `Half` 8: offsets of either sign that fit an int with every thread's number, and one (5) that does not with the last's |
| cyclic_loop | statistics, lines, negative latencies, the grid, the end | interval 2, delays of up to 2 ticks at each step, so that several steps' delays skip periods; 2 cells and as many outliers, a ring of 2 and lines of 2 latencies; every mode with 2 loops or endless and 3 ticks or endless, and `clock_nanosleep` with 4 loops, which fills the ring twice, makes two lines, has unread values beside read ones, and has more overflows than outliers are kept; a start time on the clock or, aligned, one tick ahead of it; no `--breaktrace`, so that only `--loops`, `--duration` or a signal ends the loop; `Word` 64, more than any difference in the run; `MinInit` 9, which some latencies reach and others do not |
| cyclic_break | finding (section 6) | a POSIX timer with absolute times, delays of up to 3 ticks, `TraceLimit` 3, a ring of 1, the start time on the clock |
| cyclic_test | order of join, print and free; the end | 2 threads: the first and the last to leave differ; 2 loops or endless; with and without an aligned start; 1 new maximum for each thread |
| cyclic_refresh | finding | as above |
| gpiopwm | use of the device, range, both ends, return, interruption | duty cycles 0 to 7; steps 0 (which is clamped), 2, 3 (which does not divide 7), 9 (more than the range) |
| gpiopwm_udp | finding | as above |
| can_rtt | round trips, reports, failed setup, the end | three frames and a clock of 2: each report of three, the reports before and after a full queue (`MaxMsg` 1); `counts_per_sec` 0, 1 and 2; two other programs, whose frames the filter refuses and takes, and one stray frame, at any time and of any age |
| altency | releases, lines, summary, histograms | periods of two samples, two periods with mode switches ending the test, or one with histograms and `-f`; wakeups in time, or one release late and read only after the next, so that two of them are more than `sumj` holds (`Half` 9) |
| rtipc | order, lookups, that messages arrive, the end | messages of two bytes, an endpoint that holds two, three messages, so a sender waits |
| cross_link | descriptors, cleanup | two descriptors, as many as are needed; three signals, of which two at a time |

`CHECK_DEADLOCK FALSE` is set for CanRtt, where the bounded bus and clock stop, and where a program whose frame
is lost, or to which a stray was counted, waits for good (`Stuck`), and for RtIpc, which ends; for CyclicStart, where threads that wait in a barrier when the creation has failed
and the bounded clock really stop, and for CyclicTest, where the run ends, and where the ways of waiting for
good that the code has (section 6) would otherwise end the check; the liveness properties say where it must not
stop. The others have a `Terminated` step or, for CrossLink, `Paused`, and any other stop is an error.

*Properties.* Each is stated in words above its definition. The ones that take several actors to break:
`PromiseSpec`, `EverythingStarts` (a lost or a surplus wakeup at a barrier), `ReportsAreMaxima`
(the reader between the thread's two steps; once the ring has been lapped nothing is promised, and `lapped`
records that), `StatsOutliveThreads`, `SummaryIsFinal`, `TestEnds`, `DutyOnlyWhileRunning`, `CleanReturn`.
`SummaryExact`, `ShownFresh`, `HistogramsExact` (a signal or the display between two stores of the sampler),
`ReportsExact` and `OneAtATime` (two threads, main, the bus), `OwnLine` and `CleansUp` (two handlers, main and
two tasks). `GridKept`, `ReleasesAccounted` and `NanosleepNeverEarly` relate the clock at one step with `next` computed several steps earlier.

*Fairness.* Weak fairness of each thread: they are kernel threads that are scheduled when they can run (in
gpiopwm at SCHED_FIFO priorities). Weak fairness of `Tick` and `Expire`: time passes and an armed timer
expires. Nothing is assumed of signals from outside, of input or of datagrams, nor of failures. In CyclicTest
weak fairness of a thread does not force it to find a maximum or a large latency, nor to end by duration.
In CyclicStart `Tick` needs none. In CanRtt nothing is assumed of the bus, so a lost frame stays lost; in
CrossLink nothing of the tasks. In RtIpc the threads are scheduled, and a thread that main has cancelled ends in
its next call, each of which is a cancellation point.

*Left out of the models.* Memory order: the accesses of `thread_stat`, `shutdown` and `allstopped` are taken in
program order, though they are plain variables. Spurious wakeups of `pthread_cond_wait` (the barriers' loop
would absorb them). In CyclicLoop the cost of one turn is only the delays. In Altency no wakeup comes before its release.
In Bootstrap the heap is a set, so `NoLeak` sees what is left and not what is freed twice. In CyclicTest signals are delivered to
`main`'s thread, as in CanRtt and CrossLink, and the histogram, which replaces the summary, is off; in CyclicStats it is on.

## 5. What is proved

Each theorem is for every value of the constants that satisfies the module's assumptions, which say that
numbers are naturals or within their type's range and that model values are not numbers. Two say more:
`LateAssumption` of CyclicLoop, that ten times the delay at a step is below `Word`, that is, no thread is kept from
one step for some 58 years of nanoseconds; and `OthersAssumption` of CanRtt, that the other programs have other
identifiers, which is what the program's head asks for (nothing is assumed of the filter's bits). Some properties and
theorems have conditions of their own: `StartsAligned` is about threads whose distance from thread 0 is an int,
`ConcurrentTestsKeptApart` about identifiers the filter tells apart, and `InTime` is explained below.

- **CobaltProofs**, first about GpioPwm: `TypeOK`, `DutyOnlyWhileRunning`, `SweepInRange`, `ShownIsApplied`, `CleanReturn`. None is
  inductive: that the control thread runs in its loop says nothing of the device by itself. `TokenInv` follows the
  tokens: `setup` is posted only after START, `synch` only when the control thread is at its end, and the init
  thread gets past `synch` only by that token. `ThreadInv` is the same for the joins.
  Then about RtIpc: `IpcTypes`, `LookupWaits` and `InOrder`, for messages of every length, endpoints of every size and any
  number of messages. What is left of a thread's program is always one of a few sequences of calls, listed for each of the
  seven programs (`TurnsOf`), so that a thread at a call is known to have made the ones before it. `NamesInv` says what
  that means for labels: what is registered is bound, and who connects has looked up what was registered. `InOrder`
  looks at what is under way as one line from the receiver back to the sender. `FlowInv` says that its bytes are those
  sent, in their order: a send appends to the line, and every other call only moves a border between two of its parts
  (received, queued, held by the regular thread, on its way to it), which does not change the whole. `LineInv` says the
  same of messages, where each call moves whole ones; `EchoInv` that xddp-echo has one message on the line
  while it waits, and none when it sends.
- **CyclicStartProofs**: `TypeOK`, `NoneTakesTooEarly`, `StartsInTime`, `StartsAligned`, that a barrier's count is
  above 0 whenever a thread arrives, and that CyclicStart implements AlignedStart. The invariant says what the
  count means (`CountInv`: it is the number of threads that have still to come) and what it is to be past a barrier
  (`PastInv`: its count is 0). So a thread past the second barrier knows that thread 0 has come there too, and
  thread 0 comes there with the time set (`ClockInv`). `NowInv` says what each thread made of it, and `AsIntIsInt` that
the width of an int changes no offset that fits. The refinement maps the arrival at the first barrier to
  `Arrive`, `ReadClock` to `Agree` and `TakeNow` to `Take`; all other steps stutter.
- **CyclicLoopProofs**, first about the statistics: `HistogramExact`, `ExtremesExact` and `ReportsAreMaxima`. The
  missing link of the first two is `CountInv`, which says that `cycles` is the length of `samples` except between
  the two steps of the thread; then one more latency enlarges exactly the sets of cycles it belongs to
  (`CyclesGrow`), and the k-th outlier has k - 1 overflows before it. For the third, `ReportInv` says that what main
  has not read is still in the ring (no two unread cycles have the same place in it, `SlotsDiffer`), and that
  `redmax` and `cycleofmax` are right for the group main is in the middle of.
  Then that CyclicLoop implements CyclicStats, from which these results carry over to the running loop in every
  mode; `TypeOK`; `NanosleepNeverEarly` and `GridKept`. `SleepInv` says at each place of
  the loop how far the clock is from `next` and from the end of the sleep: it starts a turn at most two delays
  after `next`, so it records a difference between 0 and five delays. `GridInv` says that `next` is a whole number of
  intervals from the start; `CatchUpFirst` that the catch-up adds whole intervals and stops at the first that is
  not before now.
- **CyclicTestProofs**: `TypeOK`, `StatsOutliveThreads`, `SummaryIsFinal`. `StartedInv` connects `threadstarted`
  with the thread's place, which is what `main` decides by; `EndInv` that all threads before main's counter have
  ended and have their line.

- **BootstrapProofs**: `TypeOK`, `InBounds`, `VectorIsCommandLine`, `NoLeak`, `MainSeesReduced`, `WrapperInitialises`,
  for every command line and every length of the first buffer. `Layout` says where the strings of a command line
  end in its bytes, and `CmdlineLayout` that every command line has such ends; `FetchInv` then places each pass: it is
  one byte behind the end of the last string it has seen, and the next NUL it finds is the next end. `MemoryInv`
  says what is held at each place, `ImageInv` what an image has in `early_args`, namely the reduced vector
  if it was initialised. That `early_args` with argc 0 means an image not initialised holds because the program's
  name is never an option (`NameIsLeft`).
- **CanRttProofs**: `TypeOK`, `FailureUndoesAll`, `ReportsExact`, `OneAtATime`, that CanRtt implements RoundTrip, and
  `ConcurrentTestsKeptApart`, that without strays no frame is counted that was not sent.
  `SetupInv` is what is open at each step of the setup and at each label of its undoing. `FlightInv` counts the
  frames on the bus, in the socket's buffer and in the receiver's hands: with those received they are never more than were sent and
  strayed in, and the transmitter is at its next frame only when no fewer were counted than were sent. So unless a
  stray passed the filter a frame the receiver takes is the last one sent. `StatsInv` says that while the queue is open the statistics are about `rtts`, and that every
  report is printed, queued or about to be posted; the sum of a report is kept as the sum since the first, by the
  lemma that one more round trip adds itself to the sum, unless it is the first (`TotalGrows`).
- **CrossLinkProofs**: `TypeOK`, `OwnLine`: no close hits the other line, and a task works on its own unless a signal
  came during the setup, after which it may work on the other's. Main, tasks and handlers close by a check and a later store, so the flags
  alone do not say what a descriptor is. `BeforeRead` says that until the reader's line is opened, the writer's is
  closed only by a cleanup that is still to clear the flag; so when `open` gives the reader the number the writer
  had (`Shared`), the flag is cleared, or a cleanup in progress is past its check. That the number is the
  lowest free one is in the model because of this: the proof uses that a descriptor given out was closed.
- **AltencyProofs**: `TypeOK` and `ReleasesAccounted`, for every delay; `ShownFresh`, `SummaryExact` and
  `HistogramsExact` under the hypothesis `InTime` (below). The argument has a version of the data for each global: `Done(f)`
  is the number of periods whose store to `f` is done, which while the sampler is at its stores is one more for
  the fields it has passed (`PlaceInv` says that what is left of them is an end of `Stores`). `GlobalsInv` says
  that each global is right for its own `Done`; `SnapInv`, that a global the display has copied was right for
  some number of periods, not below that announced, although the five numbers may differ.
  `SummaryInv` does the same for main between the division and the end: `cut` is the number of periods it divided by,
  and the sum it divided is that of so many averages, unless a period ended in between. In `HistogramInv` each
  histogram holds a beginning of the latencies, or of the periods' extremes, and one more element changes one cell
  (`CountsOfAppend`).

*The hypothesis InTime.* dt and minj are int32_t: a latency of more than 2.1 seconds, in a program that samples every 100
microseconds, is stored as another number, and no column is then that of the latencies. `InTime` is stated about the
delays of the model; MCAltency satisfies it, and TLC evaluates it there. `Modest`, inside the properties, is about `sumj`,
which overflows much sooner; the run has behaviours on both sides of it.

*Induction.* What a recursive function computes on a sequence is proved here by the least counterexample: the set of
lengths for which a statement fails has a least element (`LeastNatural`, from the well-foundedness of `<` on the
naturals, a theorem without operator parameters), which is not 0 and whose predecessor does not fail. This works for functions
`f[k \in 0..Len(s)]`, so `Total`, `Cmdline` and `Reduced` are written as such; a fold of the
community modules, or a theorem of the library that takes an operator, could not be used.

Of the properties proved, `TypeOK` of every module but CyclicLoop, `NoneTakesTooEarly` (which `PromiseSpec` implies) and
`ShownIsApplied` are not part of a run.

*Only model-checked:* the liveness properties (`ReachesMain`, `EverythingStarts`, `LoopEnds`, `TestEnds`,
`SweepReachesBothEnds`, `SweepAndManualComplete`, `InterruptEndsSweep`, `SignalEndsRun`, `MessagesArrive`,
`SignalEnds`, `CleansUp`), since TLAPS proves neither liveness under fairness nor statements
with ENABLED. Every safety property of a run, invariant, action property or refinement, has a theorem.

## 6. Where code and documentation differ

Each has a run that finds the counterexample.

- **cyclic_break**: the help says that `-b` sends the break command "when latency > USEC" (`cyclictest.c:1038`). With
  a POSIX timer a thread that is preempted after `sigwait` for more than a period skips, in the catch-up loop, a
  period whose signal is already pending; the next turn measures a time before `next`, and the negative difference
  is, as `uint64_t`, above every limit. (With an aligned start that is ahead of the clock and a relative timer, `-r`,
  the first expiry is before `next` already, with the same effect; the run keeps the start time on the clock so as
  to show that no option is needed.)
- **cyclic_refresh**: the help gives `-D` and `-l` as the length of a run (lines 1045 and 1058). With
  `--refresh_on_max` main waits for a signal that the threads send for a new maximum and not when they end.
- **gpiopwm_udp**: "wait for completion" (`gpiopwm.c:186`): the UDP thread, when the driver refuses a duty cycle,
  leaves without posting the semaphore the other two post.

A fourth disagreement has no run of its own. can-rtt's head says that "concurrent tests can be carried out by starting
the program with different message identifiers" (`can-rtt.c:30-31`), and a comment that "we only want to receive our
own messages" (line 259), but the filter's mask is `0x3ff` (261): the eleventh bit of an identifier, and all but ten of
an extended one, are not looked at. Tests with the identifiers 0x1 and 0x401 count and measure each other's frames
(`OwnFramesOnly` fails), and since a counted stray makes `rxcount` differ from `txcount` for good, the transmitter sends no
more. MCCanRtt has such identifiers, so what the run shows holds with them; `ConcurrentTestsKeptApart` is the promise for
identifiers that differ in the ten bits.

The hazards without a property, each with the reason, are in `PROJECT.json`: among them `--system` with several
threads, where the first thread to leave disarms the timer of all (CyclicTest has it, and `TestEnds` leaves that
combination out: no document promises an end), and the failed allocation in the middle of the creation, after which main uses statistics that are not there or, if
it was the last thread's and the start is aligned, waits for threads that wait for that one (`Stranded`). Others
are met in the programs modelled last, none against a document: a signal before can-rtt's message queue is there
is lost, and main waits for good (`CanRtt`, `caught = "open_mq"`); a repeater joins a thread that was never created,
and a cycle of more than a second divides by zero; altency's mean is wrong when a period ends while main divides
(`SummaryExact` leaves that out by `cut`), and its summary overflows beyond some two periods' latency (`Modest`);
cross-link's handler prints that main exits, after which main goes on with closed descriptors or waits in `pause()`;
and its reader ends at the first timeout, because it looks for `-ETIMEDOUT` where `ioctl()` returns -1.

## 7. What is not modelled

Section 2 lists what is still to be modelled. Of the programs modelled: altency's options and the results of the
kernel's benchmark, the bytes and time stamps on cross-link's lines, the pools and buffer sizes of the RTIPC
protocols (an endpoint holds `Room` messages). Not to be modelled: `eth_p_all.c` and the cyclictest helpers (they
keep no state), `create_template.sh` and the patches (text), `FindXenomai.cmake` (its result is that of CMake's
search), the build files, and the texts the programs print.
