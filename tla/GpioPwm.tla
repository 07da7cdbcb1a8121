------------------------------- MODULE GpioPwm -------------------------------
(***************************************************************************)
(* The servo controller examples/posix/cobalt/gpiopwm.c.  Three threads    *)
(* share one PWM device and two semaphores:                                *)
(*                                                                         *)
(*   Main  creates the control thread, then the init thread, joins both    *)
(*         and closes the device;                                          *)
(*   Pwm   configures and starts the device, posts "setup", waits for      *)
(*         "synch" and stops the device;                                   *)
(*   Ctrl  waits for "setup", then changes the duty cycle until it is told *)
(*         to end, and (in two of its three forms) posts "synch".          *)
(*                                                                         *)
(* Ctrl is gpiopwm_sweep_ctrl_thread, gpiopwm_manual_ctrl_thread or        *)
(* gpiopwm_udp_ctrl_thread, picked by the command line.  The driver is     *)
(* outside the repository: an ioctl whose result is checked may fail.      *)
(***************************************************************************)
EXTENDS Integers

CONSTANTS
  MaxDuty,      \* MAX_DUTY_CYCLE; MIN_DUTY_CYCLE is 0
  StepArgs      \* values atoi() may return for the argument of --sweep

ASSUME DutyAssumption == MaxDuty \in Nat \ {0}
ASSUME StepAssumption == StepArgs \subseteq Int

MinDuty == 0
Duties  == MinDuty..MaxDuty
TooBig  == MaxDuty + 1        \* stands for every value the driver refuses

VARIABLES
  handler,      \* which control thread the options chose
  step,         \* the sweep's increment
  stop,         \* set by the SIGINT handler
  setup, synch, \* the counts of the two semaphores
  x, direction, \* Ctrl's locals: the next duty cycle, the sweep's direction
  shown,        \* config.duty_cycle, what print_config prints
  applied,      \* the duty cycle the device was last given
  pwm,          \* the device: "idle" | "running" | "stopped"
  dev,          \* the descriptor: "open" | "closed"
  pc            \* where each thread is

options == <<handler, step>>
sems    == <<setup, synch>>
locals  == <<x, direction>>
device  == <<shown, applied, pwm, dev>>
vars    == <<options, stop, sems, locals, device, pc>>

Main == "main"
Pwm  == "pwm"
Ctrl == "ctrl"
Threads == {Main, Pwm, Ctrl}

Labels ==
  {"unborn", "create_ctrl", "create_pwm", "join_pwm", "join_ctrl", "close"} \cup
  {"config", "start", "post", "sync", "halt", "alloc", "setup", "loop"} \cup
  {"ioctl", "sleep", "done", "exited"}

At(t, label)   == pc[t] = label
Goto(t, label) == pc' = [pc EXCEPT ![t] = label]

\* error(), fail() and an uncaught SIGINT end the process, every thread of it.
Exit   == pc' = [t \in Threads |-> "exited"]
Exited == At(Main, "exited")
------------------------------------------------------------------------------
\* The argument of --sweep: step = step < 1 ? 1 : step.
ParseStep(arg) == IF arg < 1 THEN 1 ELSE arg

Init ==
  /\ handler \in {"sweep", "manual", "udp"}
  /\ \E arg \in StepArgs : step = ParseStep(arg)
  /\ stop = FALSE
  /\ setup = 0 /\ synch = 0
  /\ x = MinDuty /\ direction = "fwd"
  /\ shown \in Duties /\ applied = shown
  /\ pwm = "idle" /\ dev = "open"
  /\ pc = [t \in Threads |-> IF t = Main THEN "create_ctrl" ELSE "unborn"]

(***************************************************************************)
(* main, from the first pthread_create on                                  *)
(***************************************************************************)
CreateCtrl ==
  /\ At(Main, "create_ctrl")
  /\ pc' = [pc EXCEPT ![Main] = "create_pwm",
                      ![Ctrl] = IF handler = "manual" THEN "alloc" ELSE "setup"]
  /\ UNCHANGED <<options, stop, sems, locals, device>>

CreatePwm ==
  /\ At(Main, "create_pwm")
  /\ \/ pc' = [pc EXCEPT ![Main] = "join_pwm", ![Pwm] = "config"]
     \/ Exit
  /\ UNCHANGED <<options, stop, sems, locals, device>>

\* A mutant: main does not wait for the thread.
JoinNoWait(t, from, to) ==
  /\ At(Main, from)
  /\ Goto(Main, to)
  /\ UNCHANGED <<options, stop, sems, locals, device>>

Join(t, from, to) ==
  /\ At(Main, from) /\ At(t, "done")
  /\ Goto(Main, to)
  /\ UNCHANGED <<options, stop, sems, locals, device>>

Close ==
  /\ At(Main, "close")
  /\ dev' = "closed"
  /\ Goto(Main, "done")
  /\ UNCHANGED <<options, stop, sems, locals, shown, applied, pwm>>

MainThread ==
  \/ CreateCtrl
  \/ CreatePwm
  \/ Join(Pwm, "join_pwm", "join_ctrl")
  \/ Join(Ctrl, "join_ctrl", "close")
  \/ Close

(***************************************************************************)
(* gpiopwm_init_thread                                                     *)
(***************************************************************************)
SetConfig ==
  /\ At(Pwm, "config")
  /\ Goto(Pwm, "start") \/ Exit
  /\ UNCHANGED <<options, stop, sems, locals, device>>

Start ==
  /\ At(Pwm, "start")
  /\ pwm' = "running"
  /\ Goto(Pwm, "post")
  /\ UNCHANGED <<options, stop, sems, locals, shown, applied, dev>>

PostSetup ==
  /\ At(Pwm, "post")
  /\ setup' = setup + 1
  /\ Goto(Pwm, "sync")
  /\ UNCHANGED <<options, stop, synch, locals, device>>

\* A mutant: an interrupted sem_wait returns without a token.
SemSyncNoRetry(sem) == sem' = IF sem > 0 THEN sem - 1 ELSE sem

\* sem_sync: sem_wait, again whenever a signal interrupts it.
SemSync(sem) == sem > 0 /\ sem' = sem - 1

WaitSynch ==
  /\ At(Pwm, "sync")
  /\ SemSync(synch)
  /\ Goto(Pwm, "halt")
  /\ UNCHANGED <<options, stop, setup, locals, device>>

Stop ==
  /\ At(Pwm, "halt")
  /\ pwm' = "stopped"
  /\ Goto(Pwm, "done")
  /\ UNCHANGED <<options, stop, sems, locals, shown, applied, dev>>

InitThread == SetConfig \/ Start \/ PostSetup \/ WaitSynch \/ Stop

(***************************************************************************)
(* What the three control threads share                                    *)
(***************************************************************************)
WaitSetup ==
  /\ At(Ctrl, "setup")
  /\ SemSync(setup)
  /\ Goto(Ctrl, "loop")
  /\ UNCHANGED <<options, stop, synch, locals, device>>

LoopExitSilent == "done"                                          \* a mutant

\* Where a thread goes when it breaks out of its loop: the UDP thread returns
\* without the sem_post(&synch) of the two others.
LoopExit == IF handler = "udp" THEN "done" ELSE "post"

ChangeDutyFails ==
  /\ At(Ctrl, "ioctl")
  /\ Goto(Ctrl, LoopExit)
  /\ UNCHANGED <<options, stop, sems, locals, device>>

\* The sweep does not record the duty cycle in config.
ShownAfter(duty) == IF handler = "sweep" THEN shown ELSE duty

ChangeDuty ==
  /\ At(Ctrl, "ioctl")
  /\ x # TooBig
  /\ applied' = x
  /\ shown' = ShownAfter(x)
  /\ Goto(Ctrl, IF handler = "sweep" THEN "sleep" ELSE "loop")
  /\ UNCHANGED <<options, stop, sems, locals, pwm, dev>>

PostSynch ==
  /\ At(Ctrl, "post")
  /\ synch' = synch + 1
  /\ Goto(Ctrl, "done")
  /\ UNCHANGED <<options, stop, setup, locals, device>>

(***************************************************************************)
(* gpiopwm_sweep_ctrl_thread                                               *)
(***************************************************************************)
SweepTest ==
  /\ handler = "sweep" /\ At(Ctrl, "loop")
  /\ Goto(Ctrl, IF stop THEN LoopExit ELSE "ioctl")
  /\ UNCHANGED <<options, stop, sems, locals, device>>

\* Mutants: the bound forgets the step; the turn forgets to go to the end.
SweepStepOverruns ==
  IF direction = "fwd"
  THEN IF x < MaxDuty THEN <<x + step, "fwd">> ELSE <<MaxDuty, "bck">>
  ELSE IF x > MinDuty THEN <<x - step, "bck">> ELSE <<MinDuty, "fwd">>

SweepStepTurnsEarly ==
  IF direction = "fwd"
  THEN IF x + (step - 1) < MaxDuty THEN <<x + step, "fwd">> ELSE <<x, "bck">>
  ELSE IF x - (step - 1) > MinDuty THEN <<x - step, "bck">> ELSE <<x, "fwd">>

\* The position and direction after a nap; each turn is made at the very end.
SweepStep ==
  IF direction = "fwd"
  THEN IF x + (step - 1) < MaxDuty THEN <<x + step, "fwd">> ELSE <<MaxDuty, "bck">>
  ELSE IF x - (step - 1) > MinDuty THEN <<x - step, "bck">> ELSE <<MinDuty, "fwd">>

SweepMove ==
  /\ At(Ctrl, "sleep")
  /\ x' = SweepStep[1] /\ direction' = SweepStep[2]
  /\ Goto(Ctrl, "loop")
  /\ UNCHANGED <<options, stop, sems, device>>

(***************************************************************************)
(* gpiopwm_manual_ctrl_thread and gpiopwm_udp_ctrl_thread                  *)
(***************************************************************************)
\* Without its line buffer the thread posts synch and never waits for setup.
ManualAlloc ==
  /\ At(Ctrl, "alloc")
  /\ Goto(Ctrl, "setup") \/ Goto(Ctrl, "post")
  /\ UNCHANGED <<options, stop, sems, locals, device>>

\* End of file, an empty line and a line that is no number end the loop; a
\* number goes to the driver whatever it is.
ManualRead ==
  /\ handler = "manual" /\ At(Ctrl, "loop")
  /\ \/ Goto(Ctrl, LoopExit) /\ UNCHANGED x
     \/ Goto(Ctrl, "ioctl") /\ x' \in Duties \cup {TooBig}
  /\ UNCHANGED <<options, stop, sems, direction, device>>

\* A datagram with a value out of range is dropped: no step.  After a failed
\* recvfrom the zeroed buffer is parsed, which yields the value 0.
UdpReceive ==
  /\ handler = "udp" /\ At(Ctrl, "loop")
  /\ Goto(Ctrl, "ioctl")
  /\ \/ x' \in Duties
     \/ x' = 0
  /\ UNCHANGED <<options, stop, sems, direction, device>>

CtrlSteps ==
  WaitSetup \/ ChangeDutyFails \/ ChangeDuty \/ PostSynch \/ SweepTest
    \/ SweepMove \/ ManualAlloc

\* SIGINT: caught when sweeping, ignored in manual mode, fatal in UDP mode.
Interrupt ==
  /\ ~ Exited /\ ~ At(Main, "done")
  /\ \/ handler = "sweep" /\ stop' = TRUE /\ UNCHANGED pc
     \/ handler = "udp" /\ Exit /\ UNCHANGED stop
  /\ UNCHANGED <<options, sems, locals, device>>

Over == Exited \/ At(Main, "done")

Terminated == Over /\ UNCHANGED vars

Next ==
  MainThread \/ InitThread \/ CtrlSteps \/ ManualRead \/ UdpReceive
    \/ Interrupt \/ Terminated

\* The threads run at SCHED_FIFO 99 and 98 and main is waited for by nobody, so
\* each one that can take a step takes it.  Nobody has to type a line, send a
\* datagram or press ^C.
Fairness == WF_vars(MainThread) /\ WF_vars(InitThread) /\ WF_vars(CtrlSteps)

Spec == Init /\ [][Next]_vars /\ Fairness
------------------------------------------------------------------------------
TypeOK ==
  /\ handler \in {"sweep", "manual", "udp"}
  /\ step \in Nat \ {0}
  /\ stop \in BOOLEAN
  /\ setup \in 0..1 /\ synch \in 0..1
  /\ x \in Nat /\ direction \in {"fwd", "bck"}
  /\ shown \in Nat /\ applied \in Nat
  /\ pwm \in {"idle", "running", "stopped"} /\ dev \in {"open", "closed"}
  /\ pc \in [Threads -> Labels]

\* The duty cycle is changed only between START and STOP: the init thread stops
\* the device after the control thread's last ioctl, never under it.
DutyOnlyWhileRunning == At(Ctrl, "ioctl") => pwm = "running" /\ dev = "open"

\* "sweep all duty cycles 0..100": whatever the step, the sweep asks only for
\* duty cycles of that range.
SweepInRange == handler = "sweep" => x \in Duties

\* Whenever print_config runs before a prompt, it shows the duty cycle the
\* device really has.
ShownIsApplied == handler # "sweep" /\ At(Ctrl, "loop") => shown = applied

\* A normal return of main leaves the device stopped, and the descriptor was
\* never closed under a thread that may still use it.
CleanReturn ==
  dev = "closed" => pwm = "stopped" /\ At(Pwm, "done") /\ At(Ctrl, "done")

\* "0..100 and 100..0": until it is stopped, the sweep gets to both ends, also
\* with a step that does not divide the range.
Sweeping == handler = "sweep" /\ pc[Ctrl] \in {"loop", "ioctl", "sleep"} /\ ~ stop

SweepReachesBothEnds ==
  /\ Sweeping ~> (applied = MaxDuty \/ ~ Sweeping)
  /\ Sweeping ~> (applied = MinDuty \/ ~ Sweeping)

\* "wait for completion": when the control thread has returned, the init thread
\* stops the device and main returns.
Completes(h) == (handler = h /\ At(Ctrl, "done")) ~> Over

SweepAndManualComplete == Completes("sweep") /\ Completes("manual")
UdpCompletes           == Completes("udp")

\* ^C ends a sweep, however the signal falls between the thread's steps.
InterruptEndsSweep == stop ~> Over
==============================================================================
