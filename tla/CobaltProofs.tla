---------------------------- MODULE CobaltProofs ----------------------------
(***************************************************************************)
(* Safety of two of the demonstrations in examples/posix/cobalt: of        *)
(* GpioPwm for every range of duty cycles and every step, and of RtIpc for *)
(* messages of every length, queues of every size and any number of        *)
(* messages.                                                               *)
(***************************************************************************)
EXTENDS GpioPwm, RtIpc, SequenceTheorems, WellFoundedInduction, TLAPS

Changing == {"loop", "ioctl", "sleep"}         \* Ctrl after its sem_sync(&setup)

\* The places of each thread.
PlaceInv ==
  /\ pc[Main] \in {"create_ctrl", "create_pwm", "join_pwm", "join_ctrl", "close",
                   "done", "exited"}
  /\ pc[Pwm] \in {"unborn", "config", "start", "post", "sync", "halt", "done",
                  "exited"}
  /\ pc[Ctrl] \in {"unborn", "alloc", "setup", "post", "done", "exited"}
                    \cup Changing

\* What the creation order and the joins say about the threads.
ThreadInv ==
  /\ (\E t \in Threads : At(t, "exited")) => \A t \in Threads : At(t, "exited")
  /\ At(Main, "create_ctrl") => At(Ctrl, "unborn")
  /\ pc[Main] \in {"create_ctrl", "create_pwm"} => At(Pwm, "unborn")
  /\ pc[Main] \in {"join_ctrl", "close", "done"} => At(Pwm, "done")
  /\ pc[Main] \in {"close", "done"} => At(Ctrl, "done")
  /\ dev = "closed" => At(Main, "done")

\* Where the tokens of the two semaphores are.
TokenInv ==
  /\ setup > 0 => pc[Pwm] \in {"sync", "halt", "done", "exited"}
  /\ pc[Ctrl] \in Changing => pc[Pwm] \in {"sync", "halt", "done"}
  /\ synch > 0 => pc[Ctrl] \in {"done", "exited"}
  /\ pc[Pwm] \in {"halt", "done"} => At(Ctrl, "done") /\ synch = 0
  /\ pc[Pwm] \in {"post", "sync", "halt"} => pwm = "running"
  /\ At(Pwm, "done") => pwm = "stopped"

\* What the control thread holds at each of its places.
CtrlInv ==
  /\ handler = "sweep" => x \in Duties
  /\ At(Ctrl, "sleep") => handler = "sweep"
  /\ At(Ctrl, "alloc") => handler = "manual"
  /\ handler # "sweep" => shown = applied

IInv == TypeOK /\ PlaceInv /\ ThreadInv /\ TokenInv /\ CtrlInv

\* The invariant holds initially.
LEMMA GpioInit == Init => IInv
<1> SUFFICES ASSUME Init PROVE IInv
  OBVIOUS
<1>1. step \in Nat \ {0}
  <2>1. PICK arg \in StepArgs : step = ParseStep(arg)
    BY DEF Init
  <2>2. arg \in Int
    BY <2>1, StepAssumption
  <2>3. QED
    BY <2>1, <2>2 DEF ParseStep
<1>2. x \in Duties /\ x \in Nat /\ shown \in Nat /\ applied \in Nat
  BY DutyAssumption DEF Init, Duties, MinDuty
<1>3. pc \in [Threads -> Labels]
  BY DEF Init, Labels
<1>4. TypeOK
  <2>1. stop \in BOOLEAN
    BY Zenon DEF Init
  <2>2. setup \in 0..1 /\ synch \in 0..1
    BY DEF Init
  <2>3. QED
    BY <1>1, <1>2, <1>3, <2>1, <2>2 DEF Init, TypeOK
<1>5. QED
  BY <1>2, <1>4 DEF Init, IInv, PlaceInv, ThreadInv, TokenInv, CtrlInv,
      Changing, At, Threads, Main, Pwm, Ctrl

\* The sweep stays in its range for every step of at least 1.
LEMMA SweepStepInRange ==
  ASSUME x \in Duties, step \in Nat \ {0}, direction \in {"fwd", "bck"}
  PROVE  SweepStep[1] \in Duties /\ SweepStep[2] \in {"fwd", "bck"}
<1>1. MaxDuty \in Nat \ {0}
  BY DutyAssumption
<1>2. CASE direction = "fwd"
  BY <1>1, <1>2 DEF SweepStep, Duties, MinDuty
<1>3. CASE direction = "bck"
  BY <1>1, <1>3 DEF SweepStep, Duties, MinDuty
<1>4. QED
  BY <1>2, <1>3

\* Every step keeps the invariant.
LEMMA GpioNext == IInv /\ [Next]_vars => IInv'
<1> SUFFICES ASSUME IInv, [Next]_vars PROVE IInv'
  OBVIOUS
<1> USE DEF IInv, TypeOK, PlaceInv, ThreadInv, TokenInv, CtrlInv, Changing,
            At, Goto, Exit, Exited, Threads, Labels, Main, Pwm, Ctrl,
            options, sems, locals, device
<1>1. ASSUME CreateCtrl PROVE IInv'
  BY <1>1 DEF CreateCtrl
<1>2. ASSUME CreatePwm PROVE IInv'
  BY <1>2 DEF CreatePwm
<1>3. ASSUME Join(Pwm, "join_pwm", "join_ctrl") PROVE IInv'
  BY <1>3 DEF Join
<1>4. ASSUME Join(Ctrl, "join_ctrl", "close") PROVE IInv'
  BY <1>4 DEF Join
<1>5. ASSUME Close PROVE IInv'
  BY <1>5 DEF Close
<1>6. ASSUME SetConfig PROVE IInv'
  BY <1>6 DEF SetConfig
<1>7. ASSUME Start PROVE IInv'
  BY <1>7 DEF Start
<1>8. ASSUME PostSetup PROVE IInv'
  BY <1>8 DEF PostSetup
<1>9. ASSUME WaitSynch PROVE IInv'
  BY <1>9 DEF WaitSynch, SemSync
<1>10. ASSUME Stop PROVE IInv'
  BY <1>10 DEF Stop
<1>11. ASSUME WaitSetup PROVE IInv'
  BY <1>11 DEF WaitSetup, SemSync
<1>12. ASSUME ChangeDutyFails PROVE IInv'
  BY <1>12 DEF ChangeDutyFails, LoopExit
<1>13. ASSUME ChangeDuty PROVE IInv'
  BY <1>13 DEF ChangeDuty, ShownAfter
<1>14. ASSUME PostSynch PROVE IInv'
  BY <1>14 DEF PostSynch
<1>15. ASSUME SweepTest PROVE IInv'
  BY <1>15 DEF SweepTest, LoopExit
<1>16. ASSUME SweepMove PROVE IInv'
  <2>1. x' \in Duties /\ direction' \in {"fwd", "bck"}
    BY <1>16, SweepStepInRange DEF SweepMove
  <2>2. x' \in Nat
    BY <2>1, DutyAssumption DEF Duties, MinDuty
  <2>3. QED
    BY <1>16, <2>1, <2>2 DEF SweepMove, Duties
<1>17. ASSUME ManualAlloc PROVE IInv'
  BY <1>17 DEF ManualAlloc
<1>18. ASSUME ManualRead PROVE IInv'
  BY <1>18, DutyAssumption DEF ManualRead, LoopExit, Duties, MinDuty, TooBig
<1>19. ASSUME UdpReceive PROVE IInv'
  BY <1>19, DutyAssumption DEF UdpReceive, Duties, MinDuty
<1>20. ASSUME Interrupt PROVE IInv'
  <2>1. CASE handler = "sweep" /\ stop' = TRUE /\ UNCHANGED pc
    BY <1>20, <2>1 DEF Interrupt
  <2>2. CASE handler = "udp" /\ Exit /\ UNCHANGED stop
    <3>1. pc' = [t \in Threads |-> "exited"]
      BY <2>2
    <3>2. \A t \in Threads : pc'[t] = "exited"
      BY <3>1
    <3>3. QED
      BY <1>20, <2>2, <3>1, <3>2 DEF Interrupt
  <2>3. QED
    BY <1>20, <2>1, <2>2 DEF Interrupt
<1>21. CASE UNCHANGED vars
  BY <1>21 DEF vars, Duties
<1>22. QED
  BY <1>1, <1>2, <1>3, <1>4, <1>5, <1>6, <1>7, <1>8, <1>9, <1>10, <1>11, <1>12,
     <1>13, <1>14, <1>15, <1>16, <1>17, <1>18, <1>19, <1>20, <1>21
  DEF Next, MainThread, InitThread, CtrlSteps, Terminated

\* The run's type invariant holds for every range and every --sweep argument.
THEOREM GpioTypeCorrect == Spec => []TypeOK
<1>1. IInv => TypeOK
  BY DEF IInv
<1>2. QED
  BY <1>1, GpioInit, GpioNext, PTL DEF Spec

\* Every change of the duty cycle falls between START and STOP.
THEOREM GpioDutySafe == Spec => []DutyOnlyWhileRunning
<1>1. IInv => DutyOnlyWhileRunning
  BY DEF IInv, TypeOK, ThreadInv, TokenInv, DutyOnlyWhileRunning, Changing, At,
               Main, Pwm, Ctrl
<1>2. QED
  BY <1>1, GpioInit, GpioNext, PTL DEF Spec

\* The sweep never asks for a duty cycle outside the range, whatever its step.
THEOREM GpioSweepSafe == Spec => []SweepInRange
<1>1. IInv => SweepInRange
  BY DEF IInv, CtrlInv, SweepInRange
<1>2. QED
  BY <1>1, GpioInit, GpioNext, PTL DEF Spec

\* The prompt always shows the duty cycle the device has.
THEOREM GpioShownSafe == Spec => []ShownIsApplied
<1>1. IInv => ShownIsApplied
  BY DEF IInv, CtrlInv, ShownIsApplied
<1>2. QED
  BY <1>1, GpioInit, GpioNext, PTL DEF Spec

\* main closes the device only when it is stopped and both threads are done.
THEOREM GpioCleanReturn == Spec => []CleanReturn
<1>1. IInv => CleanReturn
  BY DEF IInv, ThreadInv, TokenInv, CleanReturn, At, Main
<1>2. QED
  BY <1>1, GpioInit, GpioNext, PTL DEF Spec

-----------------------------------------------------------------------------
(***************************************************************************)
(* RtIpc                                                                   *)
(***************************************************************************)
\* Where a thread is, as the calls it has still to make in this turn.
Receives == {<<"label", "bind", "recv">>, <<"bind", "recv">>, <<"recv">>}
Relays   == {<<"open", "read", "write">>, <<"read", "write">>, <<"write">>}
Seeks    == {<<"label", "lookup", "send">>, <<"lookup", "send">>, <<"send">>}
Answers(c)      == {<<"bind", c, "recv">>, <<c, "recv">>, <<"recv">>}
Numbered(c, d)  == {<<c, d>>, <<d>>}
SeeksAfter(c)   == {<<c, "label", "lookup", "send">>} \cup Seeks
Places ==
  [xddp_label     |-> [rt1 |-> Receives, rt2 |-> SeeksAfter("rcvtimeo"), nrt |-> Relays],
   xddp_echo      |-> [rt |-> Answers("send"), nrt |-> Relays],
   xddp_stream    |-> [rt |-> Answers("scatter"), nrt |-> Relays],
   iddp_label     |-> [server |-> Receives, client |-> SeeksAfter("bind")],
   iddp_sendrecv  |-> [server |-> Receives, client |-> Numbered("bind", "sendto")],
   bufp_label     |-> [server |-> Receives, client |-> Seeks],
   bufp_readwrite |-> [server |-> Receives, client |-> Numbered("connect", "send")]]

InPlaces == at = [t \in IpcThreads |-> at[t]] /\ \A t \in IpcThreads : at[t] \in Places[demo][t]

Pieces == Seq(Seq(Nat))
IpcTypes ==
  /\ demo \in Demos /\ InPlaces
  /\ labelled \subseteq IpcThreads /\ bound \subseteq IpcThreads
  /\ registry \in IpcThreads \cup {"none"} /\ peer \in [IpcThreads -> IpcThreads \cup {"none"}]
  /\ net \in [IpcThreads -> Pieces] /\ sent \in Nat /\ held \in Seq(Nat) /\ got \in Pieces

NextCall(t) == Head(at[t])

\* Who binds and looks up what: without a pipe, only the server can be connected to.
NamesInv ==
  ~ Xddp =>
    /\ registry \in {"none", "server"} /\ peer.client \in {"none", "server"}
    /\ registry = "server" => "server" \in bound
    /\ NextCall("client") = "bind" => "client" \notin labelled
    /\ NextCall("server") \in {"label", "bind"} => registry = "none"
    /\ NextCall("client") = "lookup" => "client" \in labelled
    /\ NextCall("client") = "send" /\ demo # "bufp_readwrite" => peer.client = "server" /\ "server" \in bound

\* The regular thread holds something only between read and write; bytes are gathered.
HeldInv ==
  /\ held # <<>> => Xddp /\ NextCall("nrt") = "write"
  /\ Bytes => Len(net.server) <= 1
  /\ demo = "xddp_stream" => Len(net.nrt) <= 1

\* What is under way, from the receiver back to the sender: bytes, and messages.
InARow(a, b, h, n) == ((a \o b) \o h) \o n
Back   == IF Xddp THEN net.nrt ELSE <<>>
Flow   == InARow(FlattenSeq(got), FlattenSeq(net[Consumer]), held, FlattenSeq(Back))
InHand == IF Xddp /\ NextCall("nrt") = "write" THEN <<held>> ELSE <<>>
Line   == InARow(got, net[Consumer], InHand, Back)

FlowInv == Flow = Numbers(1, sent)
Whole   == ~ Bytes /\ demo # "xddp_stream"
LineInv ==
  Whole => /\ sent = Len(Line) * MsgLen
           /\ \A i \in 1..Len(Line) : Line[i] = Numbers((i - 1) * MsgLen + 1, i * MsgLen)

\* xddp-echo has a message under way exactly while it waits for it.
EchoInv ==
  demo = "xddp_echo" => Len(Line) = Len(got) + (IF NextCall("rt") = "recv" THEN 1 ELSE 0)

IpcInv == IpcTypes /\ NamesInv /\ HeldInv /\ FlowInv /\ LineInv /\ EchoInv

(***************************************************************************)
(* Sequences of sequences                                                  *)
(***************************************************************************)
LEMMA LeastNatural ==
  ASSUME NEW T, T \subseteq Nat, T # {}
  PROVE  \E m \in T : \A n \in T : m <= n
<1> DEFINE R == OpToRel(<, Nat)
<1>1. IsWellFoundedOn(R, Nat)
  BY NatLessThanWellFounded
<1>2. \A a, b \in Nat : a < b => <<a, b>> \in R
  BY Zenon DEF OpToRel
<1> HIDE DEF R
<1>3. PICK m \in T : \A n \in T : ~ (<<n, m>> \in R)
  BY <1>1, WFMin
<1>4. ASSUME NEW n \in T PROVE m <= n
  <2>1. m \in Nat /\ n \in Nat
    OBVIOUS
  <2>2. ~ (n < m)
    BY <1>2, <1>3, <2>1
  <2>3. QED
    BY <2>1, <2>2
<1>5. QED
  BY <1>4

\* What holds of 0, and of a number when of the one before, holds up to N.
LEMMA UpTo ==
  ASSUME NEW N \in Nat, NEW T, 0 \in T, \A n \in 1..N : n - 1 \in T => n \in T
  PROVE  \A n \in 0..N : n \in T
<1> DEFINE U == {n \in 0..N : n \notin T}
<1>1. SUFFICES ASSUME U # {} PROVE FALSE
  OBVIOUS
<1>2. U \subseteq Nat
  OBVIOUS
<1>3. PICK m \in U : \A n \in U : m <= n
  BY <1>1, <1>2, LeastNatural
<1>4. m # 0 /\ m \in 0..N
  BY <1>3
<1>5. m \in 1..N /\ m - 1 \in 0..N /\ ~ (m <= m - 1)
  BY <1>4
<1>6. m - 1 \in T
  BY <1>3, <1>5
<1>7. QED
  BY <1>3, <1>5, <1>6

\* f has the beginnings of the flattened sequence.
Flats(f, s, n) == f[0] = <<>> /\ \A i \in 1..n : f[i] = f[i - 1] \o s[i]

\* Such a function exists, for sequences of any length.
LEMMA FlatsExist ==
  ASSUME NEW s \in Pieces
  PROVE  \E f \in [0..Len(s) -> Seq(Nat)] : Flats(f, s, Len(s))
<1> DEFINE N == Len(s)
           T == {n \in 0..N : \E f \in [0..n -> Seq(Nat)] : Flats(f, s, n)}
<1>1. N \in Nat /\ \A i \in 1..N : s[i] \in Seq(Nat)
  BY DEF Pieces
<1> HIDE DEF N
<1>2. 0 \in T
  <2>1. [i \in 0..0 |-> <<>>] \in [0..0 -> Seq(Nat)] /\ Flats([i \in 0..0 |-> <<>>], s, 0)
    BY DEF Flats
  <2>2. 0 \in 0..N
    BY <1>1
  <2>3. QED
    BY <2>1, <2>2
<1>3. ASSUME NEW n \in 1..N, n - 1 \in T PROVE n \in T
  <2>1. PICK f \in [0..n - 1 -> Seq(Nat)] : Flats(f, s, n - 1)
    BY <1>3
  <2>2. n \in Nat /\ n - 1 \in 0..n - 1 /\ n \in 0..N /\ n \in 0..n /\ 0 \in 0..n - 1
    BY <1>1
  <2>3. f[n - 1] \in Seq(Nat) /\ s[n] \in Seq(Nat)
    BY <1>1, <2>1, <2>2
  <2> DEFINE e == f[n - 1] \o s[n]
             h == [i \in 0..n |-> IF i = n THEN e ELSE f[i]]
  <2>4. e \in Seq(Nat)
    BY <2>3, ConcatProperties, Zenon
  <2>5. h[n] = h[n - 1] \o s[n]
    <3>1. h[n] = e /\ h[n - 1] = f[n - 1]
      BY <2>2
    <3>2. QED
      BY <3>1
  <2> HIDE DEF e
  <2>6. \A i \in 0..n : i # n => i \in 0..n - 1
    BY <2>2
  <2>7. h \in [0..n -> Seq(Nat)]
    BY <2>1, <2>4, <2>6
  <2>8. h[0] = <<>>
    <3>1. 0 \in 0..n /\ 0 # n /\ f[0] = <<>>
      BY <2>1, <2>2 DEF Flats
    <3>2. QED
      BY <3>1
  <2>9. ASSUME NEW i \in 1..n PROVE h[i] = h[i - 1] \o s[i]
    <3>1. CASE i = n
      BY <2>5, <3>1
    <3>2. CASE i # n
      <4>1. i \in 1..n - 1 /\ i \in 0..n /\ i - 1 \in 0..n /\ i - 1 # n
        BY <2>2, <3>2
      <4>2. h[i] = f[i] /\ h[i - 1] = f[i - 1]
        BY <3>2, <4>1
      <4>3. QED
        BY <2>1, <4>1, <4>2 DEF Flats
    <3>3. QED
      BY <3>1, <3>2
  <2> HIDE DEF h
  <2>10. Flats(h, s, n)
    BY <2>8, <2>9 DEF Flats
  <2>11. QED
    BY <2>2, <2>7, <2>10
<1>4. \A n \in 0..N : n \in T
  <2> HIDE DEF T
  <2>1. QED
    BY <1>1, <1>2, <1>3, UpTo
<1>5. N \in 0..N
  BY <1>1
<1>6. QED
  BY <1>4, <1>5 DEF N

\* It ends in what the fold of FlattenSeq computes.
LEMMA FlattenIs ==
  ASSUME NEW s \in Pieces, NEW f \in [0..Len(s) -> Seq(Nat)], Flats(f, s, Len(s))
  PROVE  FlattenSeq(s) = f[Len(s)]
<1> DEFINE N == Len(s)
           D(h) == [i \in 1..N |-> IF i = 1 THEN s[i] ELSE h[i - 1] \o s[i]]
           flatten == CHOOSE h : h = D(h)
           r == [i \in 1..N |-> f[i]]
<1>1. N \in Nat /\ \A i \in 1..N : s[i] \in Seq(Nat)
  BY DEF Pieces
<1>2. CASE N = 0
  <2>1. FlattenSeq(s) = s /\ s = <<>>
    BY <1>2 DEF FlattenSeq, Pieces
  <2>2. QED
    BY <1>2, <2>1 DEF Flats
<1>3. CASE N # 0
  <2>1. FlattenSeq(s) = flatten[N]
    BY <1>3 DEF FlattenSeq
  <2>2. r = D(r)
    <3>1. ASSUME NEW i \in 1..N PROVE r[i] = D(r)[i]
      <4>1. CASE i = 1
        <5>1. f[1] = f[0] \o s[1] /\ f[0] = <<>>
          <6>1. 1 \in 1..N /\ 1 - 1 = 0
            BY <4>1
          <6>2. f[1] = f[1 - 1] \o s[1] /\ f[0] = <<>>
            BY <6>1, Zenon DEF Flats
          <6>3. QED
            BY <6>1, <6>2
        <5>2. s[1] \in Seq(Nat)
          BY <1>1, <4>1
        <5>3. <<>> \o s[1] = s[1]
          BY <5>2, ConcatEmptySeq, Zenon
        <5>4. QED
          BY <4>1, <5>1, <5>3
      <4>2. CASE i # 1
        <5>1. i - 1 \in 1..N
          BY <1>1, <4>2
        <5>2. f[i] = f[i - 1] \o s[i]
          BY DEF Flats
        <5>3. QED
          BY <4>2, <5>1, <5>2
      <4>3. QED
        BY <4>1, <4>2
    <3> HIDE DEF N
    <3>2. QED
      BY <3>1
  <2>3. flatten = D(flatten)
    BY <2>2
  <2> HIDE DEF flatten, r, N
  <2> DEFINE T == {n \in 0..N : n = 0 \/ flatten[n] = f[n]}
  <2>4. 0 \in T
    BY <1>1
  <2>5. ASSUME NEW n \in 1..N, n - 1 \in T PROVE n \in T
    <3>1. D(flatten)[n] = IF n = 1 THEN s[n] ELSE flatten[n - 1] \o s[n]
      OBVIOUS
    <3>2. D(r)[n] = IF n = 1 THEN s[n] ELSE r[n - 1] \o s[n]
      OBVIOUS
    <3>3. r[n] = f[n] /\ (n # 1 => r[n - 1] = f[n - 1] /\ flatten[n - 1] = f[n - 1])
      BY <1>1, <2>5 DEF r
    <3>4. flatten[n] = D(flatten)[n] /\ r[n] = D(r)[n]
      BY <2>2, <2>3, Zenon
    <3>5. flatten[n] = f[n]
      BY <3>1, <3>2, <3>3, <3>4
    <3>6. n \in 0..N
      BY <1>1
    <3>7. QED
      BY <3>5, <3>6
  <2>6. \A n \in 0..N : n \in T
    <3> HIDE DEF T
    <3>1. QED
      BY <1>1, <2>4, <2>5, UpTo
  <2>7. N \in 0..N
    BY <1>1
  <2>8. flatten[N] = f[N]
    BY <1>3, <2>6, <2>7
  <2>9. QED
    BY <2>1, <2>8 DEF N
<1>4. QED
  BY <1>2, <1>3

\* Flattening, from the end of the sequence.
LEMMA FlattenEmpty == FlattenSeq(<<>>) = <<>>
BY DEF FlattenSeq

LEMMA FlattenAppend ==
  ASSUME NEW s \in Pieces, NEW e \in Seq(Nat)
  PROVE  /\ FlattenSeq(s) \in Seq(Nat)
         /\ FlattenSeq(Append(s, e)) = FlattenSeq(s) \o e
<1> DEFINE N == Len(s)
           t == Append(s, e)
<1>1. N \in Nat /\ t \in Pieces /\ Len(t) = N + 1 /\ t[N + 1] = e /\ \A i \in 1..N : t[i] = s[i]
  BY DEF Pieces
<1>2. PICK f \in [0..N -> Seq(Nat)] : Flats(f, s, N)
  BY FlatsExist
<1>3. FlattenSeq(s) = f[N]
  BY <1>2, FlattenIs
<1> DEFINE h == [i \in 0..N + 1 |-> IF i = N + 1 THEN f[N] \o e ELSE f[i]]
<1> HIDE DEF N, t
<1>4. f[N] \in Seq(Nat) /\ N \in 0..N /\ N + 1 \in 0..N + 1 /\ N \in 0..N + 1 /\ N # N + 1
  BY <1>1, <1>2
<1>5. f[N] \o e \in Seq(Nat)
  BY <1>4, ConcatProperties, Zenon
<1>6. h \in [0..N + 1 -> Seq(Nat)]
  <2>1. \A i \in 0..N + 1 : i # N + 1 => i \in 0..N
    BY <1>1
  <2>2. QED
    BY <1>2, <1>5, <2>1
<1>7. h[N + 1] = h[N] \o e
  BY <1>4
<1>8. h[0] = <<>>
  <2>1. 0 \in 0..N + 1 /\ 0 # N + 1 /\ f[0] = <<>>
    BY <1>1, <1>2 DEF Flats
  <2>2. QED
    BY <2>1
<1>9. ASSUME NEW i \in 1..N + 1 PROVE h[i] = h[i - 1] \o t[i]
  <2>1. CASE i = N + 1
    <3>1. i - 1 = N /\ t[i] = e
      BY <1>1, <2>1
    <3>2. QED
      BY <1>7, <2>1, <3>1
  <2>2. CASE i # N + 1
    <3>1. i \in 1..N /\ i \in 0..N + 1 /\ i - 1 \in 0..N + 1 /\ i - 1 # N + 1
      BY <1>1, <2>2
    <3>2. h[i] = f[i] /\ h[i - 1] = f[i - 1] /\ t[i] = s[i]
      BY <1>1, <2>2, <3>1
    <3>3. QED
      BY <1>2, <3>1, <3>2 DEF Flats
  <2>3. QED
    BY <2>1, <2>2
<1>10. h[N + 1] = f[N] \o e
  BY <1>4
<1> HIDE DEF h
<1>11. Flats(h, t, Len(t)) /\ h \in [0..Len(t) -> Seq(Nat)]
  BY <1>1, <1>6, <1>8, <1>9 DEF Flats
<1>12. FlattenSeq(t) = h[N + 1]
  BY <1>1, <1>11, FlattenIs
<1>13. QED
  BY <1>3, <1>4, <1>10, <1>12 DEF t

\* A sequence taken apart at its end, and at its beginning.
LEMMA AppendIs ==
  ASSUME NEW S, NEW s \in Seq(S), NEW e \in S
  PROVE  Append(s, e) \in Seq(S) /\ Append(s, e) = s \o <<e>> /\ <<e>> \in Seq(S)
OBVIOUS

LEMMA HeadFirst ==
  ASSUME NEW S, NEW s \in Seq(S), s # <<>>
  PROVE  /\ Head(s) \in S /\ Tail(s) \in Seq(S) /\ s = <<Head(s)>> \o Tail(s)
         /\ Len(Tail(s)) = Len(s) - 1
OBVIOUS

\* The beginning of a flattened sequence.
LEMMA FlattenOne == ASSUME NEW e \in Seq(Nat) PROVE FlattenSeq(<<e>>) = e
<1>1. <<>> \in Pieces
  BY DEF Pieces
<1>2. FlattenSeq(Append(<<>>, e)) = FlattenSeq(<<>>) \o e
  BY <1>1, FlattenAppend, Zenon
<1>3. Append(<<>>, e) = <<e>>
  OBVIOUS
<1>4. <<>> \o e = e
  BY ConcatEmptySeq, Zenon
<1>5. QED
  BY <1>2, <1>3, <1>4, FlattenEmpty

LEMMA OnlyOne == ASSUME NEW n \in Nat, n <= 1, n # 0 PROVE n = 1
OBVIOUS

\* Sequences of no element and of one.
LEMMA NotEmpty ==
  ASSUME NEW S, NEW s \in Seq(S)
  PROVE  Len(s) \in Nat /\ (s = <<>> <=> Len(s) = 0)
OBVIOUS

LEMMA OneElement ==
  ASSUME NEW S, NEW s \in Seq(S), Len(s) = 1
  PROVE  s = <<Head(s)>> /\ Tail(s) = <<>> /\ Head(s) \in S
<1>1. s # <<>>
  OBVIOUS
<1>2. Head(s) = s[1] /\ s[1] \in S
  BY <1>1
<1>3. Tail(s) \in Seq(S) /\ Len(Tail(s)) = 0
  BY <1>1, HeadTailProperties, SMT
<1> DEFINE u == <<s[1]>>
<1>4. u \in Seq(S) /\ Len(u) = 1 /\ u[1] = s[1]
  BY <1>2
<1> HIDE DEF u
<1>5. s = u
  BY <1>4, SeqEqual, SMTT(30)
<1>6. Tail(s) = <<>>
  <2> DEFINE q == Tail(s)
  <2>1. q \in Seq(S) /\ Len(q) = 0
    BY <1>3
  <2> HIDE DEF q
  <2>2. q = <<>>
    BY <2>1
  <2>3. QED
    BY <2>2 DEF q
<1>7. QED
  BY <1>2, <1>5, <1>6 DEF u

Associate(a, b, c) == (a \o b) \o c = a \o (b \o c)

\* Concatenation is associative; as a predicate, the provers can instantiate it.
LEMMA Associates ==
  ASSUME NEW S PROVE \A a, b, c \in Seq(S) : Associate(a, b, c)
BY ConcatAssociative, SMT DEF Associate

HeadsOff(s) == FlattenSeq(s) = Head(s) \o FlattenSeq(Tail(s))

\* A sequence of two pieces or more, without its last one, begins with the same piece.
LEMMA FrontIs ==
  ASSUME NEW n \in Nat \ {0}, NEW s \in Pieces, Len(s) = n + 1
  PROVE  \E front \in Pieces :
           /\ Len(front) = n /\ front # <<>> /\ s = Append(front, s[n + 1]) /\ s[n + 1] \in Seq(Nat)
           /\ Head(s) = Head(front) /\ Head(front) \in Seq(Nat)
           /\ Tail(front) \in Pieces /\ Tail(s) = Append(Tail(front), s[n + 1])
<1> DEFINE front == SubSeq(s, 1, n)
           e == s[n + 1]
<1>1. front \in Pieces /\ Len(front) = n /\ \A i \in 1..n : front[i] = s[i]
  BY DEF Pieces
<1>2. e \in Seq(Nat) /\ \A i \in 1..n : s[i] \in Seq(Nat)
  BY DEF Pieces
<1> HIDE DEF front, e
<1>3. front # <<>>
  BY <1>1
<1>4. Append(front, e) \in Pieces /\ Len(Append(front, e)) = n + 1
      /\ \A i \in 1..n : Append(front, e)[i] = front[i]
      /\ Append(front, e)[n + 1] = e
  BY <1>1, <1>2 DEF Pieces
<1>5. s = Append(front, e)
  <2>1. \A i \in 1..n + 1 : s[i] = Append(front, e)[i]
    <3>1. \A i \in 1..n + 1 : i \in 1..n \/ i = n + 1
      OBVIOUS
    <3>2. QED
      BY <1>1, <1>4, <3>1 DEF e
  <2> DEFINE t == Append(front, e)
  <2>2. t \in Pieces /\ Len(t) = n + 1 /\ \A i \in 1..n + 1 : s[i] = t[i]
    BY <1>4, <2>1
  <2> HIDE DEF t
  <2>3. s = t
    BY <2>2, SeqEqual, SMTT(30) DEF Pieces
  <2>4. QED
    BY <2>3 DEF t
<1>6. Head(s) = Head(front) /\ Head(front) \in Seq(Nat)
  <2>1. Head(s) = s[1] /\ Head(front) = front[1] /\ 1 \in 1..n
    BY <1>1, <1>3 DEF Pieces
  <2>2. QED
    BY <1>1, <1>2, <2>1
<1>7. Tail(front) \in Pieces
  BY <1>1, <1>3 DEF Pieces
<1>8. Tail(s) = Append(Tail(front), e)
  <2> DEFINE u == Tail(front)
             t == Append(front, e)
  <2>1. u \in Pieces /\ Len(u) = n - 1 /\ \A i \in 1..n - 1 : u[i] = front[i + 1]
    BY <1>1, <1>3 DEF Pieces
  <2>2. Tail(t) \in Pieces /\ Len(Tail(t)) = n /\ \A i \in 1..n : Tail(t)[i] = t[i + 1]
    <3>1. t # <<>>
      BY <1>4
    <3> HIDE DEF t
    <3>2. t \in Pieces /\ Len(t) = n + 1
      BY <1>4 DEF t
    <3>3. QED
      BY <3>1, <3>2 DEF Pieces
  <2> HIDE DEF u
  <2>3. Append(u, e) \in Pieces /\ Len(Append(u, e)) = n /\ Append(u, e)[n] = e
        /\ \A i \in 1..n - 1 : Append(u, e)[i] = u[i]
    BY <1>2, <2>1 DEF Pieces
  <2> DEFINE v == Append(u, e)
             w == Tail(t)
  <2>4. ASSUME NEW i \in 1..n PROVE w[i] = v[i]
    <3>1. CASE i = n
      BY <1>4, <2>2, <2>3, <3>1
    <3>2. CASE i # n
      <4>1. i \in 1..n - 1 /\ i + 1 \in 1..n
        BY <3>2
      <4>2. QED
        BY <1>4, <2>1, <2>2, <2>3, <4>1
    <3>3. QED
      BY <3>1, <3>2
  <2>5. w \in Pieces /\ Len(w) = n /\ v \in Pieces /\ Len(v) = n
    BY <2>2, <2>3
  <2> HIDE DEF v, w
  <2>6. v = w
    BY <2>4, <2>5, SeqEqual, SMTT(30) DEF Pieces
  <2>7. QED
    BY <1>5, <2>6 DEF v, w, u, t
<1>9. QED
  BY <1>1, <1>2, <1>3, <1>5, <1>6, <1>7, <1>8 DEF e

\* Flattening, from the beginning of the sequence.
LEMMA FlattenHead ==
  ASSUME NEW s \in Pieces, s # <<>>
  PROVE  HeadsOff(s)
<1> DEFINE N == Len(s) - 1
           T == {n \in 0..N : \A u \in Pieces : Len(u) = n + 1 => HeadsOff(u)}
<1>1. N \in Nat /\ Len(s) = N + 1
  BY DEF Pieces
<1> HIDE DEF N
<1>2. 0 \in T
  <2>1. ASSUME NEW u \in Pieces, Len(u) = 1 PROVE HeadsOff(u)
    <3>1. u = <<Head(u)>> /\ Tail(u) = <<>> /\ Head(u) \in Seq(Nat)
      BY <2>1, OneElement, Zenon DEF Pieces
    <3>2. FlattenSeq(u) = Head(u)
      BY <3>1, FlattenOne
    <3>3. Head(u) \o <<>> = Head(u)
      BY <3>1, ConcatEmptySeq, Zenon
    <3>4. QED
      BY <3>1, <3>2, <3>3, FlattenEmpty DEF HeadsOff
  <2>2. 0 \in 0..N /\ 0 + 1 = 1
    BY <1>1
  <2>3. QED
    BY <2>1, <2>2
<1>3. ASSUME NEW n \in 1..N, n - 1 \in T PROVE n \in T
  <2>1. n \in Nat \ {0} /\ n - 1 + 1 = n /\ n \in 0..N
    BY <1>1
  <2>2. ASSUME NEW u \in Pieces, Len(u) = n + 1 PROVE HeadsOff(u)
    <3> DEFINE e == u[n + 1]
    <3>1. PICK front \in Pieces :
             /\ Len(front) = n /\ front # <<>> /\ u = Append(front, e) /\ e \in Seq(Nat)
             /\ Head(u) = Head(front) /\ Head(front) \in Seq(Nat)
             /\ Tail(front) \in Pieces /\ Tail(u) = Append(Tail(front), e)
      BY <2>1, <2>2, FrontIs
    <3> HIDE DEF e
    <3>2. HeadsOff(front)
      BY <1>3, <2>1, <3>1
    <3>3. FlattenSeq(u) = FlattenSeq(front) \o e
      BY <3>1, FlattenAppend
    <3>4. FlattenSeq(Tail(u)) = FlattenSeq(Tail(front)) \o e /\ FlattenSeq(Tail(front)) \in Seq(Nat)
      BY <3>1, FlattenAppend
    <3>5. (Head(front) \o FlattenSeq(Tail(front))) \o e = Head(front) \o (FlattenSeq(Tail(front)) \o e)
      <4>1. Associate(Head(front), FlattenSeq(Tail(front)), e)
        BY <3>1, <3>4, Associates, Zenon
      <4>2. QED
        BY <4>1 DEF Associate
    <3>6. QED
      BY <3>1, <3>2, <3>3, <3>4, <3>5 DEF HeadsOff
  <2>3. QED
    BY <2>1, <2>2
<1>4. N \in T
  <2> HIDE DEF T
  <2>1. \A n \in 0..N : n \in T
    BY <1>1, <1>2, <1>3, UpTo
  <2>2. QED
    BY <1>1, <2>1
<1>5. QED
  BY <1>1, <1>4

(***************************************************************************)
(* What moves along the line                                               *)
(***************************************************************************)
\* One piece goes on from the head of a part to the end of the one before it, or is new.
Regroups(a, b, h, n, p) ==
  /\ InARow(a \o p, b, h, n) = InARow(a, p \o b, h, n)
  /\ InARow(a, b, <<>>, p \o n) = InARow(a, b, p, n)
  /\ InARow(a, b \o p, <<>>, n) = InARow(a, b, p, n)
  /\ InARow(a, b, h, n \o p) = InARow(a, b, h, n) \o p
  /\ InARow(a, b \o p, <<>>, <<>>) = InARow(a, b, <<>>, <<>>) \o p

LEMMA Regroup ==
  ASSUME NEW S, NEW a \in Seq(S), NEW b \in Seq(S), NEW h \in Seq(S), NEW n \in Seq(S),
         NEW p \in Seq(S)
  PROVE  Regroups(a, b, h, n, p)
<1>1. a \o b \in Seq(S) /\ b \o p \in Seq(S)
  BY ConcatProperties, Zenon
<1>2. (a \o b) \o h \in Seq(S) /\ a \o (b \o p) \in Seq(S)
  BY <1>1, ConcatProperties, Zenon
<1>3. Associate(a, p, b) /\ Associate(a, b, p) /\ Associate(a \o b, p, n)
      /\ Associate((a \o b) \o h, n, p)
  BY <1>1, <1>2, Associates, Zenon
<1>4. (a \o b) \o <<>> = a \o b /\ (a \o (b \o p)) \o <<>> = a \o (b \o p)
  BY <1>1, <1>2, ConcatEmptySeq, Zenon
<1>5. /\ (a \o p) \o b = a \o (p \o b) /\ (a \o b) \o p = a \o (b \o p)
      /\ ((a \o b) \o p) \o n = (a \o b) \o (p \o n)
      /\ (((a \o b) \o h) \o n) \o p = ((a \o b) \o h) \o (n \o p)
  BY <1>3 DEF Associate
<1>6. QED
  BY <1>4, <1>5, Zenon DEF InARow, Regroups

(***************************************************************************)
(* The programs                                                            *)
(***************************************************************************)
Roles ==
  /\ Consumer \in IpcThreads
  /\ Xddp => "nrt" \in IpcThreads /\ Consumer # "nrt" /\ Order[1] = Consumer
  /\ ~ Xddp => IpcThreads = {"server", "client"} /\ Consumer = "server"
  /\ demo = "xddp_echo" => IpcThreads = {"rt", "nrt"} /\ Consumer = "rt"
  /\ demo = "xddp_stream" => IpcThreads = {"rt", "nrt"} /\ Consumer = "rt"

\* Who makes call c.
MayCall(t, c) ==
  /\ c = "recv" => t = Consumer
  /\ c \in {"open", "read", "write"} <=> t = "nrt"
  /\ c = "scatter" => demo = "xddp_stream"
  /\ c = "send" => demo # "xddp_stream" /\ (Xddp \/ t = "client")
  /\ c = "sendto" => demo = "iddp_sendrecv" /\ t = "client"
  /\ c = "connect" \/ (c = "lookup" /\ ~ Xddp) => ~ Xddp /\ t = "client"

\* Which call follows which.
Follows(t, c, d) ==
  /\ t = "nrt" => d = IF c = "read" THEN "write" ELSE "read"
  /\ t = "server" => d = "recv" \/ (c = "label" /\ d = "bind")
  /\ t = "client" => /\ d # "bind" /\ (d = "lookup" => c = "label")
                     /\ d = "send" /\ demo # "bufp_readwrite" => c \in {"lookup", "send"}
  /\ demo = "xddp_echo" /\ t = "rt" => d = IF c = "send" THEN "recv" ELSE "send"

\* The places of the threads are the beginnings of the program, closed under GoesOn.
Turn(t, p, q) ==
  /\ p # <<>> /\ q \in Places[demo][t]
  /\ MayCall(t, Head(p)) /\ Follows(t, Head(p), Head(q))

Begins(t) == Program[demo].setup[t] \o Program[demo].loop[t]

\* Short sequences, taken apart and put together.
LEMMA TailsOf ==
  /\ \A a : Head(<<a>>) = a /\ Tail(<<a>>) = <<>> /\ <<a>> # <<>>
  /\ \A a, b : Head(<<a, b>>) = a /\ Tail(<<a, b>>) = <<b>> /\ <<a, b>> # <<>>
  /\ \A a, b, c : Head(<<a, b, c>>) = a /\ Tail(<<a, b, c>>) = <<b, c>> /\ <<a, b, c>> # <<>>
  /\ \A a, b, c, d : /\ Head(<<a, b, c, d>>) = a /\ Tail(<<a, b, c, d>>) = <<b, c, d>>
                     /\ <<a, b, c, d>> # <<>>
OBVIOUS

\* A sequence that begins with s and goes on with t is their concatenation.
LEMMA JoinIs ==
  ASSUME NEW S, NEW s \in Seq(S), NEW t \in Seq(S), NEW u \in Seq(S), Len(u) = Len(s) + Len(t),
         \A i \in 1..Len(s) : u[i] = s[i], \A i \in 1..Len(t) : u[Len(s) + i] = t[i]
  PROVE  s \o t = u
<1> DEFINE v == s \o t
<1>1. /\ v \in Seq(S) /\ Len(v) = Len(s) + Len(t)
      /\ \A i \in 1..Len(s) + Len(t) : v[i] = IF i <= Len(s) THEN s[i] ELSE t[i - Len(s)]
  BY ConcatProperties, Zenon
<1> HIDE DEF v
<1>2. ASSUME NEW i \in 1..Len(u) PROVE u[i] = v[i]
  <2>1. CASE i <= Len(s)
    BY <1>1, <2>1
  <2>2. CASE ~ (i <= Len(s))
    <3>1. i - Len(s) \in 1..Len(t) /\ Len(s) + (i - Len(s)) = i
      BY <2>2
    <3>2. QED
      BY <1>1, <2>2, <3>1
  <2>3. QED
    BY <2>1, <2>2
<1>3. u = v
  BY <1>1, <1>2, SeqEqual, SMTT(20)
<1>4. QED
  BY <1>3 DEF v

LEMMA JoinOneOne ==
  ASSUME NEW a, NEW b
  PROVE  <<a>> \o <<b>> = <<a, b>>
<1> DEFINE S == {a, b}
<1>1. a \in S /\ b \in S
  OBVIOUS
<1> HIDE DEF S
<1> DEFINE s == <<a>>
           t == <<b>>
           u == <<a, b>>
<1>2. /\ s \in Seq(S) /\ t \in Seq(S) /\ u \in Seq(S)
  BY <1>1
<1>3. Len(s) = 1 /\ Len(t) = 1 /\ Len(u) = 2
  OBVIOUS
<1>4. u[1] = s[1] /\ u[1 + 1] = t[1]
  OBVIOUS
<1> HIDE DEF s, t, u
<1>5. \A i \in 1..Len(s) : u[i] = s[i]
  BY <1>3, <1>4
<1>6. \A i \in 1..Len(t) : u[Len(s) + i] = t[i]
  BY <1>3, <1>4
<1>7. Len(u) = Len(s) + Len(t)
  BY <1>3
<1>8. s \o t = u
  BY <1>2, <1>5, <1>6, <1>7, JoinIs, Zenon
<1>9. QED
  BY <1>8 DEF s, t, u

LEMMA JoinOneTwo ==
  ASSUME NEW a, NEW b, NEW c
  PROVE  <<a>> \o <<b, c>> = <<a, b, c>>
<1> DEFINE S == {a, b, c}
<1>1. a \in S /\ b \in S /\ c \in S
  OBVIOUS
<1> HIDE DEF S
<1> DEFINE s == <<a>>
           t == <<b, c>>
           u == <<a, b, c>>
<1>2. /\ s \in Seq(S) /\ t \in Seq(S) /\ u \in Seq(S)
  BY <1>1
<1>3. Len(s) = 1 /\ Len(t) = 2 /\ Len(u) = 3
  OBVIOUS
<1>4. u[1] = s[1] /\ u[1 + 1] = t[1] /\ u[1 + 2] = t[2]
  OBVIOUS
<1> HIDE DEF s, t, u
<1>5. \A i \in 1..Len(s) : u[i] = s[i]
  BY <1>3, <1>4
<1>6. \A i \in 1..Len(t) : u[Len(s) + i] = t[i]
  BY <1>3, <1>4
<1>7. Len(u) = Len(s) + Len(t)
  BY <1>3
<1>8. s \o t = u
  BY <1>2, <1>5, <1>6, <1>7, JoinIs, Zenon
<1>9. QED
  BY <1>8 DEF s, t, u

LEMMA JoinTwoOne ==
  ASSUME NEW a, NEW b, NEW c
  PROVE  <<a, b>> \o <<c>> = <<a, b, c>>
<1> DEFINE S == {a, b, c}
<1>1. a \in S /\ b \in S /\ c \in S
  OBVIOUS
<1> HIDE DEF S
<1> DEFINE s == <<a, b>>
           t == <<c>>
           u == <<a, b, c>>
<1>2. /\ s \in Seq(S) /\ t \in Seq(S) /\ u \in Seq(S)
  BY <1>1
<1>3. Len(s) = 2 /\ Len(t) = 1 /\ Len(u) = 3
  OBVIOUS
<1>4. u[1] = s[1] /\ u[2] = s[2] /\ u[2 + 1] = t[1]
  OBVIOUS
<1> HIDE DEF s, t, u
<1>5. \A i \in 1..Len(s) : u[i] = s[i]
  BY <1>3, <1>4
<1>6. \A i \in 1..Len(t) : u[Len(s) + i] = t[i]
  BY <1>3, <1>4
<1>7. Len(u) = Len(s) + Len(t)
  BY <1>3
<1>8. s \o t = u
  BY <1>2, <1>5, <1>6, <1>7, JoinIs, Zenon
<1>9. QED
  BY <1>8 DEF s, t, u

LEMMA JoinThreeOne ==
  ASSUME NEW a, NEW b, NEW c, NEW d
  PROVE  <<a, b, c>> \o <<d>> = <<a, b, c, d>>
<1> DEFINE S == {a, b, c, d}
<1>1. a \in S /\ b \in S /\ c \in S /\ d \in S
  OBVIOUS
<1> HIDE DEF S
<1> DEFINE s == <<a, b, c>>
           t == <<d>>
           u == <<a, b, c, d>>
<1>2. /\ s \in Seq(S) /\ t \in Seq(S) /\ u \in Seq(S)
  BY <1>1
<1>3. Len(s) = 3 /\ Len(t) = 1 /\ Len(u) = 4
  OBVIOUS
<1>4. u[1] = s[1] /\ u[2] = s[2] /\ u[3] = s[3] /\ u[3 + 1] = t[1]
  OBVIOUS
<1> HIDE DEF s, t, u
<1>5. \A i \in 1..Len(s) : u[i] = s[i]
  BY <1>3, <1>4
<1>6. \A i \in 1..Len(t) : u[Len(s) + i] = t[i]
  BY <1>3, <1>4
<1>7. Len(u) = Len(s) + Len(t)
  BY <1>3
<1>8. s \o t = u
  BY <1>2, <1>5, <1>6, <1>7, JoinIs, Zenon
<1>9. QED
  BY <1>8 DEF s, t, u

\* p, and what follows it when loop is the loop of the thread.
After(p, loop) == IF Tail(p) = <<>> THEN loop ELSE Tail(p)
Goes(p, q, c, d) == p # <<>> /\ q # <<>> /\ Head(p) = c /\ Head(q) = d

\* The calls of a thread that receives, that relays, that looks a label up, that waits for an
\* answer, and of one that uses numbers: where each leads to.
LEMMA ReceivesGoes ==
  ASSUME NEW p \in Receives, NEW q, q = After(p, <<"recv">>)
  PROVE  /\ q \in Receives
         /\ \/ Goes(p, q, "label", "bind") \/ Goes(p, q, "bind", "recv") \/ Goes(p, q, "recv", "recv")
<1>1. CASE p = <<"label", "bind", "recv">>
  BY <1>1, TailsOf DEF After, Goes, Receives
<1>2. CASE p = <<"bind", "recv">>
  BY <1>2, TailsOf DEF After, Goes, Receives
<1>3. CASE p = <<"recv">>
  BY <1>3, TailsOf DEF After, Goes, Receives
<1>4. QED
  BY <1>1, <1>2, <1>3 DEF Receives

LEMMA RelaysGoes ==
  ASSUME NEW p \in Relays, NEW q, q = After(p, <<"read", "write">>)
  PROVE  /\ q \in Relays
         /\ \/ Goes(p, q, "open", "read") \/ Goes(p, q, "read", "write") \/ Goes(p, q, "write", "read")
<1>1. CASE p = <<"open", "read", "write">>
  BY <1>1, TailsOf DEF After, Goes, Relays
<1>2. CASE p = <<"read", "write">>
  BY <1>2, TailsOf DEF After, Goes, Relays
<1>3. CASE p = <<"write">>
  BY <1>3, TailsOf DEF After, Goes, Relays
<1>4. QED
  BY <1>1, <1>2, <1>3 DEF Relays

LEMMA SeeksGoes ==
  ASSUME NEW p \in Seeks, NEW q, q = After(p, <<"send">>)
  PROVE  /\ q \in Seeks
         /\ \/ Goes(p, q, "label", "lookup") \/ Goes(p, q, "lookup", "send")
            \/ Goes(p, q, "send", "send")
<1>1. CASE p = <<"label", "lookup", "send">>
  BY <1>1, TailsOf DEF After, Goes, Seeks
<1>2. CASE p = <<"lookup", "send">>
  BY <1>2, TailsOf DEF After, Goes, Seeks
<1>3. CASE p = <<"send">>
  BY <1>3, TailsOf DEF After, Goes, Seeks
<1>4. QED
  BY <1>1, <1>2, <1>3 DEF Seeks

LEMMA SeeksAfterGoes ==
  ASSUME NEW c, NEW p \in SeeksAfter(c), NEW q, q = After(p, <<"send">>)
  PROVE  /\ q \in SeeksAfter(c)
         /\ \/ Goes(p, q, c, "label") \/ Goes(p, q, "label", "lookup")
            \/ Goes(p, q, "lookup", "send") \/ Goes(p, q, "send", "send")
<1>1. CASE p \in Seeks
  BY <1>1, SeeksGoes, Zenon DEF SeeksAfter
<1>2. CASE p = <<c, "label", "lookup", "send">>
  BY <1>2, TailsOf DEF After, Goes, SeeksAfter, Seeks
<1>3. QED
  BY <1>1, <1>2 DEF SeeksAfter

LEMMA AnswersGoes ==
  ASSUME NEW c, NEW p \in Answers(c), NEW q, q = After(p, <<c, "recv">>)
  PROVE  /\ q \in Answers(c)
         /\ Goes(p, q, "bind", c) \/ Goes(p, q, c, "recv") \/ Goes(p, q, "recv", c)
<1>1. CASE p = <<"bind", c, "recv">>
  BY <1>1, TailsOf DEF After, Goes, Answers
<1>2. CASE p = <<c, "recv">>
  BY <1>2, TailsOf DEF After, Goes, Answers
<1>3. CASE p = <<"recv">>
  BY <1>3, TailsOf DEF After, Goes, Answers
<1>4. QED
  BY <1>1, <1>2, <1>3 DEF Answers

LEMMA NumberedGoes ==
  ASSUME NEW c, NEW d, NEW p \in Numbered(c, d), NEW q, q = After(p, <<d>>)
  PROVE  q \in Numbered(c, d) /\ (Goes(p, q, c, d) \/ Goes(p, q, d, d))
<1>1. CASE p = <<c, d>>
  BY <1>1, TailsOf DEF After, Goes, Numbered
<1>2. CASE p = <<d>>
  BY <1>2, TailsOf DEF After, Goes, Numbered
<1>3. QED
  BY <1>1, <1>2 DEF Numbered

Starts == {"label", "bind", "rcvtimeo", "open", "connect"}
Turns(t) ==
  /\ Begins(t) \in Places[demo][t] /\ Head(Begins(t)) \in Starts
  /\ \A p \in Places[demo][t] : Turn(t, p, After(p, Program[demo].loop[t]))
TurnsOf == Roles /\ \A t \in IpcThreads : Turns(t)

\* Each of the seven programs makes its calls in the order of its places.
LEMMA XddpLabelTurns ==
  ASSUME demo = "xddp_label" PROVE TurnsOf
<1>1. /\ Program[demo] = XddpLabel /\ Order = <<"rt1", "rt2", "nrt">>
      /\ IpcThreads = {"rt1", "rt2", "nrt"} /\ Xddp
  BY DEF Program, Order, IpcThreads, Xddp, XddpLabel, ToSet
<1>2. Consumer = "rt1"
  BY <1>1 DEF Consumer, XddpLabel, ToSet
<1>3. Roles
  BY <1>1, <1>2 DEF Roles
<1>4. Turns("rt1")
  <2>1. /\ Places[demo]["rt1"] = Receives
        /\ Program[demo].setup["rt1"] = <<"label", "bind">> /\ Program[demo].loop["rt1"] = <<"recv">>
    BY <1>1 DEF Places, XddpLabel
  <2>2. Begins("rt1") = <<"label", "bind", "recv">>
    BY <2>1, JoinTwoOne DEF Begins
  <2>3. Begins("rt1") \in Places[demo]["rt1"] /\ Head(Begins("rt1")) \in Starts
    BY <2>1, <2>2, TailsOf DEF Receives, Starts
  <2>4. ASSUME NEW p \in Places[demo]["rt1"], NEW q, q = After(p, Program[demo].loop["rt1"])
        PROVE  Turn("rt1", p, q)
    <3>1. p \in Receives /\ q = After(p, <<"recv">>)
      BY <2>1, <2>4
    <3>2. QED
      BY <1>1, <1>2, <2>1, <3>1, ReceivesGoes DEF Turn, Goes, MayCall, Follows
  <2>5. QED
    BY <2>3, <2>4 DEF Turns
<1>5. Turns("rt2")
  <2>1. /\ Places[demo]["rt2"] = SeeksAfter("rcvtimeo")
        /\ Program[demo].setup["rt2"] = <<"rcvtimeo", "label", "lookup">> /\ Program[demo].loop["rt2"] = <<"send">>
    BY <1>1 DEF Places, XddpLabel
  <2>2. Begins("rt2") = <<"rcvtimeo", "label", "lookup", "send">>
    BY <2>1, JoinThreeOne DEF Begins
  <2>3. Begins("rt2") \in Places[demo]["rt2"] /\ Head(Begins("rt2")) \in Starts
    BY <2>1, <2>2, TailsOf DEF SeeksAfter, Starts
  <2>4. ASSUME NEW p \in Places[demo]["rt2"], NEW q, q = After(p, Program[demo].loop["rt2"])
        PROVE  Turn("rt2", p, q)
    <3>1. p \in SeeksAfter("rcvtimeo") /\ q = After(p, <<"send">>)
      BY <2>1, <2>4
    <3>2. QED
      BY <1>1, <1>2, <2>1, <3>1, SeeksAfterGoes DEF Turn, Goes, MayCall, Follows
  <2>5. QED
    BY <2>3, <2>4 DEF Turns
<1>6. Turns("nrt")
  <2>1. /\ Places[demo]["nrt"] = Relays
        /\ Program[demo].setup["nrt"] = <<"open">> /\ Program[demo].loop["nrt"] = <<"read", "write">>
    BY <1>1 DEF Places, XddpLabel
  <2>2. Begins("nrt") = <<"open", "read", "write">>
    BY <2>1, JoinOneTwo DEF Begins
  <2>3. Begins("nrt") \in Places[demo]["nrt"] /\ Head(Begins("nrt")) \in Starts
    BY <2>1, <2>2, TailsOf DEF Relays, Starts
  <2>4. ASSUME NEW p \in Places[demo]["nrt"], NEW q, q = After(p, Program[demo].loop["nrt"])
        PROVE  Turn("nrt", p, q)
    <3>1. p \in Relays /\ q = After(p, <<"read", "write">>)
      BY <2>1, <2>4
    <3>2. QED
      BY <1>1, <1>2, <2>1, <3>1, RelaysGoes DEF Turn, Goes, MayCall, Follows
  <2>5. QED
    BY <2>3, <2>4 DEF Turns
<1>7. QED
  BY <1>1, <1>3, <1>4, <1>5, <1>6 DEF TurnsOf

LEMMA XddpEchoTurns ==
  ASSUME demo = "xddp_echo" PROVE TurnsOf
<1>1. /\ Program[demo] = XddpEcho /\ Order = <<"rt", "nrt">>
      /\ IpcThreads = {"rt", "nrt"} /\ Xddp
  BY DEF Program, Order, IpcThreads, Xddp, XddpEcho, ToSet
<1>2. Consumer = "rt"
  BY <1>1 DEF Consumer, XddpEcho, ToSet
<1>3. Roles
  BY <1>1, <1>2 DEF Roles
<1>4. Turns("rt")
  <2>1. /\ Places[demo]["rt"] = Answers("send")
        /\ Program[demo].setup["rt"] = <<"bind">> /\ Program[demo].loop["rt"] = <<"send", "recv">>
    BY <1>1 DEF Places, XddpEcho
  <2>2. Begins("rt") = <<"bind", "send", "recv">>
    BY <2>1, JoinOneTwo DEF Begins
  <2>3. Begins("rt") \in Places[demo]["rt"] /\ Head(Begins("rt")) \in Starts
    BY <2>1, <2>2, TailsOf DEF Answers, Starts
  <2>4. ASSUME NEW p \in Places[demo]["rt"], NEW q, q = After(p, Program[demo].loop["rt"])
        PROVE  Turn("rt", p, q)
    <3>1. p \in Answers("send") /\ q = After(p, <<"send", "recv">>)
      BY <2>1, <2>4
    <3>2. QED
      BY <1>1, <1>2, <2>1, <3>1, AnswersGoes DEF Turn, Goes, MayCall, Follows
  <2>5. QED
    BY <2>3, <2>4 DEF Turns
<1>5. Turns("nrt")
  <2>1. /\ Places[demo]["nrt"] = Relays
        /\ Program[demo].setup["nrt"] = <<"open">> /\ Program[demo].loop["nrt"] = <<"read", "write">>
    BY <1>1 DEF Places, XddpEcho
  <2>2. Begins("nrt") = <<"open", "read", "write">>
    BY <2>1, JoinOneTwo DEF Begins
  <2>3. Begins("nrt") \in Places[demo]["nrt"] /\ Head(Begins("nrt")) \in Starts
    BY <2>1, <2>2, TailsOf DEF Relays, Starts
  <2>4. ASSUME NEW p \in Places[demo]["nrt"], NEW q, q = After(p, Program[demo].loop["nrt"])
        PROVE  Turn("nrt", p, q)
    <3>1. p \in Relays /\ q = After(p, <<"read", "write">>)
      BY <2>1, <2>4
    <3>2. QED
      BY <1>1, <1>2, <2>1, <3>1, RelaysGoes DEF Turn, Goes, MayCall, Follows
  <2>5. QED
    BY <2>3, <2>4 DEF Turns
<1>6. QED
  BY <1>1, <1>3, <1>4, <1>5 DEF TurnsOf

LEMMA XddpStreamTurns ==
  ASSUME demo = "xddp_stream" PROVE TurnsOf
<1>1. /\ Program[demo] = XddpStream /\ Order = <<"rt", "nrt">>
      /\ IpcThreads = {"rt", "nrt"} /\ Xddp
  BY DEF Program, Order, IpcThreads, Xddp, XddpStream, ToSet
<1>2. Consumer = "rt"
  BY <1>1 DEF Consumer, XddpStream, ToSet
<1>3. Roles
  BY <1>1, <1>2 DEF Roles
<1>4. Turns("rt")
  <2>1. /\ Places[demo]["rt"] = Answers("scatter")
        /\ Program[demo].setup["rt"] = <<"bind">> /\ Program[demo].loop["rt"] = <<"scatter", "recv">>
    BY <1>1 DEF Places, XddpStream
  <2>2. Begins("rt") = <<"bind", "scatter", "recv">>
    BY <2>1, JoinOneTwo DEF Begins
  <2>3. Begins("rt") \in Places[demo]["rt"] /\ Head(Begins("rt")) \in Starts
    BY <2>1, <2>2, TailsOf DEF Answers, Starts
  <2>4. ASSUME NEW p \in Places[demo]["rt"], NEW q, q = After(p, Program[demo].loop["rt"])
        PROVE  Turn("rt", p, q)
    <3>1. p \in Answers("scatter") /\ q = After(p, <<"scatter", "recv">>)
      BY <2>1, <2>4
    <3>2. QED
      BY <1>1, <1>2, <2>1, <3>1, AnswersGoes DEF Turn, Goes, MayCall, Follows
  <2>5. QED
    BY <2>3, <2>4 DEF Turns
<1>5. Turns("nrt")
  <2>1. /\ Places[demo]["nrt"] = Relays
        /\ Program[demo].setup["nrt"] = <<"open">> /\ Program[demo].loop["nrt"] = <<"read", "write">>
    BY <1>1 DEF Places, XddpStream
  <2>2. Begins("nrt") = <<"open", "read", "write">>
    BY <2>1, JoinOneTwo DEF Begins
  <2>3. Begins("nrt") \in Places[demo]["nrt"] /\ Head(Begins("nrt")) \in Starts
    BY <2>1, <2>2, TailsOf DEF Relays, Starts
  <2>4. ASSUME NEW p \in Places[demo]["nrt"], NEW q, q = After(p, Program[demo].loop["nrt"])
        PROVE  Turn("nrt", p, q)
    <3>1. p \in Relays /\ q = After(p, <<"read", "write">>)
      BY <2>1, <2>4
    <3>2. QED
      BY <1>1, <1>2, <2>1, <3>1, RelaysGoes DEF Turn, Goes, MayCall, Follows
  <2>5. QED
    BY <2>3, <2>4 DEF Turns
<1>6. QED
  BY <1>1, <1>3, <1>4, <1>5 DEF TurnsOf

LEMMA IddpLabelTurns ==
  ASSUME demo = "iddp_label" PROVE TurnsOf
<1>1. /\ Program[demo] = IddpLabel /\ Order = <<"server", "client">>
      /\ IpcThreads = {"server", "client"} /\ ~ Xddp
  BY DEF Program, Order, IpcThreads, Xddp, IddpLabel, ToSet
<1>2. Consumer = "server"
  BY <1>1 DEF Consumer, IddpLabel, ToSet
<1>3. Roles
  BY <1>1, <1>2 DEF Roles
<1>4. Turns("server")
  <2>1. /\ Places[demo]["server"] = Receives
        /\ Program[demo].setup["server"] = <<"label", "bind">> /\ Program[demo].loop["server"] = <<"recv">>
    BY <1>1 DEF Places, IddpLabel
  <2>2. Begins("server") = <<"label", "bind", "recv">>
    BY <2>1, JoinTwoOne DEF Begins
  <2>3. Begins("server") \in Places[demo]["server"] /\ Head(Begins("server")) \in Starts
    BY <2>1, <2>2, TailsOf DEF Receives, Starts
  <2>4. ASSUME NEW p \in Places[demo]["server"], NEW q, q = After(p, Program[demo].loop["server"])
        PROVE  Turn("server", p, q)
    <3>1. p \in Receives /\ q = After(p, <<"recv">>)
      BY <2>1, <2>4
    <3>2. QED
      BY <1>1, <1>2, <2>1, <3>1, ReceivesGoes DEF Turn, Goes, MayCall, Follows
  <2>5. QED
    BY <2>3, <2>4 DEF Turns
<1>5. Turns("client")
  <2>1. /\ Places[demo]["client"] = SeeksAfter("bind")
        /\ Program[demo].setup["client"] = <<"bind", "label", "lookup">> /\ Program[demo].loop["client"] = <<"send">>
    BY <1>1 DEF Places, IddpLabel
  <2>2. Begins("client") = <<"bind", "label", "lookup", "send">>
    BY <2>1, JoinThreeOne DEF Begins
  <2>3. Begins("client") \in Places[demo]["client"] /\ Head(Begins("client")) \in Starts
    BY <2>1, <2>2, TailsOf DEF SeeksAfter, Starts
  <2>4. ASSUME NEW p \in Places[demo]["client"], NEW q, q = After(p, Program[demo].loop["client"])
        PROVE  Turn("client", p, q)
    <3>1. p \in SeeksAfter("bind") /\ q = After(p, <<"send">>)
      BY <2>1, <2>4
    <3>2. QED
      BY <1>1, <1>2, <2>1, <3>1, SeeksAfterGoes DEF Turn, Goes, MayCall, Follows
  <2>5. QED
    BY <2>3, <2>4 DEF Turns
<1>6. QED
  BY <1>1, <1>3, <1>4, <1>5 DEF TurnsOf

LEMMA IddpSendrecvTurns ==
  ASSUME demo = "iddp_sendrecv" PROVE TurnsOf
<1>1. /\ Program[demo] = IddpSendrecv /\ Order = <<"server", "client">>
      /\ IpcThreads = {"server", "client"} /\ ~ Xddp
  BY DEF Program, Order, IpcThreads, Xddp, IddpSendrecv, ToSet
<1>2. Consumer = "server"
  BY <1>1 DEF Consumer, IddpSendrecv, ToSet
<1>3. Roles
  BY <1>1, <1>2 DEF Roles
<1>4. Turns("server")
  <2>1. /\ Places[demo]["server"] = Receives
        /\ Program[demo].setup["server"] = <<"bind">> /\ Program[demo].loop["server"] = <<"recv">>
    BY <1>1 DEF Places, IddpSendrecv
  <2>2. Begins("server") = <<"bind", "recv">>
    BY <2>1, JoinOneOne DEF Begins
  <2>3. Begins("server") \in Places[demo]["server"] /\ Head(Begins("server")) \in Starts
    BY <2>1, <2>2, TailsOf DEF Receives, Starts
  <2>4. ASSUME NEW p \in Places[demo]["server"], NEW q, q = After(p, Program[demo].loop["server"])
        PROVE  Turn("server", p, q)
    <3>1. p \in Receives /\ q = After(p, <<"recv">>)
      BY <2>1, <2>4
    <3>2. QED
      BY <1>1, <1>2, <2>1, <3>1, ReceivesGoes DEF Turn, Goes, MayCall, Follows
  <2>5. QED
    BY <2>3, <2>4 DEF Turns
<1>5. Turns("client")
  <2>1. /\ Places[demo]["client"] = Numbered("bind", "sendto")
        /\ Program[demo].setup["client"] = <<"bind">> /\ Program[demo].loop["client"] = <<"sendto">>
    BY <1>1 DEF Places, IddpSendrecv
  <2>2. Begins("client") = <<"bind", "sendto">>
    BY <2>1, JoinOneOne DEF Begins
  <2>3. Begins("client") \in Places[demo]["client"] /\ Head(Begins("client")) \in Starts
    BY <2>1, <2>2, TailsOf DEF Numbered, Starts
  <2>4. ASSUME NEW p \in Places[demo]["client"], NEW q, q = After(p, Program[demo].loop["client"])
        PROVE  Turn("client", p, q)
    <3>1. p \in Numbered("bind", "sendto") /\ q = After(p, <<"sendto">>)
      BY <2>1, <2>4
    <3>2. QED
      BY <1>1, <1>2, <2>1, <3>1, NumberedGoes DEF Turn, Goes, MayCall, Follows
  <2>5. QED
    BY <2>3, <2>4 DEF Turns
<1>6. QED
  BY <1>1, <1>3, <1>4, <1>5 DEF TurnsOf

LEMMA BufpLabelTurns ==
  ASSUME demo = "bufp_label" PROVE TurnsOf
<1>1. /\ Program[demo] = BufpLabel /\ Order = <<"server", "client">>
      /\ IpcThreads = {"server", "client"} /\ ~ Xddp
  BY DEF Program, Order, IpcThreads, Xddp, BufpLabel, ToSet
<1>2. Consumer = "server"
  BY <1>1 DEF Consumer, BufpLabel, ToSet
<1>3. Roles
  BY <1>1, <1>2 DEF Roles
<1>4. Turns("server")
  <2>1. /\ Places[demo]["server"] = Receives
        /\ Program[demo].setup["server"] = <<"label", "bind">> /\ Program[demo].loop["server"] = <<"recv">>
    BY <1>1 DEF Places, BufpLabel
  <2>2. Begins("server") = <<"label", "bind", "recv">>
    BY <2>1, JoinTwoOne DEF Begins
  <2>3. Begins("server") \in Places[demo]["server"] /\ Head(Begins("server")) \in Starts
    BY <2>1, <2>2, TailsOf DEF Receives, Starts
  <2>4. ASSUME NEW p \in Places[demo]["server"], NEW q, q = After(p, Program[demo].loop["server"])
        PROVE  Turn("server", p, q)
    <3>1. p \in Receives /\ q = After(p, <<"recv">>)
      BY <2>1, <2>4
    <3>2. QED
      BY <1>1, <1>2, <2>1, <3>1, ReceivesGoes DEF Turn, Goes, MayCall, Follows
  <2>5. QED
    BY <2>3, <2>4 DEF Turns
<1>5. Turns("client")
  <2>1. /\ Places[demo]["client"] = Seeks
        /\ Program[demo].setup["client"] = <<"label", "lookup">> /\ Program[demo].loop["client"] = <<"send">>
    BY <1>1 DEF Places, BufpLabel
  <2>2. Begins("client") = <<"label", "lookup", "send">>
    BY <2>1, JoinTwoOne DEF Begins
  <2>3. Begins("client") \in Places[demo]["client"] /\ Head(Begins("client")) \in Starts
    BY <2>1, <2>2, TailsOf DEF Seeks, Starts
  <2>4. ASSUME NEW p \in Places[demo]["client"], NEW q, q = After(p, Program[demo].loop["client"])
        PROVE  Turn("client", p, q)
    <3>1. p \in Seeks /\ q = After(p, <<"send">>)
      BY <2>1, <2>4
    <3>2. QED
      BY <1>1, <1>2, <2>1, <3>1, SeeksGoes DEF Turn, Goes, MayCall, Follows
  <2>5. QED
    BY <2>3, <2>4 DEF Turns
<1>6. QED
  BY <1>1, <1>3, <1>4, <1>5 DEF TurnsOf

LEMMA BufpReadwriteTurns ==
  ASSUME demo = "bufp_readwrite" PROVE TurnsOf
<1>1. /\ Program[demo] = BufpReadwrite /\ Order = <<"server", "client">>
      /\ IpcThreads = {"server", "client"} /\ ~ Xddp
  BY DEF Program, Order, IpcThreads, Xddp, BufpReadwrite, ToSet
<1>2. Consumer = "server"
  BY <1>1 DEF Consumer, BufpReadwrite, ToSet
<1>3. Roles
  BY <1>1, <1>2 DEF Roles
<1>4. Turns("server")
  <2>1. /\ Places[demo]["server"] = Receives
        /\ Program[demo].setup["server"] = <<"bind">> /\ Program[demo].loop["server"] = <<"recv">>
    BY <1>1 DEF Places, BufpReadwrite
  <2>2. Begins("server") = <<"bind", "recv">>
    BY <2>1, JoinOneOne DEF Begins
  <2>3. Begins("server") \in Places[demo]["server"] /\ Head(Begins("server")) \in Starts
    BY <2>1, <2>2, TailsOf DEF Receives, Starts
  <2>4. ASSUME NEW p \in Places[demo]["server"], NEW q, q = After(p, Program[demo].loop["server"])
        PROVE  Turn("server", p, q)
    <3>1. p \in Receives /\ q = After(p, <<"recv">>)
      BY <2>1, <2>4
    <3>2. QED
      BY <1>1, <1>2, <2>1, <3>1, ReceivesGoes DEF Turn, Goes, MayCall, Follows
  <2>5. QED
    BY <2>3, <2>4 DEF Turns
<1>5. Turns("client")
  <2>1. /\ Places[demo]["client"] = Numbered("connect", "send")
        /\ Program[demo].setup["client"] = <<"connect">> /\ Program[demo].loop["client"] = <<"send">>
    BY <1>1 DEF Places, BufpReadwrite
  <2>2. Begins("client") = <<"connect", "send">>
    BY <2>1, JoinOneOne DEF Begins
  <2>3. Begins("client") \in Places[demo]["client"] /\ Head(Begins("client")) \in Starts
    BY <2>1, <2>2, TailsOf DEF Numbered, Starts
  <2>4. ASSUME NEW p \in Places[demo]["client"], NEW q, q = After(p, Program[demo].loop["client"])
        PROVE  Turn("client", p, q)
    <3>1. p \in Numbered("connect", "send") /\ q = After(p, <<"send">>)
      BY <2>1, <2>4
    <3>2. QED
      BY <1>1, <1>2, <2>1, <3>1, NumberedGoes DEF Turn, Goes, MayCall, Follows
  <2>5. QED
    BY <2>3, <2>4 DEF Turns
<1>6. QED
  BY <1>1, <1>3, <1>4, <1>5 DEF TurnsOf

\* So does the one that runs.
LEMMA TurnsHold ==
  ASSUME demo \in Demos PROVE TurnsOf
<1>1. Demos = {"xddp_label", "xddp_echo", "xddp_stream", "iddp_label", "iddp_sendrecv", "bufp_label",
               "bufp_readwrite"}
  BY DEF Demos, Program
<1>2. QED
  BY <1>1, XddpLabelTurns, XddpEchoTurns, XddpStreamTurns, IddpLabelTurns, IddpSendrecvTurns,
     BufpLabelTurns, BufpReadwriteTurns

\* What a thread calls now, and what it calls next.
LEMMA Now ==
  ASSUME IpcTypes
  PROVE  Roles /\ \A t \in IpcThreads : MayCall(t, NextCall(t))
<1>1. TurnsOf
  BY TurnsHold DEF IpcTypes
<1>2. ASSUME NEW t \in IpcThreads PROVE MayCall(t, NextCall(t))
  <2>1. at[t] \in Places[demo][t]
    BY DEF IpcTypes, InPlaces
  <2>2. Turn(t, at[t], After(at[t], Program[demo].loop[t]))
    BY <1>1, <2>1 DEF TurnsOf, Turns
  <2>3. QED
    BY <2>2 DEF Turn, NextCall
<1>3. QED
  BY <1>1, <1>2 DEF TurnsOf

Moves(t) ==
  /\ demo' = demo /\ InPlaces'
  /\ Follows(t, NextCall(t), NextCall(t)')
  /\ \A u \in IpcThreads : u # t => NextCall(u)' = NextCall(u)

\* A thread that goes on comes to the next of its places.
LEMMA Onwards ==
  ASSUME IpcTypes, NEW t \in IpcThreads, GoesOn(t), demo' = demo
  PROVE  Moves(t)
<1> DEFINE q == After(at[t], Program[demo].loop[t])
<1>1. at[t] \in Places[demo][t] /\ DOMAIN at = IpcThreads
  BY DEF IpcTypes, InPlaces
<1>2. at' = [at EXCEPT ![t] = q]
  BY DEF GoesOn, After
<1>3. Turn(t, at[t], q)
  BY <1>1, TurnsHold DEF IpcTypes, TurnsOf, Turns
<1> HIDE DEF q
<1>4. at'[t] = q /\ \A u \in IpcThreads : u # t => at'[u] = at[u]
  BY <1>1, <1>2
<1>5. IpcThreads' = IpcThreads
  BY DEF IpcThreads, Order
<1>6. at' = [u \in IpcThreads |-> at'[u]]
  BY <1>1, <1>2
<1>7. \A u \in IpcThreads : at'[u] \in Places[demo][u]
  BY <1>3, <1>4 DEF IpcTypes, InPlaces, Turn
<1>8. InPlaces'
  BY <1>5, <1>6, <1>7 DEF InPlaces
<1>9. Follows(t, NextCall(t), NextCall(t)')
  BY <1>3, <1>4 DEF Turn, NextCall
<1>10. QED
  BY <1>4, <1>8, <1>9 DEF Moves, NextCall

(***************************************************************************)
(* Labels, bindings and connections                                        *)
(***************************************************************************)
SocketTypes ==
  /\ demo \in Demos /\ InPlaces
  /\ labelled \subseteq IpcThreads /\ bound \subseteq IpcThreads
  /\ registry \in IpcThreads \cup {"none"} /\ peer \in [IpcThreads -> IpcThreads \cup {"none"}]

\* What depends on the program only.
LEMMA SameDemo ==
  ASSUME demo' = demo
  PROVE  IpcThreads' = IpcThreads /\ Xddp' = Xddp /\ Bytes' = Bytes /\ Consumer' = Consumer
BY DEF IpcThreads, Order, Xddp, Bytes, Consumer

\* A thread goes on, and no socket changes.
LEMMA OthersKeepNames ==
  ASSUME IpcTypes, NamesInv, NEW t \in IpcThreads, Moves(t), UNCHANGED sockets,
         NextCall(t) \notin {"label", "bind", "lookup", "connect"}
  PROVE  NamesInv'
<1>1. SUFFICES ASSUME ~ Xddp PROVE NamesInv'
  BY SameDemo DEF Moves, NamesInv
<1>2. IpcThreads = {"server", "client"} /\ t \in {"server", "client"}
  BY <1>1, Now DEF Roles
<1>3. UNCHANGED <<demo, labelled, registry, bound, peer>>
  BY DEF Moves, sockets
<1>4. CASE t = "server"
  BY <1>1, <1>2, <1>3, <1>4 DEF NamesInv, Moves, Follows
<1>5. CASE t = "client"
  BY <1>1, <1>2, <1>3, <1>5 DEF NamesInv, Moves, Follows
<1>6. QED
  BY <1>2, <1>4, <1>5

\* A label is set before the bind, or before the lookup of the client.
LEMMA SetLabelKeepsNames ==
  ASSUME IpcTypes, NamesInv, NEW t \in IpcThreads, SetLabel(t), demo' = demo, Moves(t)
  PROVE  SocketTypes' /\ NamesInv'
<1>1. NextCall(t) = "label" /\ labelled' = labelled \cup {t} /\ UNCHANGED <<registry, bound, peer>>
  BY DEF SetLabel, Calls, NextCall
<1>2. SocketTypes'
  BY <1>1, SameDemo DEF IpcTypes, SocketTypes, Moves
<1>3. ASSUME ~ Xddp PROVE NamesInv'
  <2>1. IpcThreads = {"server", "client"} /\ t \in {"server", "client"}
    BY <1>3, Now DEF Roles
  <2>2. CASE t = "server"
    BY <1>1, <1>3, <2>1, <2>2 DEF NamesInv, Moves, Follows
  <2>3. CASE t = "client"
    BY <1>1, <1>3, <2>1, <2>3 DEF NamesInv, Moves, Follows
  <2>4. QED
    BY <2>1, <2>2, <2>3
<1>4. QED
  BY <1>2, <1>3, SameDemo DEF NamesInv

\* A bind that is not refused.
BindGoes(t) ==
  /\ NextCall(t) = "bind" /\ bound' = bound \cup {t}
  /\ registry' = IF t \in labelled THEN t ELSE registry
  /\ UNCHANGED <<demo, labelled, peer>>

LEMMA BindKeepsNames ==
  ASSUME IpcTypes, NamesInv, NEW t \in IpcThreads, BindGoes(t), Moves(t)
  PROVE  SocketTypes' /\ NamesInv'
<1>1. /\ NextCall(t) = "bind" /\ bound' = bound \cup {t} /\ UNCHANGED <<demo, labelled, peer>>
      /\ registry' = IF t \in labelled THEN t ELSE registry
  BY DEF BindGoes
<1>2. SocketTypes'
  BY <1>1, SameDemo DEF IpcTypes, SocketTypes, Moves
<1>3. ASSUME ~ Xddp PROVE NamesInv'
  <2>1. IpcThreads = {"server", "client"} /\ t \in {"server", "client"}
    BY <1>3, Now DEF Roles
  <2>2. CASE t = "server"
    BY <1>1, <1>3, <2>1, <2>2 DEF NamesInv, Moves, Follows
  <2>3. CASE t = "client"
    BY <1>1, <1>3, <2>1, <2>3 DEF NamesInv, Moves, Follows
  <2>4. QED
    BY <2>1, <2>2, <2>3
<1>4. QED
  BY <1>1, <1>2, <1>3, SameDemo DEF NamesInv

\* A connect that is not refused, by label or by number.
LookupGoes(t) ==
  /\ UNCHANGED <<demo, labelled, registry, bound>>
  /\ \/ NextCall(t) = "lookup" /\ registry # "none" /\ peer' = [peer EXCEPT ![t] = registry]
     \/ NextCall(t) = "connect" /\ peer' = [peer EXCEPT ![t] = "server"]

LEMMA LookupKeepsNames ==
  ASSUME IpcTypes, NamesInv, NEW t \in IpcThreads, LookupGoes(t), Moves(t)
  PROVE  SocketTypes' /\ NamesInv'
<1>1. NextCall(t) = "connect" => "server" \in IpcThreads
  BY Now DEF MayCall, Roles
<1>2. SocketTypes'
  BY <1>1, SameDemo DEF IpcTypes, SocketTypes, Moves, LookupGoes
<1>3. ASSUME ~ Xddp PROVE NamesInv'
  <2>1. IpcThreads = {"server", "client"} /\ t = "client"
    BY <1>3, Now DEF Roles, MayCall, LookupGoes
  <2>2. peer'["client"] = IF NextCall(t) = "lookup" THEN registry ELSE "server"
    BY <2>1 DEF IpcTypes, LookupGoes
  <2>3. QED
    BY <1>3, <2>1, <2>2 DEF NamesInv, Moves, Follows, LookupGoes
<1>4. QED
  BY <1>2, <1>3, SameDemo DEF NamesInv, LookupGoes

\* A step of a thread changes no socket, or a label, a binding or a connection; it goes on
\* or the process ends.
LEMMA StepKinds ==
  ASSUME NEW t \in IpcThreads, Step(t)
  PROVE  \/ UNCHANGED <<demo, at, sockets, data>> /\ ended' = "refused"
         \/ ended' = ended /\ UNCHANGED <<demo, sockets>> /\ Scatter(t)
         \/ /\ ended' = ended /\ GoesOn(t) /\ UNCHANGED <<demo, sockets>>
            /\ NextCall(t) \notin {"label", "bind", "lookup", "connect"}
         \/ /\ ended' = ended /\ GoesOn(t) /\ UNCHANGED <<demo, data>>
            /\ SetLabel(t) \/ BindGoes(t) \/ LookupGoes(t)
<1>1. demo' = demo
  BY DEF Step
<1>2. CASE SetTimeout(t) \/ Open(t)
  BY <1>1, <1>2 DEF SetTimeout, Open, Fail, Calls, NextCall
<1>3. CASE SetLabel(t)
  BY <1>1, <1>3 DEF SetLabel
<1>4. CASE Bind(t)
  BY <1>1, <1>4 DEF Bind, BindGoes, Fail, Calls, NextCall
<1>5. CASE Lookup(t) \/ Connect(t)
  BY <1>1, <1>5 DEF Lookup, Connect, LookupGoes, Fail, Calls, NextCall
<1>6. CASE Send(t)
  BY <1>1, <1>6 DEF Send, Fail, Calls, NextCall
<1>7. CASE Scatter(t)
  BY <1>1, <1>7 DEF Scatter
<1>8. CASE Recv(t) \/ Read(t) \/ Write(t)
  BY <1>1, <1>8 DEF Recv, Read, Write, Calls, NextCall
<1>9. QED
  BY <1>2, <1>3, <1>4, <1>5, <1>6, <1>7, <1>8 DEF Step

\* A step that no socket sees.
LEMMA QuietKeepsNames ==
  ASSUME IpcTypes, NamesInv, UNCHANGED <<demo, at, sockets>>
  PROVE  SocketTypes' /\ NamesInv'
BY SameDemo DEF IpcTypes, SocketTypes, NamesInv, InPlaces, NextCall, sockets

\* Every call of a thread keeps the names in order.
LEMMA StepKeepsNames ==
  ASSUME IpcTypes, NamesInv, NEW t \in IpcThreads, Step(t)
  PROVE  SocketTypes' /\ NamesInv'
<1>1. demo' = demo
  BY DEF Step
<1>2. CASE GoesOn(t)
  <2>1. Moves(t)
    BY <1>1, <1>2, Onwards
  <2>2. CASE UNCHANGED sockets /\ NextCall(t) \notin {"label", "bind", "lookup", "connect"}
    <3>1. SocketTypes'
      BY <1>1, <2>1, <2>2, SameDemo DEF IpcTypes, SocketTypes, Moves, sockets
    <3>2. QED
      BY <2>1, <2>2, <3>1, OthersKeepNames
  <2>3. CASE SetLabel(t) \/ BindGoes(t) \/ LookupGoes(t)
    BY <1>1, <2>1, <2>3, SetLabelKeepsNames, BindKeepsNames, LookupKeepsNames
  <2>4. CASE UNCHANGED <<demo, at, sockets, data>>
    BY <2>4, QuietKeepsNames
  <2>5. CASE Scatter(t) /\ UNCHANGED sockets
    <3>1. NextCall(t) = "scatter"
      BY <2>5 DEF Scatter, Calls, NextCall
    <3>2. QED
      BY <2>2, <2>5, <3>1
  <2>6. QED
    BY <2>2, <2>3, <2>4, <2>5, StepKinds
<1>3. CASE ~ GoesOn(t)
  <2>1. UNCHANGED <<demo, at, sockets>>
    BY <1>3, StepKinds DEF Scatter, sockets
  <2>2. QED
    BY <2>1, QuietKeepsNames
<1>4. QED
  BY <1>2, <1>3

\* Where a program connects by label without a timeout, nothing is refused.
LEMMA StepIsNotRefused ==
  ASSUME IpcTypes, NamesInv, NEW t \in IpcThreads, Step(t), demo \in {"iddp_label", "bufp_label"},
         ended # "refused"
  PROVE  ended' # "refused"
<1>1. ~ Xddp /\ demo # "bufp_readwrite" /\ demo # "iddp_sendrecv" /\ demo # "xddp_label"
  BY DEF Xddp
<1>2. IpcThreads = {"server", "client"} /\ t \in {"server", "client"} /\ MayCall(t, NextCall(t))
  BY <1>1, Now DEF Roles
<1>3. CASE Bind(t)
  BY <1>1, <1>2, <1>3 DEF Bind, Fail, NamesInv, Calls, NextCall
<1>4. CASE Lookup(t)
  BY <1>1, <1>2, <1>4 DEF Lookup, Fail, NamesInv, Calls, NextCall, MayCall
<1>5. CASE Open(t)
  BY <1>2, <1>5 DEF Open, Calls, NextCall, MayCall
<1>6. CASE Send(t)
  <2>1. t = "client" /\ NextCall(t) = "send" /\ ~ Calls(t, "sendto")
    BY <1>1, <1>2, <1>6 DEF Send, Calls, NextCall, MayCall
  <2>2. Dest(t) = peer["client"]
    BY <1>1, <2>1 DEF Dest
  <2>3. Dest(t) \in bound
    BY <1>1, <2>1, <2>2 DEF NamesInv
  <2>4. QED
    BY <1>6, <2>3 DEF Send
<1>7. CASE SetTimeout(t) \/ SetLabel(t) \/ Connect(t) \/ Scatter(t) \/ Recv(t) \/ Read(t) \/ Write(t)
  BY <1>7 DEF SetTimeout, SetLabel, Connect, Scatter, Recv, Read, Write
<1>8. QED
  BY <1>3, <1>4, <1>5, <1>6, <1>7 DEF Step

(***************************************************************************)
(* Numbers and pieces                                                      *)
(***************************************************************************)
LEMMA NumbersType ==
  ASSUME NEW m \in Nat, NEW n \in Nat
  PROVE  /\ Numbers(m + 1, m + n) \in Seq(Nat) /\ Len(Numbers(m + 1, m + n)) = n
         /\ \A i \in 1..n : Numbers(m + 1, m + n)[i] = m + i
<1> DEFINE f == [i \in 1..n |-> m + i]
<1>1. Numbers(m + 1, m + n) = f
  <2>1. m + n - (m + 1) + 1 = n /\ \A i \in 1..n : m + 1 + i - 1 = m + i
    OBVIOUS
  <2>2. QED
    BY <2>1 DEF Numbers
<1>2. f \in Seq(Nat) /\ Len(f) = n
  <2>1. f \in [1..n -> Nat]
    OBVIOUS
  <2>2. QED
    BY <2>1
<1>3. QED
  BY <1>1, <1>2

\* Consecutive numbers, put one after the other, are consecutive.
LEMMA NumbersJoin ==
  ASSUME NEW m \in Nat, NEW n \in Nat
  PROVE  Numbers(1, m) \o Numbers(m + 1, m + n) = Numbers(1, m + n)
<1> DEFINE s == Numbers(1, m)
           t == Numbers(m + 1, m + n)
           u == Numbers(1, m + n)
<1>1. 0 \in Nat /\ m + n \in Nat /\ 0 + 1 = 1 /\ 0 + m = m /\ 0 + (m + n) = m + n
  OBVIOUS
<1>2. s \in Seq(Nat) /\ Len(s) = m /\ \A i \in 1..m : s[i] = i
  BY <1>1, NumbersType
<1>3. t \in Seq(Nat) /\ Len(t) = n /\ \A i \in 1..n : t[i] = m + i
  BY NumbersType
<1>4. u \in Seq(Nat) /\ Len(u) = m + n /\ \A i \in 1..m + n : u[i] = i
  BY <1>1, NumbersType
<1> HIDE DEF s, t, u
<1>5. \A i \in 1..Len(s) : u[i] = s[i]
  BY <1>2, <1>4
<1>6. \A i \in 1..Len(t) : u[Len(s) + i] = t[i]
  <2>1. \A i \in 1..n : m + i \in 1..m + n
    OBVIOUS
  <2>2. QED
    BY <1>2, <1>3, <1>4, <2>1
<1>7. Len(u) = Len(s) + Len(t)
  BY <1>2, <1>3, <1>4
<1>8. s \o t = u
  BY <1>2, <1>3, <1>4, <1>5, <1>6, <1>7, JoinIs, Zenon
<1>9. QED
  BY <1>8 DEF s, t, u

LEMMA NextNumber ==
  ASSUME NEW m \in Nat
  PROVE  <<m + 1>> = Numbers(m + 1, m + 1)
<1> DEFINE u == <<m + 1>>
           t == Numbers(m + 1, m + 1)
<1>1. t \in Seq(Nat) /\ Len(t) = 1 /\ \A i \in 1..1 : t[i] = m + i
  BY NumbersType
<1>2. u \in Seq(Nat) /\ Len(u) = 1 /\ u[1] = m + 1
  OBVIOUS
<1> HIDE DEF u, t
<1>3. \A i \in 1..Len(u) : u[i] = t[i]
  BY <1>1, <1>2
<1>4. u = t
  BY <1>1, <1>2, <1>3, SeqEqual, Zenon
<1>5. QED
  BY <1>4 DEF u, t

\* What is put to a queue ends up at its end.
LEMMA FlattenPut ==
  ASSUME NEW s \in Pieces, NEW e \in Seq(Nat), NEW together \in BOOLEAN, together => Len(s) <= 1
  PROVE  /\ Put(s, e, together) \in Pieces /\ FlattenSeq(Put(s, e, together)) = FlattenSeq(s) \o e
         /\ together => Len(Put(s, e, together)) = 1
         /\ ~ together => Put(s, e, together) = Append(s, e)
<1>1. CASE together /\ s # <<>>
  <2>1. Len(s) = 1
    <3>1. Len(s) <= 1
      BY <1>1, Zenon
    <3>2. Len(s) \in Nat /\ Len(s) # 0
      BY <1>1, NotEmpty, Zenon DEF Pieces
    <3>3. QED
      BY <3>1, <3>2, OnlyOne, Zenon
  <2>2. s = <<Head(s)>> /\ Head(s) \in Seq(Nat)
    BY <2>1, OneElement, Zenon DEF Pieces
  <2>3. Put(s, e, together) = <<Head(s) \o e>>
    BY <1>1 DEF Put
  <2>4. Head(s) \o e \in Seq(Nat)
    BY <2>2, ConcatProperties, Zenon
  <2>5. FlattenSeq(<<Head(s) \o e>>) = Head(s) \o e /\ FlattenSeq(s) = Head(s)
    BY <2>2, <2>4, FlattenOne, Zenon
  <2> DEFINE j == Head(s) \o e
  <2>6. j \in Seq(Nat) /\ Put(s, e, together) = <<j>>
    BY <2>3, <2>4
  <2> HIDE DEF j
  <2>7. Put(s, e, together) \in Pieces /\ Len(Put(s, e, together)) = 1
    BY <2>6 DEF Pieces
  <2>8. QED
    BY <1>1, <2>3, <2>5, <2>7
<1>2. CASE ~ (together /\ s # <<>>)
  <2>1. Put(s, e, together) = Append(s, e)
    BY <1>2 DEF Put
  <2>2. Append(s, e) \in Pieces /\ (s = <<>> => Len(Append(s, e)) = 1)
    BY DEF Pieces
  <2>3. QED
    BY <1>2, <2>1, <2>2, FlattenAppend
<1>3. QED
  BY <1>1, <1>2

(***************************************************************************)
(* What a step does to the line                                            *)
(***************************************************************************)
DataTypes ==
  net \in [IpcThreads -> Pieces] /\ sent \in Nat /\ held \in Seq(Nat) /\ got \in Pieces

\* The parts of the line, and of a queue.
LEMMA PartsOfLine ==
  ASSUME IpcTypes
  PROVE  /\ Consumer \in IpcThreads /\ net[Consumer] \in Pieces /\ got \in Pieces /\ Back \in Pieces
         /\ InHand \in Pieces /\ held \in Seq(Nat)
         /\ FlattenSeq(got) \in Seq(Nat) /\ FlattenSeq(net[Consumer]) \in Seq(Nat)
         /\ FlattenSeq(Back) \in Seq(Nat)
<1>1. Consumer \in IpcThreads /\ (Xddp => "nrt" \in IpcThreads)
  BY Now DEF Roles
<1>2. net[Consumer] \in Pieces /\ got \in Pieces /\ Back \in Pieces /\ held \in Seq(Nat)
  BY <1>1 DEF IpcTypes, Back, Pieces
<1>3. InHand \in Pieces
  BY <1>2 DEF InHand, Pieces
<1>4. \A s \in Pieces : FlattenSeq(s) \in Seq(Nat)
  <2>1. <<>> \in Seq(Nat)
    OBVIOUS
  <2>2. QED
    BY <2>1, FlattenAppend, Zenon
<1>5. QED
  BY <1>1, <1>2, <1>3, <1>4

\* The first piece of a queue, and a new last one.
LEMMA PieceOff ==
  ASSUME NEW s \in Pieces, s # <<>>
  PROVE  /\ Head(s) \in Seq(Nat) /\ Tail(s) \in Pieces /\ <<Head(s)>> \in Pieces
         /\ s = <<Head(s)>> \o Tail(s) /\ FlattenSeq(s) = Head(s) \o FlattenSeq(Tail(s))
         /\ FlattenSeq(Tail(s)) \in Seq(Nat) /\ Len(Tail(s)) = Len(s) - 1
<1>1. Head(s) \in Seq(Nat) /\ Tail(s) \in Pieces /\ s = <<Head(s)>> \o Tail(s)
      /\ Len(Tail(s)) = Len(s) - 1
  BY HeadFirst, Zenon DEF Pieces
<1>2. <<Head(s)>> \in Pieces
  BY <1>1 DEF Pieces
<1>3. FlattenSeq(s) = Head(s) \o FlattenSeq(Tail(s))
  BY FlattenHead DEF HeadsOff
<1>4. FlattenSeq(Tail(s)) \in Seq(Nat)
  BY <1>1, FlattenAppend, Zenon
<1>5. QED
  BY <1>1, <1>2, <1>3, <1>4

LEMMA PieceOn ==
  ASSUME NEW s \in Pieces, NEW e \in Seq(Nat)
  PROVE  /\ Append(s, e) \in Pieces /\ Append(s, e) = s \o <<e>> /\ <<e>> \in Pieces
         /\ FlattenSeq(Append(s, e)) = FlattenSeq(s) \o e
BY AppendIs, FlattenAppend, Zenon DEF Pieces

\* A piece cut in two is what its parts make together.
LEMMA CutPiece ==
  ASSUME NEW s \in Seq(Nat), NEW n \in 1..Len(s)
  PROVE  /\ SubSeq(s, 1, n) \in Seq(Nat) /\ SubSeq(s, n + 1, Len(s)) \in Seq(Nat)
         /\ SubSeq(s, 1, n) \o SubSeq(s, n + 1, Len(s)) = s
         /\ n = Len(s) => SubSeq(s, 1, n) = s
<1> DEFINE a == SubSeq(s, 1, n)
           b == SubSeq(s, n + 1, Len(s))
<1>1. Len(s) \in Nat /\ n \in Nat
  OBVIOUS
<1>2. a \in Seq(Nat) /\ Len(a) = n /\ \A i \in 1..n : a[i] = s[i]
  BY <1>1
<1>3. b \in Seq(Nat) /\ Len(b) = Len(s) - n /\ \A i \in 1..Len(s) - n : b[i] = s[n + i]
  BY <1>1
<1> HIDE DEF a, b
<1>4. \A i \in 1..Len(a) : s[i] = a[i]
  BY <1>2
<1>5. \A i \in 1..Len(b) : s[Len(a) + i] = b[i]
  BY <1>2, <1>3
<1>6. Len(s) = Len(a) + Len(b)
  BY <1>1, <1>2, <1>3
<1>7. a \o b = s
  BY <1>2, <1>3, <1>4, <1>5, <1>6, JoinIs, Zenon
<1>8. ASSUME n = Len(s) PROVE a = s
  <2>1. Len(a) = Len(s) /\ \A i \in 1..Len(a) : a[i] = s[i]
    BY <1>2, <1>8
  <2>2. QED
    BY <1>2, <2>1, SeqEqual, Zenon
<1>9. QED
  BY <1>2, <1>3, <1>7, <1>8 DEF a, b

\* Nothing is put to the line, or a message or a byte at its end.
Kept  == sent' = sent /\ Flow' = Flow /\ (Whole => Line' = Line)
Grown ==
  \E e \in Seq(Nat) : \E m \in Nat :
    /\ e = Numbers(sent + 1, sent + m) /\ sent' = sent + m /\ Flow' = Flow \o e
    /\ Whole => m = MsgLen /\ Line' = Line \o <<e>>

\* recv() takes the first piece, or of bytes a part of it, to what was received.
LEMMA RecvKeepsLine ==
  ASSUME IpcTypes, HeldInv, NEW t \in IpcThreads, Recv(t), Moves(t)
  PROVE  DataTypes' /\ HeldInv' /\ Kept /\ Len(got') = Len(got) + 1
<1> DEFINE d == net[t]
           piece == Head(d)
           b == FlattenSeq(Tail(d))
<1>1. /\ t = Consumer /\ t # "nrt" /\ demo' = demo /\ IpcThreads' = IpcThreads
      /\ Xddp' = Xddp /\ Bytes' = Bytes /\ Consumer' = Consumer
  BY Now, SameDemo DEF Recv, Calls, NextCall, MayCall, Moves
<1>2. d # <<>> /\ d \in Pieces
  BY DEF Recv, IpcTypes
<1>3. PICK n \in 1..Len(piece) :
        /\ n = Len(piece) \/ Bytes
        /\ got' = Append(got, SubSeq(piece, 1, n))
        /\ net' = [net EXCEPT ![t] =
             IF n = Len(piece) THEN Tail(@) ELSE <<SubSeq(piece, n + 1, Len(piece))>>]
  BY DEF Recv
<1>4. /\ piece \in Seq(Nat) /\ Tail(d) \in Pieces /\ <<piece>> \in Pieces /\ d = <<piece>> \o Tail(d)
      /\ FlattenSeq(d) = piece \o b /\ b \in Seq(Nat) /\ Len(Tail(d)) = Len(d) - 1
  BY <1>2, PieceOff, Zenon
<1> DEFINE p == SubSeq(piece, 1, n)
           r == SubSeq(piece, n + 1, Len(piece))
           e == IF n = Len(piece) THEN Tail(d) ELSE <<r>>
<1>5. /\ p \in Seq(Nat) /\ r \in Seq(Nat) /\ p \o r = piece /\ (n = Len(piece) => p = piece)
  BY <1>4, CutPiece, Zenon
<1>6. got' = Append(got, p) /\ net' = [net EXCEPT ![t] = e] /\ sent' = sent /\ held' = held
  BY <1>3 DEF Recv
<1> HIDE DEF p, r, e, piece, d, b
<1>7. /\ e \in Pieces
      /\ FlattenSeq(d) = p \o FlattenSeq(e)
      /\ Whole => e = Tail(d) /\ p = piece
  <2>1. CASE n = Len(piece)
    BY <1>4, <1>5, <2>1 DEF e, b
  <2>2. CASE n # Len(piece)
    <3>1. Bytes /\ ~ Xddp
      BY <1>3, <2>2 DEF Bytes, Xddp, piece, d
    <3>2. t = "server"
      BY <1>1, <3>1, Now DEF Roles
    <3>3. Len(d) = 1
      <4>1. Len(d) <= 1
        BY <3>1, <3>2 DEF HeldInv, d
      <4>2. Len(d) \in Nat /\ Len(d) # 0
        BY <1>2, NotEmpty, Zenon DEF Pieces
      <4>3. QED
        BY <4>1, <4>2, OnlyOne, Zenon
    <3>4. d = <<piece>>
      BY <1>2, <3>3, OneElement, Zenon DEF Pieces, piece
    <3>5. FlattenSeq(d) = piece /\ FlattenSeq(<<r>>) = r
      BY <1>4, <1>5, <3>4, FlattenOne, Zenon
    <3>6. <<r>> \in Pieces
      BY <1>5 DEF Pieces
    <3>7. QED
      BY <1>5, <2>2, <3>1, <3>5, <3>6 DEF e, Whole
  <2>3. QED
    BY <2>1, <2>2
<1>8. /\ FlattenSeq(got') = FlattenSeq(got) \o p /\ got' \in Pieces /\ got' = got \o <<p>>
  BY <1>5, <1>6, PieceOn DEF IpcTypes
<1>9. /\ net'[t] = e /\ net' \in [IpcThreads -> Pieces]
      /\ (Xddp => net'["nrt"] = net["nrt"])
  BY <1>1, <1>6, <1>7 DEF IpcTypes, d
<1>10. Back' = Back /\ InHand' = InHand
  <2>1. Xddp => NextCall("nrt")' = NextCall("nrt")
    BY <1>1, Now DEF Moves, Roles
  <2>2. QED
    BY <1>1, <1>6, <1>9, <2>1 DEF Back, InHand
<1>11. FlattenSeq(e) \in Seq(Nat)
  BY <1>7, FlattenAppend, <1>4, Zenon
<1>12. Flow' = Flow
  <2>1. Flow' = InARow(FlattenSeq(got) \o p, FlattenSeq(e), held, FlattenSeq(Back))
    BY <1>1, <1>6, <1>8, <1>9, <1>10 DEF Flow
  <2>2. Flow = InARow(FlattenSeq(got), p \o FlattenSeq(e), held, FlattenSeq(Back))
    BY <1>1, <1>7 DEF Flow, d
  <2>3. /\ FlattenSeq(got) \in Seq(Nat) /\ held \in Seq(Nat) /\ FlattenSeq(Back) \in Seq(Nat)
        /\ FlattenSeq(e) \in Seq(Nat) /\ p \in Seq(Nat)
    BY <1>5, <1>11, PartsOfLine
  <2>4. Regroups(FlattenSeq(got), FlattenSeq(e), held, FlattenSeq(Back), p)
    BY <2>3, Regroup, Zenon
  <2>5. QED
    BY <2>1, <2>2, <2>4 DEF Regroups
<1>13. ASSUME Whole PROVE Line' = Line
  <2>1. Line' = InARow(got \o <<piece>>, e, InHand, Back)
    BY <1>1, <1>7, <1>8, <1>9, <1>10, <1>13 DEF Line
  <2>2. Line = InARow(got, <<piece>> \o e, InHand, Back)
    BY <1>1, <1>4, <1>7, <1>13 DEF Line, d
  <2>3. /\ got \in Pieces /\ InHand \in Pieces /\ Back \in Pieces
        /\ e \in Pieces /\ <<piece>> \in Pieces
    BY <1>4, <1>7, PartsOfLine
  <2>4. Regroups(got, e, InHand, Back, <<piece>>)
    BY <2>3, Regroup, Zenon DEF Pieces
  <2>5. QED
    BY <2>1, <2>2, <2>4 DEF Regroups
<1>14. HeldInv'
  <2>1. ASSUME Bytes PROVE Len(net'["server"]) <= 1
    <3>1. t = "server" /\ Len(d) <= 1
      BY <1>1, <2>1, Now DEF Roles, Bytes, Xddp, HeldInv, d
    <3>2. Len(Tail(d)) <= 1 /\ Len(<<r>>) <= 1
      <4>1. Len(d) \in Nat
        BY <1>2, NotEmpty, Zenon DEF Pieces
      <4>2. QED
        BY <1>4, <3>1, <4>1
    <3>3. QED
      BY <1>9, <3>1, <3>2 DEF e
  <2>2. Xddp => NextCall("nrt")' = NextCall("nrt")
    BY <1>1, Now DEF Moves, Roles
  <2>3. demo = "xddp_stream" => Xddp
    BY DEF Xddp
  <2>4. QED
    BY <1>1, <1>6, <1>9, <2>1, <2>2, <2>3 DEF HeldInv
<1>15. Len(got') = Len(got) + 1
  BY <1>6 DEF IpcTypes, Pieces
<1>16. QED
  BY <1>1, <1>6, <1>8, <1>9, <1>12, <1>13, <1>14, <1>15 DEF Kept, DataTypes, IpcTypes

\* read() takes the first piece of the pipe into the hand of the regular thread.
LEMMA ReadKeepsLine ==
  ASSUME IpcTypes, HeldInv, NEW t \in IpcThreads, Read(t), Moves(t)
  PROVE  DataTypes' /\ HeldInv' /\ Kept /\ got' = got
<1> DEFINE b == net["nrt"]
           piece == Head(b)
           e == FlattenSeq(Tail(b))
<1>1. /\ t = "nrt" /\ Xddp /\ Consumer # "nrt" /\ "nrt" \in IpcThreads /\ demo' = demo
      /\ IpcThreads' = IpcThreads /\ Xddp' = Xddp /\ Bytes' = Bytes /\ Consumer' = Consumer /\ ~ Bytes
  BY Now, SameDemo DEF Read, Calls, NextCall, MayCall, Moves, Roles, Bytes, Xddp
<1>2. NextCall("nrt") = "read" /\ NextCall("nrt")' = "write"
  BY <1>1 DEF Read, Calls, NextCall, Moves, Follows
<1>3. held = <<>> /\ InHand = <<>> /\ Back = b
  BY <1>1, <1>2 DEF HeldInv, InHand, Back
<1>4. b # <<>> /\ b \in Pieces
  BY <1>1 DEF Read, IpcTypes
<1>5. /\ piece \in Seq(Nat) /\ Tail(b) \in Pieces /\ <<piece>> \in Pieces /\ b = <<piece>> \o Tail(b)
      /\ FlattenSeq(b) = piece \o e /\ e \in Seq(Nat) /\ Len(Tail(b)) = Len(b) - 1
  BY <1>4, PieceOff, Zenon
<1>6. held' = piece /\ net' = [net EXCEPT !["nrt"] = Tail(b)] /\ sent' = sent /\ got' = got
  BY <1>1 DEF Read
<1> HIDE DEF b, piece, e
<1>7. /\ net'["nrt"] = Tail(b) /\ net'[Consumer] = net[Consumer] /\ net' \in [IpcThreads -> Pieces]
  BY <1>1, <1>5, <1>6 DEF IpcTypes
<1>8. Back' = Tail(b) /\ InHand' = <<piece>>
  BY <1>1, <1>2, <1>6, <1>7 DEF Back, InHand
<1>9. Flow' = Flow
  <2>1. Flow' = InARow(FlattenSeq(got), FlattenSeq(net[Consumer]), piece, e)
    BY <1>1, <1>6, <1>7, <1>8 DEF Flow, e
  <2>2. Flow = InARow(FlattenSeq(got), FlattenSeq(net[Consumer]), <<>>, piece \o e)
    BY <1>3, <1>5 DEF Flow
  <2>3. FlattenSeq(got) \in Seq(Nat) /\ FlattenSeq(net[Consumer]) \in Seq(Nat)
    BY PartsOfLine
  <2>4. Regroups(FlattenSeq(got), FlattenSeq(net[Consumer]), piece, e, piece)
    BY <1>5, <2>3, Regroup, Zenon
  <2>5. QED
    BY <2>1, <2>2, <2>4 DEF Regroups
<1>10. Line' = Line
  <2>1. Line' = InARow(got, net[Consumer], <<piece>>, Tail(b))
    BY <1>1, <1>6, <1>7, <1>8 DEF Line
  <2>2. Line = InARow(got, net[Consumer], <<>>, <<piece>> \o Tail(b))
    BY <1>3, <1>5 DEF Line
  <2>3. got \in Pieces /\ net[Consumer] \in Pieces
    BY PartsOfLine
  <2>4. Regroups(got, net[Consumer], <<piece>>, Tail(b), <<piece>>)
    BY <1>5, <2>3, Regroup, Zenon DEF Pieces
  <2>5. QED
    BY <2>1, <2>2, <2>4 DEF Regroups
<1>11. HeldInv'
  <2>1. Len(b) <= 1 => Len(Tail(b)) <= 1
    <3>1. Len(b) \in Nat
      BY <1>4, NotEmpty, Zenon DEF Pieces
    <3>2. QED
      BY <1>5, <3>1
  <2>2. QED
    BY <1>1, <1>2, <1>7, <2>1 DEF HeldInv, b
<1>12. QED
  BY <1>1, <1>5, <1>6, <1>7, <1>9, <1>10, <1>11 DEF Kept, DataTypes, IpcTypes

\* write() puts it to the queue of the receiver.
LEMMA WriteKeepsLine ==
  ASSUME IpcTypes, HeldInv, NEW t \in IpcThreads, Write(t), Moves(t)
  PROVE  DataTypes' /\ HeldInv' /\ Kept /\ got' = got
<1> DEFINE c == net[Consumer]
<1>1. /\ t = "nrt" /\ Xddp /\ Consumer # "nrt" /\ "nrt" \in IpcThreads /\ Order[1] = Consumer
      /\ demo' = demo /\ IpcThreads' = IpcThreads /\ Xddp' = Xddp /\ Bytes' = Bytes
      /\ Consumer' = Consumer /\ ~ Bytes
  BY Now, SameDemo DEF Write, Calls, NextCall, MayCall, Moves, Roles, Bytes, Xddp
<1>2. NextCall("nrt") = "write" /\ NextCall("nrt")' = "read"
  BY <1>1 DEF Write, Calls, NextCall, Moves, Follows
<1>3. InHand = <<held>>
  BY <1>1, <1>2 DEF InHand
<1>4. Dest(t) = Consumer
  BY <1>1 DEF Dest
<1>5. net' = [net EXCEPT ![Consumer] = Append(c, held)] /\ held' = <<>> /\ sent' = sent /\ got' = got
  BY <1>4 DEF Write
<1>6. c \in Pieces /\ held \in Seq(Nat) /\ Consumer \in IpcThreads
  BY PartsOfLine
<1> HIDE DEF c
<1>7. /\ Append(c, held) \in Pieces /\ Append(c, held) = c \o <<held>> /\ <<held>> \in Pieces
      /\ FlattenSeq(Append(c, held)) = FlattenSeq(c) \o held
  BY <1>6, PieceOn, Zenon
<1>8. /\ net'[Consumer] = Append(c, held) /\ net'["nrt"] = net["nrt"] /\ net' \in [IpcThreads -> Pieces]
  BY <1>1, <1>5, <1>6, <1>7 DEF IpcTypes
<1>9. Back' = Back /\ InHand' = <<>>
  BY <1>1, <1>2, <1>8 DEF Back, InHand
<1>10. Flow' = Flow
  <2>1. Flow' = InARow(FlattenSeq(got), FlattenSeq(c) \o held, <<>>, FlattenSeq(Back))
    BY <1>1, <1>5, <1>7, <1>8, <1>9 DEF Flow
  <2>2. Flow = InARow(FlattenSeq(got), FlattenSeq(c), held, FlattenSeq(Back))
    BY DEF Flow, c
  <2>3. FlattenSeq(got) \in Seq(Nat) /\ FlattenSeq(c) \in Seq(Nat) /\ FlattenSeq(Back) \in Seq(Nat)
    BY PartsOfLine DEF c
  <2>4. Regroups(FlattenSeq(got), FlattenSeq(c), held, FlattenSeq(Back), held)
    BY <1>6, <2>3, Regroup, Zenon
  <2>5. QED
    BY <2>1, <2>2, <2>4 DEF Regroups
<1>11. Line' = Line
  <2>1. Line' = InARow(got, c \o <<held>>, <<>>, Back)
    BY <1>1, <1>5, <1>7, <1>8, <1>9 DEF Line
  <2>2. Line = InARow(got, c, <<held>>, Back)
    BY <1>3 DEF Line, c
  <2>3. got \in Pieces /\ Back \in Pieces
    BY PartsOfLine
  <2>4. Regroups(got, c, <<held>>, Back, <<held>>)
    BY <1>6, <1>7, <2>3, Regroup, Zenon DEF Pieces
  <2>5. QED
    BY <2>1, <2>2, <2>4 DEF Regroups
<1>12. HeldInv'
  BY <1>1, <1>5, <1>8 DEF HeldInv
<1>13. <<>> \in Seq(Nat)
  OBVIOUS
<1>14. QED
  BY <1>1, <1>5, <1>6, <1>8, <1>10, <1>11, <1>12, <1>13 DEF Kept, DataTypes, IpcTypes

\* Something put to the last part that there is comes last in the line.
LEMMA PutGrows ==
  ASSUME IpcTypes, HeldInv, NEW m \in Nat, demo' = demo, held' = held, got' = got, sent' = sent + m,
         NEW together \in BOOLEAN, together <=> (Bytes \/ demo = "xddp_stream"), Whole => m = MsgLen,
         LET to == IF Xddp THEN "nrt" ELSE Consumer
         IN net' = [net EXCEPT ![to] = Put(@, Numbers(sent + 1, sent + m), together)],
         Xddp => NextCall("nrt")' = NextCall("nrt")
  PROVE  DataTypes' /\ HeldInv' /\ Grown
<1> DEFINE e == Numbers(sent + 1, sent + m)
           to == IF Xddp THEN "nrt" ELSE Consumer
           q == net[to]
           p == Put(q, e, together)
<1>1. /\ IpcThreads' = IpcThreads /\ Xddp' = Xddp /\ Bytes' = Bytes /\ Consumer' = Consumer
      /\ to \in IpcThreads /\ (Xddp => Consumer # "nrt") /\ (~ Xddp => Consumer = "server")
      /\ (demo = "xddp_stream" => Xddp) /\ (Bytes => ~ Xddp)
  BY SameDemo, Now DEF Roles, Bytes, Xddp
<1>2. e \in Seq(Nat) /\ sent \in Nat
  BY NumbersType DEF IpcTypes
<1>3. q \in Pieces
  BY <1>1 DEF IpcTypes
<1>4. together => Len(q) <= 1
  BY <1>1 DEF HeldInv
<1>5. /\ p \in Pieces /\ FlattenSeq(p) = FlattenSeq(q) \o e
      /\ (together => Len(p) = 1) /\ (~ together => p = Append(q, e))
  BY <1>2, <1>3, <1>4, FlattenPut, Zenon
<1>6. net' = [net EXCEPT ![to] = p]
  OBVIOUS
<1> HIDE DEF e, q, p
<1>7. ~ together => p = q \o <<e>> /\ <<e>> \in Pieces
  BY <1>2, <1>3, <1>5, PieceOn
<1>8. net'[to] = p /\ net' \in [IpcThreads -> Pieces]
  BY <1>1, <1>5, <1>6 DEF IpcTypes
<1>9. /\ FlattenSeq(got) \in Seq(Nat) /\ FlattenSeq(net[Consumer]) \in Seq(Nat)
      /\ FlattenSeq(Back) \in Seq(Nat) /\ held \in Seq(Nat)
      /\ got \in Pieces /\ net[Consumer] \in Pieces /\ Back \in Pieces /\ InHand \in Pieces
  BY PartsOfLine
<1>10. Regroups(FlattenSeq(got), FlattenSeq(net[Consumer]), held, FlattenSeq(Back), e)
  BY <1>2, <1>9, Regroup, Zenon
<1>11. ~ together => Regroups(got, net[Consumer], InHand, Back, <<e>>)
  BY <1>7, <1>9, Regroup, Zenon DEF Pieces
<1>12. Whole <=> ~ together
  BY DEF Whole
<1>13. Flow' = Flow \o e /\ (Whole => Line' = Line \o <<e>>)
  <2>1. CASE Xddp
    <3>1. Back = q /\ Back' = p /\ net'[Consumer] = net[Consumer] /\ InHand' = InHand
      BY <1>1, <1>6, <1>8, <2>1, PartsOfLine DEF Back, InHand, q, IpcTypes
    <3>2. Flow' = InARow(FlattenSeq(got), FlattenSeq(net[Consumer]), held, FlattenSeq(Back) \o e)
      BY <1>1, <1>5, <3>1 DEF Flow
    <3>3. Flow' = Flow \o e
      BY <1>10, <3>2 DEF Regroups, Flow
    <3>4. ASSUME Whole PROVE Line' = Line \o <<e>>
      <4>1. Line' = InARow(got, net[Consumer], InHand, Back \o <<e>>)
        BY <1>1, <1>7, <1>12, <3>1, <3>4 DEF Line
      <4>2. QED
        BY <1>11, <1>12, <3>4, <4>1 DEF Regroups, Line
    <3>5. QED
      BY <3>3, <3>4
  <2>2. CASE ~ Xddp
    <3>1. /\ Back = <<>> /\ Back' = <<>> /\ q = net[Consumer] /\ p = net'[Consumer]
          /\ InHand = <<>> /\ InHand' = <<>> /\ held = <<>>
      BY <1>1, <1>8, <2>2 DEF Back, InHand, HeldInv, q
    <3>2. /\ Flow' = InARow(FlattenSeq(got), FlattenSeq(net[Consumer]) \o e, <<>>, <<>>)
          /\ Flow = InARow(FlattenSeq(got), FlattenSeq(net[Consumer]), <<>>, <<>>)
      BY <1>1, <1>5, <3>1, FlattenEmpty DEF Flow
    <3>3. Flow' = Flow \o e
      BY <1>10, <3>2 DEF Regroups
    <3>4. ASSUME Whole PROVE Line' = Line \o <<e>>
      <4>1. /\ Line' = InARow(got, net[Consumer] \o <<e>>, <<>>, <<>>)
            /\ Line = InARow(got, net[Consumer], <<>>, <<>>)
        BY <1>1, <1>7, <1>12, <3>1, <3>4 DEF Line
      <4>2. QED
        BY <1>11, <1>12, <3>4, <4>1 DEF Regroups
    <3>5. QED
      BY <3>3, <3>4
  <2>3. QED
    BY <2>1, <2>2
<1>14. Grown
  BY <1>2, <1>13 DEF Grown, e
<1>15. HeldInv'
  <2>1. ASSUME together PROVE Len(net'[to]) <= 1
    <3>1. Len(p) = 1
      BY <1>5, <2>1, Zenon
    <3>2. Len(p) <= 1
      BY <3>1
    <3>3. QED
      BY <1>8, <3>2, Zenon
  <2>2. Bytes => Len(net'["server"]) <= 1
    BY <1>1, <2>1
  <2>3. demo = "xddp_stream" => Len(net'["nrt"]) <= 1
    BY <1>1, <2>1
  <2>4. QED
    BY <1>1, <2>2, <2>3 DEF HeldInv
<1>16. DataTypes'
  BY <1>1, <1>2, <1>8 DEF DataTypes, IpcTypes
<1>17. QED
  BY <1>14, <1>15, <1>16

\* A send that is not refused reaches the end of the line, whoever is looked up.
LEMMA SendGrowsLine ==
  ASSUME IpcTypes, NamesInv, HeldInv, NEW t \in IpcThreads, Send(t), Moves(t),
         UNCHANGED sockets, ended' = ended, sent' # sent
  PROVE  DataTypes' /\ HeldInv' /\ Grown /\ got' = got
<1>1. /\ Xddp \/ Dest(t) \in bound
      /\ net' = [net EXCEPT ![Dest(t)] = Put(@, Numbers(sent + 1, sent + MsgLen), Bytes)]
      /\ sent' = sent + MsgLen /\ held' = held /\ got' = got
  BY DEF Send, Fail, data
<1>2. /\ demo' = demo /\ t # "nrt" /\ demo # "xddp_stream" /\ (~ Xddp => t = "client")
      /\ (NextCall(t) = "sendto" => ~ Xddp)
  BY Now DEF Send, Calls, NextCall, MayCall, Moves, Xddp
<1>3. Dest(t) = IF Xddp THEN "nrt" ELSE Consumer
  <2>1. CASE Xddp
    BY <1>2, <2>1 DEF Dest
  <2>2. CASE ~ Xddp
    <3>1. Consumer = "server" /\ peer["client"] \in {"none", "server"} /\ "none" \notin bound
      BY <2>2, Now DEF Roles, NamesInv, IpcTypes
    <3>2. Dest(t) = "server" \/ Dest(t) = peer["client"]
      BY <1>2, <2>2 DEF Dest
    <3>3. QED
      BY <1>1, <2>2, <3>1, <3>2
  <2>3. QED
    BY <2>1, <2>2
<1>4. Xddp => NextCall("nrt")' = NextCall("nrt")
  BY <1>2, Now DEF Moves, Roles
<1>5. MsgLen \in Nat /\ Bytes \in BOOLEAN
  BY SizeAssumption DEF Bytes
<1>6. QED
  BY <1>1, <1>2, <1>3, <1>4, <1>5, PutGrows

\* So does a byte that is gathered.
LEMMA ScatterGrowsLine ==
  ASSUME IpcTypes, HeldInv, NEW t \in IpcThreads, Scatter(t), demo' = demo,
         \A u \in IpcThreads : u # t => NextCall(u)' = NextCall(u)
  PROVE  DataTypes' /\ HeldInv' /\ Grown /\ got' = got
<1>1. /\ demo = "xddp_stream" /\ t # "nrt"
  BY Now DEF Scatter, Calls, NextCall, MayCall
<1>2. Xddp /\ "nrt" \in IpcThreads /\ ~ Whole
  BY <1>1, Now DEF Xddp, Roles, Whole
<1>3. <<sent + 1>> = Numbers(sent + 1, sent + 1)
  BY NextNumber DEF IpcTypes
<1>4. /\ net' = [net EXCEPT !["nrt"] = Put(@, Numbers(sent + 1, sent + 1), TRUE)]
      /\ sent' = sent + 1 /\ held' = held /\ got' = got
  BY <1>3 DEF Scatter
<1>5. 1 \in Nat /\ TRUE \in BOOLEAN
  OBVIOUS
<1>6. QED
  BY <1>1, <1>2, <1>4, <1>5, PutGrows

\* The line is in order after a step that keeps it, and after one that adds to it.
LEMMA KeptCarries ==
  ASSUME FlowInv, LineInv, Kept, demo' = demo
  PROVE  FlowInv' /\ LineInv'
<1>1. Whole' = Whole
  BY DEF Whole, Bytes
<1>2. sent' = sent /\ Flow' = Flow /\ (Whole => Line' = Line)
  BY DEF Kept
<1>3. FlowInv'
  BY <1>2 DEF FlowInv
<1>4. LineInv'
  BY <1>1, <1>2 DEF LineInv
<1>5. QED
  BY <1>3, <1>4

LEMMA LineIsPieces == ASSUME IpcTypes PROVE Line \in Pieces
<1>1. got \in Pieces /\ net[Consumer] \in Pieces /\ InHand \in Pieces /\ Back \in Pieces
  BY PartsOfLine
<1>2. got \o net[Consumer] \in Pieces
  BY <1>1, ConcatProperties, Zenon DEF Pieces
<1>3. (got \o net[Consumer]) \o InHand \in Pieces
  BY <1>1, <1>2, ConcatProperties, Zenon DEF Pieces
<1>4. ((got \o net[Consumer]) \o InHand) \o Back \in Pieces
  BY <1>1, <1>3, ConcatProperties, Zenon DEF Pieces
<1>5. QED
  BY <1>4 DEF Line, InARow

LEMMA GrownCarries ==
  ASSUME IpcTypes, FlowInv, LineInv, Grown, demo' = demo
  PROVE  FlowInv' /\ LineInv' /\ (Whole => Len(Line') = Len(Line) + 1)
<1>1. Whole' = Whole
  BY DEF Whole, Bytes
<1>2. PICK e \in Seq(Nat), m \in Nat :
        /\ e = Numbers(sent + 1, sent + m) /\ sent' = sent + m /\ Flow' = Flow \o e
        /\ Whole => m = MsgLen /\ Line' = Line \o <<e>>
  BY DEF Grown
<1>3. FlowInv'
  <2>1. Numbers(1, sent) \o Numbers(sent + 1, sent + m) = Numbers(1, sent + m)
    BY NumbersJoin DEF IpcTypes
  <2>2. QED
    BY <1>2, <2>1 DEF FlowInv
<1>4. ASSUME Whole
      PROVE  /\ Len(Line') = Len(Line) + 1 /\ sent' = Len(Line') * MsgLen
             /\ \A i \in 1..Len(Line') : Line'[i] = Numbers((i - 1) * MsgLen + 1, i * MsgLen)
  <2> DEFINE l == Line
             n == Line'
             N == Len(l)
  <2>1. l \in Pieces /\ N \in Nat /\ MsgLen \in Nat
    BY LineIsPieces, SizeAssumption DEF Pieces
  <2>2. n = l \o <<e>> /\ m = MsgLen
    BY <1>2, <1>4
  <2>3. sent = N * MsgLen /\ \A i \in 1..N : l[i] = Numbers((i - 1) * MsgLen + 1, i * MsgLen)
    BY <1>4 DEF LineInv
  <2> HIDE DEF l, n
  <2>4. Len(n) = N + 1 /\ n[N + 1] = e /\ \A i \in 1..N : n[i] = l[i]
    BY <2>1, <2>2 DEF Pieces
  <2> HIDE DEF N
  <2>5. sent' = (N + 1) * MsgLen
    <3>1. (N + 1) * MsgLen = N * MsgLen + MsgLen
      BY <2>1
    <3>2. QED
      BY <1>2, <2>2, <2>3, <3>1
  <2>6. ASSUME NEW i \in 1..N + 1 PROVE n[i] = Numbers((i - 1) * MsgLen + 1, i * MsgLen)
    <3>1. CASE i = N + 1
      <4>1. i - 1 = N
        BY <2>1, <3>1
      <4>2. e = Numbers(N * MsgLen + 1, (N + 1) * MsgLen)
        BY <1>2, <2>2, <2>3, <2>5
      <4>3. QED
        BY <2>4, <3>1, <4>1, <4>2
    <3>2. CASE i # N + 1
      <4>1. i \in 1..N
        BY <2>1, <3>2
      <4>2. QED
        BY <2>3, <2>4, <4>1
    <3>3. QED
      BY <3>1, <3>2
  <2>7. QED
    BY <2>4, <2>5, <2>6 DEF n, l, N
<1>5. QED
  BY <1>1, <1>3, <1>4 DEF LineInv

\* A call that moves no data.
LEMMA OthersKeepLine ==
  ASSUME IpcTypes, HeldInv, NEW t \in IpcThreads, Moves(t), UNCHANGED data,
         NextCall(t) \notin {"read", "write"}
  PROVE  DataTypes' /\ HeldInv' /\ Kept
<1>1. /\ demo' = demo /\ IpcThreads' = IpcThreads /\ Xddp' = Xddp /\ Bytes' = Bytes
      /\ Consumer' = Consumer /\ net' = net /\ sent' = sent /\ held' = held /\ got' = got
  BY SameDemo DEF Moves, data
<1>2. Xddp => (NextCall("nrt")' = "write" <=> NextCall("nrt") = "write")
  <2>1. CASE t = "nrt"
    BY <2>1 DEF Moves, Follows
  <2>2. CASE t # "nrt"
    BY <2>2, Now DEF Moves, Roles
  <2>3. QED
    BY <2>1, <2>2
<1>3. Back' = Back /\ InHand' = InHand
  BY <1>1, <1>2 DEF Back, InHand
<1>4. Kept
  BY <1>1, <1>3 DEF Kept, Flow, Line
<1>5. HeldInv'
  BY <1>1, <1>2 DEF HeldInv
<1>6. QED
  BY <1>1, <1>4, <1>5 DEF DataTypes, IpcTypes

\* A step that touches neither data nor calls.
LEMMA QuietKeepsLine ==
  ASSUME IpcTypes, HeldInv, FlowInv, LineInv, EchoInv, UNCHANGED <<demo, at, data>>
  PROVE  DataTypes' /\ HeldInv' /\ FlowInv' /\ LineInv' /\ EchoInv'
<1>1. /\ demo' = demo /\ at' = at /\ IpcThreads' = IpcThreads /\ Xddp' = Xddp /\ Bytes' = Bytes
      /\ Consumer' = Consumer /\ net' = net /\ sent' = sent /\ held' = held /\ got' = got
  BY SameDemo DEF data
<1>2. Back' = Back /\ InHand' = InHand
  BY <1>1 DEF Back, InHand, NextCall
<1>3. Kept /\ Line' = Line
  BY <1>1, <1>2 DEF Kept, Flow, Line
<1>4. QED
  BY <1>1, <1>3, KeptCarries DEF DataTypes, IpcTypes, HeldInv, EchoInv, NextCall

(***************************************************************************)
(* The invariant                                                           *)
(***************************************************************************)
LEMMA IpcInitial == IpcInit => IpcInv
<1> SUFFICES ASSUME IpcInit PROVE IpcInv
  OBVIOUS
<1>1. TurnsOf /\ demo \in Demos
  BY TurnsHold DEF IpcInit
<1>2. \A t \in IpcThreads : at[t] = Begins(t)
  BY DEF IpcInit, Begins
<1>3. InPlaces
  BY <1>1, <1>2 DEF InPlaces, TurnsOf, Turns, IpcInit
<1>4. IpcTypes
  <2>1. <<>> \in Pieces /\ <<>> \in Seq(Nat)
    BY DEF Pieces
  <2>2. QED
    BY <1>1, <1>3, <2>1 DEF IpcInit, IpcTypes
<1>5. NamesInv
  <2>1. SUFFICES ASSUME ~ Xddp PROVE NamesInv
    BY DEF NamesInv
  <2>2. IpcThreads = {"server", "client"}
    BY <1>1, <2>1 DEF TurnsOf, Roles
  <2>3. labelled = {} /\ registry = "none" /\ peer["client"] = "none"
    BY <2>2 DEF IpcInit
  <2>4. NextCall("client") \in Starts
    BY <1>1, <1>2, <2>2 DEF TurnsOf, Turns, NextCall
  <2>5. QED
    BY <2>3, <2>4 DEF NamesInv, Starts
<1>6. held = <<>> /\ sent = 0 /\ got = <<>> /\ Consumer \in IpcThreads /\ (Xddp => "nrt" \in IpcThreads)
      /\ \A t \in IpcThreads : net[t] = <<>>
  BY <1>1 DEF IpcInit, TurnsOf, Roles
<1>7. Back = <<>> /\ net[Consumer] = <<>>
  BY <1>6 DEF Back
<1>8. InHand = <<>>
  <2>1. Xddp => NextCall("nrt") \in Starts
    BY <1>1, <1>2, <1>6 DEF TurnsOf, Turns, NextCall
  <2>2. QED
    BY <2>1 DEF InHand, Starts
<1>9. Flow = <<>> /\ Line = <<>>
  <2>1. <<>> \o <<>> = <<>>
    <3>1. <<>> \in Seq(Nat)
      OBVIOUS
    <3>2. QED
      BY <3>1, ConcatEmptySeq, Zenon
  <2>2. QED
    BY <1>6, <1>7, <1>8, <2>1, FlattenEmpty DEF Flow, Line, InARow
<1>10. HeldInv
  <2>1. (Bytes => "server" \in IpcThreads) /\ (demo = "xddp_stream" => Xddp)
    BY <1>1 DEF TurnsOf, Roles, Bytes, Xddp
  <2>2. Len(<<>>) <= 1
    OBVIOUS
  <2>3. QED
    BY <1>6, <2>1, <2>2 DEF HeldInv
<1>11. FlowInv
  <2>1. Numbers(1, 0) = <<>>
    <3>1. 0 \in Nat /\ 0 + 1 = 1 /\ 0 + 0 = 0
      OBVIOUS
    <3>2. Numbers(1, 0) \in Seq(Nat) /\ Len(Numbers(1, 0)) = 0
      BY <3>1, NumbersType
    <3>3. QED
      BY <3>2, NotEmpty, Zenon
  <2>2. QED
    BY <1>6, <1>9, <2>1 DEF FlowInv
<1>12. LineInv
  <2>1. Len(<<>>) = 0 /\ 0 * MsgLen = 0 /\ 1..0 = {}
    BY SizeAssumption
  <2>2. QED
    BY <1>6, <1>9, <2>1 DEF LineInv
<1>13. EchoInv
  <2>1. ASSUME demo = "xddp_echo" PROVE NextCall("rt") # "recv"
    <3>1. "rt" \in IpcThreads
      BY <1>1, <2>1 DEF TurnsOf, Roles
    <3>2. NextCall("rt") \in Starts
      BY <1>1, <1>2, <3>1 DEF TurnsOf, Turns, NextCall
    <3>3. QED
      BY <3>2 DEF Starts
  <2>2. Len(<<>>) = 0
    OBVIOUS
  <2>3. QED
    BY <1>6, <1>9, <2>1, <2>2 DEF EchoInv
<1>14. QED
  BY <1>4, <1>5, <1>10, <1>11, <1>12, <1>13 DEF IpcInv

\* The invariant, from its parts.
LEMMA Together ==
  ASSUME SocketTypes', NamesInv', DataTypes', HeldInv', FlowInv', LineInv', EchoInv'
  PROVE  IpcInv'
BY DEF SocketTypes, DataTypes, IpcTypes, IpcInv

\* A send is refused and changes nothing, or goes on.
LEMMA SendKinds ==
  ASSUME NEW t \in IpcThreads, Send(t), sent \in Nat
  PROVE  UNCHANGED <<at, sockets, data>> \/ (GoesOn(t) /\ UNCHANGED sockets /\ ended' = ended /\ sent' # sent)
BY SizeAssumption DEF Send, Fail

\* Every call of a thread keeps the line in order.
LEMMA StepKeepsLine ==
  ASSUME IpcInv, NEW t \in IpcThreads, Step(t)
  PROVE  DataTypes' /\ HeldInv' /\ FlowInv' /\ LineInv' /\ EchoInv'
<1>1. /\ demo' = demo /\ IpcTypes /\ NamesInv /\ HeldInv /\ FlowInv /\ LineInv /\ EchoInv
      /\ MayCall(t, NextCall(t)) /\ sent \in Nat
  BY Now DEF Step, IpcInv, IpcTypes
<1>2. CASE UNCHANGED <<demo, at, data>>
  BY <1>1, <1>2, QuietKeepsLine
<1>3. GoesOn(t) => Moves(t)
  BY <1>1, Onwards
<1>4. ASSUME demo = "xddp_echo"
      PROVE  /\ IpcThreads = {"rt", "nrt"} /\ Consumer = "rt" /\ Whole
             /\ Len(Line) = Len(got) + (IF NextCall("rt") = "recv" THEN 1 ELSE 0)
             /\ Len(got) \in Nat
  BY <1>1, <1>4, Now DEF Roles, Whole, Bytes, EchoInv, IpcTypes, Pieces
<1>5. CASE SetTimeout(t) \/ SetLabel(t) \/ Bind(t) \/ Lookup(t) \/ Connect(t) \/ Open(t)
  <2>1. UNCHANGED data /\ (GoesOn(t) \/ at' = at)
        /\ NextCall(t) \notin {"read", "write", "send", "recv", "scatter"}
    BY <1>5 DEF SetTimeout, SetLabel, Bind, Lookup, Connect, Open, Fail, Calls, NextCall
  <2>2. SUFFICES ASSUME Moves(t) PROVE DataTypes' /\ HeldInv' /\ FlowInv' /\ LineInv' /\ EchoInv'
    BY <1>1, <1>2, <1>3, <2>1
  <2>3. DataTypes' /\ HeldInv' /\ Kept
    BY <1>1, <2>1, <2>2, OthersKeepLine
  <2>4. EchoInv'
    BY <1>1, <1>4, <2>1, <2>2, <2>3 DEF EchoInv, Kept, Moves, Follows, data
  <2>5. QED
    BY <1>1, <2>3, <2>4, KeptCarries
<1>6. CASE Send(t)
  <2>1. SUFFICES ASSUME GoesOn(t), UNCHANGED sockets, ended' = ended, sent' # sent
                 PROVE  DataTypes' /\ HeldInv' /\ FlowInv' /\ LineInv' /\ EchoInv'
    BY <1>1, <1>2, <1>6, SendKinds
  <2>2. DataTypes' /\ HeldInv' /\ Grown /\ got' = got /\ Moves(t)
    BY <1>1, <1>3, <1>6, <2>1, SendGrowsLine
  <2>3. FlowInv' /\ LineInv' /\ (Whole => Len(Line') = Len(Line) + 1)
    BY <1>1, <2>2, GrownCarries
  <2>4. t # "nrt" /\ (NextCall(t) = "send" \/ NextCall(t) = "sendto")
    BY <1>1, <1>6 DEF Send, Calls, NextCall, MayCall
  <2>5. EchoInv'
    BY <1>1, <1>4, <2>2, <2>3, <2>4 DEF EchoInv, Moves, Follows, MayCall
  <2>6. QED
    BY <2>2, <2>3, <2>5
<1>7. CASE Scatter(t)
  <2>1. demo = "xddp_stream"
    BY <1>1, <1>7 DEF Scatter, Calls, NextCall, MayCall
  <2>2. \A u \in IpcThreads : u # t => NextCall(u)' = NextCall(u)
    BY <1>1, <1>3, <1>7 DEF Scatter, Moves, NextCall
  <2>3. DataTypes' /\ HeldInv' /\ Grown
    BY <1>1, <1>7, <2>2, ScatterGrowsLine
  <2>4. QED
    BY <1>1, <2>1, <2>3, GrownCarries DEF EchoInv
<1>8. CASE Recv(t)
  <2>1. Moves(t) /\ t = Consumer /\ NextCall(t) = "recv"
    BY <1>1, <1>3, <1>8 DEF Recv, Calls, NextCall, MayCall
  <2>2. DataTypes' /\ HeldInv' /\ Kept /\ Len(got') = Len(got) + 1
    BY <1>1, <1>8, <2>1, RecvKeepsLine
  <2>3. EchoInv'
    BY <1>1, <1>4, <2>1, <2>2 DEF EchoInv, Kept, Moves, Follows
  <2>4. QED
    BY <1>1, <2>2, <2>3, KeptCarries
<1>9. CASE Read(t) \/ Write(t)
  <2>1. Moves(t) /\ t = "nrt"
    BY <1>1, <1>3, <1>9 DEF Read, Write, Calls, NextCall, MayCall
  <2>2. DataTypes' /\ HeldInv' /\ Kept /\ got' = got
    BY <1>1, <1>9, <2>1, ReadKeepsLine, WriteKeepsLine
  <2>3. EchoInv'
    BY <1>1, <1>4, <2>1, <2>2 DEF EchoInv, Kept, Moves
  <2>4. QED
    BY <1>1, <2>2, <2>3, KeptCarries
<1>10. QED
  BY <1>5, <1>6, <1>7, <1>8, <1>9 DEF Step

\* Every step keeps the invariant.
LEMMA IpcStep == IpcInv /\ [IpcNext]_ipcvars => IpcInv'
<1> SUFFICES ASSUME IpcInv, [IpcNext]_ipcvars PROVE IpcInv'
  OBVIOUS
<1>1. IpcTypes /\ NamesInv /\ HeldInv /\ FlowInv /\ LineInv /\ EchoInv
  BY DEF IpcInv
<1>2. CASE UNCHANGED <<demo, at, sockets, data>>
  <2>1. SocketTypes' /\ NamesInv'
    BY <1>1, <1>2, QuietKeepsNames
  <2>2. DataTypes' /\ HeldInv' /\ FlowInv' /\ LineInv' /\ EchoInv'
    BY <1>1, <1>2, QuietKeepsLine
  <2>3. QED
    BY <2>1, <2>2, Together
<1>3. ASSUME NEW t \in IpcThreads, Step(t) PROVE IpcInv'
  <2>1. SocketTypes' /\ NamesInv'
    BY <1>1, <1>3, StepKeepsNames
  <2>2. DataTypes' /\ HeldInv' /\ FlowInv' /\ LineInv' /\ EchoInv'
    BY <1>3, StepKeepsLine
  <2>3. QED
    BY <2>1, <2>2, Together
<1>4. CASE UNCHANGED ipcvars
  BY <1>2, <1>4 DEF ipcvars, threads
<1>5. CASE MainStep \/ Sigwait \/ CallFails \/ \E t \in IpcThreads : End(t)
  <2>1. UNCHANGED <<demo, at, sockets, data>>
    BY <1>5 DEF MainStep, Create, Cancel, JoinThread, Return, Sigwait, CallFails, Fail, End, threads
  <2>2. QED
    BY <1>2, <2>1
<1>6. QED
  BY <1>3, <1>4, <1>5 DEF IpcNext

(***************************************************************************)
(* The theorems                                                            *)
(***************************************************************************)
\* Sockets, queues and the calls each thread has still to make keep their types, in all seven
\* programs.
THEOREM IpcTypeCorrect == IpcSpec => []IpcTypes
<1>1. IpcInv => IpcTypes
  BY DEF IpcInv
<1>2. QED
  BY <1>1, IpcInitial, IpcStep, PTL DEF IpcSpec

\* No step refuses a call to a program that connects by label without a timeout.
LEMMA NoRefusal == IpcInv /\ LookupWaits /\ [IpcNext]_ipcvars => LookupWaits'
<1> SUFFICES ASSUME IpcInv, LookupWaits, [IpcNext]_ipcvars PROVE LookupWaits'
  OBVIOUS
<1>1. IpcTypes /\ NamesInv
  BY DEF IpcInv
<1>2. CASE UNCHANGED ipcvars
  BY <1>2 DEF ipcvars, LookupWaits
<1>3. CASE IpcNext
  <2>1. Running
    BY <1>3 DEF IpcNext
  <2>2. CASE MainStep \/ Sigwait \/ CallFails
    BY <2>1, <2>2 DEF MainStep, Create, Cancel, JoinThread, Return, Sigwait, CallFails, Fail,
       LookupWaits, Running
  <2>3. ASSUME NEW t \in IpcThreads, End(t) PROVE LookupWaits'
    BY <2>3 DEF End, LookupWaits
  <2>4. ASSUME NEW t \in IpcThreads, Step(t) PROVE LookupWaits'
    <3>1. demo' = demo
      BY <2>4 DEF Step
    <3>2. ended # "refused"
      BY <2>1 DEF Running
    <3>3. QED
      BY <1>1, <2>4, <3>1, <3>2, StepIsNotRefused DEF LookupWaits
  <2>5. QED
    BY <1>3, <2>2, <2>3, <2>4 DEF IpcNext
<1>4. QED
  BY <1>2, <1>3

\* A program that connects by label without a timeout can be started in any order: no call is
\* refused because the other thread has not come so far.
THEOREM ConnectWaitsForLabel == IpcSpec => []LookupWaits
<1>1. IpcInit => LookupWaits
  BY DEF IpcInit, LookupWaits
<1>2. QED
  BY <1>1, IpcInitial, IpcStep, NoRefusal, PTL DEF IpcSpec

Longer(a, b, s) == Len(s) = Len(a) + Len(b) /\ \A i \in 1..Len(a) : s[i] = a[i]
RowFront(a, b, h, n, s) ==
  Len(s) = Len(a) + Len(b) + Len(h) + Len(n) /\ \A i \in 1..Len(a) : s[i] = a[i]

\* What stands first in a concatenation, and how long it is.
LEMMA FrontOfTwo ==
  ASSUME NEW S, NEW a \in Seq(S), NEW b \in Seq(S)
  PROVE  a \o b \in Seq(S) /\ Longer(a, b, a \o b)
<1> DEFINE s == a \o b
<1>1. /\ s \in Seq(S) /\ Len(s) = Len(a) + Len(b)
      /\ \A i \in 1..Len(a) + Len(b) : s[i] = IF i <= Len(a) THEN a[i] ELSE b[i - Len(a)]
  BY ConcatProperties, Zenon
<1> HIDE DEF s
<1>2. \A i \in 1..Len(a) : i \in 1..Len(a) + Len(b) /\ i <= Len(a)
  OBVIOUS
<1>3. QED
  BY <1>1, <1>2 DEF Longer, s

LEMMA FrontOfRow ==
  ASSUME NEW S, NEW a \in Seq(S), NEW b \in Seq(S), NEW h \in Seq(S), NEW n \in Seq(S)
  PROVE  RowFront(a, b, h, n, InARow(a, b, h, n))
<1> DEFINE p == a \o b
           q == p \o h
           r == q \o n
<1>1. Len(a) \in Nat /\ Len(b) \in Nat /\ Len(h) \in Nat /\ Len(n) \in Nat
  BY NotEmpty, Zenon
<1>2. p \in Seq(S) /\ Longer(a, b, p)
  BY FrontOfTwo, Zenon
<1> HIDE DEF p
<1>3. q \in Seq(S) /\ Longer(p, h, q)
  BY <1>2, FrontOfTwo, Zenon
<1> HIDE DEF q
<1>4. r \in Seq(S) /\ Longer(q, n, r)
  BY <1>3, FrontOfTwo, Zenon
<1> HIDE DEF r
<1>5. Len(r) = Len(a) + Len(b) + Len(h) + Len(n)
  BY <1>1, <1>2, <1>3, <1>4 DEF Longer
<1>6. ASSUME NEW i \in 1..Len(a) PROVE r[i] = a[i]
  <2>1. i \in 1..Len(p) /\ i \in 1..Len(q)
    BY <1>1, <1>2, <1>3 DEF Longer
  <2>2. QED
    BY <1>2, <1>3, <1>4, <2>1 DEF Longer
<1>7. QED
  BY <1>5, <1>6 DEF RowFront, InARow, r, q, p

\* The invariant says what was received, and in which order.
LEMMA InvGivesOrder == IpcInv => InOrder
<1> SUFFICES ASSUME IpcInv PROVE InOrder
  OBVIOUS
<1>1. IpcTypes /\ HeldInv /\ FlowInv /\ LineInv /\ EchoInv
  BY DEF IpcInv
<1>2. FlattenSeq(got) \o FlattenSeq(net[Consumer]) \o held
        \o (IF Xddp THEN FlattenSeq(net.nrt) ELSE <<>>) = Numbers(1, sent)
  <2>1. FlattenSeq(Back) = IF Xddp THEN FlattenSeq(net.nrt) ELSE <<>>
    BY FlattenEmpty DEF Back
  <2>2. QED
    BY <1>1, <2>1 DEF FlowInv, Flow, InARow
<1>3. /\ got \in Pieces /\ net[Consumer] \in Pieces /\ InHand \in Pieces /\ Back \in Pieces
      /\ FlattenSeq(got) \in Seq(Nat)
  BY <1>1, PartsOfLine
<1>4. /\ Len(got) \in Nat /\ Len(net[Consumer]) \in Nat /\ Len(InHand) \in Nat /\ Len(Back) \in Nat
  BY <1>3, NotEmpty, Zenon DEF Pieces
<1>5. /\ Len(Line) = Len(got) + Len(net[Consumer]) + Len(InHand) + Len(Back)
      /\ \A i \in 1..Len(got) : Line[i] = got[i]
  <2>1. RowFront(got, net[Consumer], InHand, Back, Line)
    BY <1>3, FrontOfRow, Zenon DEF Line, Pieces
  <2>2. QED
    BY <2>1 DEF RowFront
<1>6. ASSUME Whole, NEW i \in 1..Len(got)
      PROVE  got[i] = Numbers((i - 1) * MsgLen + 1, i * MsgLen)
  <2>1. i \in 1..Len(Line)
    BY <1>4, <1>5
  <2>2. QED
    BY <1>1, <1>5, <1>6, <2>1 DEF LineInv
<1>7. ASSUME demo = "xddp_echo", Head(at.rt) = "send" PROVE FlattenSeq(got) = Numbers(1, sent)
  <2>1. Len(Line) = Len(got)
    BY <1>1, <1>4, <1>7 DEF EchoInv, NextCall
  <2>2. Len(net[Consumer]) = 0 /\ Len(InHand) = 0 /\ Len(Back) = 0
    BY <1>4, <1>5, <2>1
  <2>3. net[Consumer] = <<>> /\ InHand = <<>> /\ Back = <<>>
    BY <1>3, <2>2, NotEmpty, Zenon DEF Pieces
  <2>4. held = <<>>
    <3>1. Len(<<held>>) = 1
      OBVIOUS
    <3>2. QED
      BY <1>1, <2>2, <3>1 DEF HeldInv, InHand
  <2>5. Flow = ((FlattenSeq(got) \o <<>>) \o <<>>) \o <<>>
    BY <2>3, <2>4, FlattenEmpty DEF Flow, InARow
  <2>6. FlattenSeq(got) \o <<>> = FlattenSeq(got)
    BY <1>3, ConcatEmptySeq, Zenon
  <2>7. QED
    BY <1>1, <2>5, <2>6 DEF FlowInv
<1>8. QED
  BY <1>2, <1>6, <1>7 DEF InOrder, Whole

\* Whatever the order of the threads, the length of the messages and the room of the queues,
\* nothing is lost, doubled, reordered or sent to a socket nobody reads.
THEOREM DeliversInOrder == IpcSpec => []InOrder
BY IpcInitial, IpcStep, InvGivesOrder, PTL DEF IpcSpec
=============================================================================
