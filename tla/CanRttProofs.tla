---------------------------- MODULE CanRttProofs ----------------------------
(***************************************************************************)
(* Safety of the round-trip-time test for every cycle, every queue length  *)
(* and every set of other programs on the bus: a failed setup leaves       *)
(* nothing open, no frame goes out before the one before it was made up    *)
(* for, and every report that main prints is about the frames it says.     *)
(***************************************************************************)
EXTENDS CanRtt, WellFoundedInduction, TLAPS

(***************************************************************************)
(* Sums.  What a recursive function computes is shown by the least length  *)
(* for which it would be wrong.                                            *)
(***************************************************************************)
LEMMA LeastNatural ==
  ASSUME NEW T, T \subseteq Nat, T # {}
  PROVE  \E m \in T : \A n \in T : m <= n
<1> DEFINE R == OpToRel(<, Nat)
<1>1. IsWellFoundedOn(R, Nat)
  BY NatLessThanWellFounded
<1>2. \A x, y \in Nat : x < y => <<x, y>> \in R
  BY Zenon DEF OpToRel
<1> HIDE DEF R
<1>3. PICK m \in T : \A n \in T : ~ (<<n, m>> \in R)
  BY <1>1, WFMin
<1>4. ASSUME NEW n \in T PROVE m <= n
  <2>1. m \in Nat /\ n \in Nat
    OBVIOUS
  <2>2. ~ (n < m)
    BY <1>2, <1>3, <2>1
  <2>3. QED
    BY <2>1, <2>2
<1>5. QED
  BY <1>4

\* f has the sums of the first elements of s.
IsSums(f, s, n) == f[0] = 0 /\ \A k \in 1..n : f[k] = f[k - 1] + s[k]

LEMMA SumsExist ==
  ASSUME NEW s \in Seq(Nat)
  PROVE  \E f \in [0..Len(s) -> Nat] : IsSums(f, s, Len(s))
<1> DEFINE Has(n) == \E f \in [0..n -> Nat] : IsSums(f, s, n)
           T == {n \in 0..Len(s) : ~ Has(n)}
<1>0. Len(s) \in Nat
  OBVIOUS
<1>3. Has(0)
  <2>1. [k \in 0..0 |-> 0] \in [0..0 -> Nat] /\ IsSums([k \in 0..0 |-> 0], s, 0)
    BY DEF IsSums
  <2>2. QED
    BY <2>1
<1>4. ASSUME NEW m \in 1..Len(s), Has(m - 1) PROVE Has(m)
  <2>1. PICK f \in [0..m - 1 -> Nat] : IsSums(f, s, m - 1)
    BY <1>4
  <2> DEFINE h == [k \in 0..m |-> IF k = m THEN f[m - 1] + s[m] ELSE f[k]]
  <2>2. h \in [0..m -> Nat]
    <3>1. f[m - 1] + s[m] \in Nat
      BY <1>0
    <3>2. QED
      BY <1>0, <3>1
  <2>3. h[m] = h[m - 1] + s[m]
    BY <1>0
  <2>4. \A k \in 1..m - 1 : h[k] = h[k - 1] + s[k]
    BY <1>0, <2>1 DEF IsSums
  <2>5. IsSums(h, s, m)
    <3>1. h[0] = 0
      BY <1>0, <2>1 DEF IsSums
    <3>2. \A k \in 1..m : k = m \/ k \in 1..m - 1
      BY <1>0
    <3> HIDE DEF h
    <3>3. QED
      BY <2>3, <2>4, <3>1, <3>2 DEF IsSums
  <2>6. QED
    BY <2>2, <2>5
<1> SUFFICES Has(Len(s))
  OBVIOUS
<1> HIDE DEF Has
<1>5. ASSUME T # {} PROVE FALSE
  <2>1. T \subseteq Nat
    BY <1>0
  <2>2. PICK m \in T : \A n \in T : m <= n
    BY <1>5, <2>1, LeastNatural
  <2>3. m \in 1..Len(s) /\ m - 1 \in 0..Len(s) /\ m - 1 \notin T
    BY <1>0, <1>3, <2>2
  <2>4. QED
    BY <1>4, <2>2, <2>3
<1>7. QED
  BY <1>0, <1>5

LEMMA SumsUnique ==
  ASSUME NEW s, NEW N \in Nat, NEW f, NEW g, IsSums(f, s, N), IsSums(g, s, N)
  PROVE  \A n \in 0..N : f[n] = g[n]
<1> DEFINE T == {n \in 0..N : f[n] # g[n]}
<1>1. SUFFICES ASSUME T # {} PROVE FALSE
  OBVIOUS
<1>0. T \subseteq Nat
  OBVIOUS
<1>2. PICK m \in T : \A n \in T : m <= n
  BY <1>0, <1>1, LeastNatural
<1>3. QED
  BY <1>2 DEF IsSums

LEMMA TotalIs ==
  ASSUME NEW s \in Seq(Nat), NEW f \in [0..Len(s) -> Nat], IsSums(f, s, Len(s))
  PROVE  Total(s) = f[Len(s)]
<1> DEFINE N == Len(s)
           D(g) == [n \in 0..N |-> IF n = 0 THEN 0 ELSE g[n - 1] + s[n]]
           sum == CHOOSE g : g = D(g)
<1>0. N \in Nat
  OBVIOUS
<1>1. f = D(f)
  BY <1>0 DEF IsSums
<1>2. sum = D(sum)
  BY <1>1
<1>4. Total(s) = sum[N]
  BY DEF Total
<1> HIDE DEF sum
<1>3. IsSums(sum, s, N)
  <2>1. \A n \in 0..N : sum[n] = IF n = 0 THEN 0 ELSE sum[n - 1] + s[n]
    BY <1>2
  <2>2. QED
    BY <1>0, <2>1 DEF IsSums
<1>5. QED
  BY <1>0, <1>3, <1>4, SumsUnique

LEMMA TotalEmpty == Total(<<>>) = 0
<1>1. <<>> \in Seq(Nat) /\ Len(<<>>) = 0
  OBVIOUS
<1>2. PICK f \in [0..Len(<<>>) -> Nat] : IsSums(f, <<>>, Len(<<>>))
  BY <1>1, SumsExist
<1>3. QED
  BY <1>1, <1>2, TotalIs DEF IsSums

LEMMA TotalAppend ==
  ASSUME NEW s \in Seq(Nat), NEW x \in Nat
  PROVE  Total(s) \in Nat /\ Total(Append(s, x)) = Total(s) + x
<1> DEFINE N == Len(s)
           t == Append(s, x)
<1>1. N \in Nat /\ t \in Seq(Nat) /\ Len(t) = N + 1 /\ t[N + 1] = x
      /\ \A k \in 1..N : t[k] = s[k]
  OBVIOUS
<1>2. PICK f \in [0..N -> Nat] : IsSums(f, s, N)
  BY SumsExist
<1>3. PICK h \in [0..Len(t) -> Nat] : IsSums(h, t, Len(t))
  BY <1>1, SumsExist
<1>4. Total(s) = f[N] /\ Total(t) = h[N + 1]
  BY <1>1, <1>2, <1>3, TotalIs
<1> HIDE DEF N, t
<1>5. IsSums(h, s, N)
  BY <1>1, <1>3 DEF IsSums
<1>6. h[N] = f[N]
  <2>1. N \in Nat /\ IsSums(f, s, N)
    BY <1>1, <1>2
  <2>2. \A n \in 0..N : h[n] = f[n]
    BY <1>5, <2>1, SumsUnique, SMTT(30)
  <2>3. QED
    BY <2>1, <2>2
<1>7. h[N + 1] = h[N] + x
  BY <1>1, <1>3 DEF IsSums
<1>8. QED
  BY <1>1, <1>2, <1>4, <1>6, <1>7 DEF N, t

(***************************************************************************)
(* The inductive invariant                                                 *)
(***************************************************************************)
\* A frame carries a time that has been.
TimeInv ==
  /\ stamp <= clock /\ frame <= clock
  /\ \A k \in 1..Len(bus) : bus[k] <= clock
  /\ \A k \in 1..Len(rxqueue) : rxqueue[k] <= clock

\* What is open and which threads are there at each place of the setup.
BeforeTx == DOMAIN OnFailure \cup {"failure4", "failure3", "failure2", "failure1", "failed"}
BeforeRx == DOMAIN OnFailure \ {"create_tx"}
SetupInv ==
  /\ main \in BeforeTx => tx = "unborn"
  /\ main \in BeforeRx => rx = "unborn"
  /\ main \in {"failure3", "failure2", "failure1", "failed"} => rx \in {"unborn", "ended"}
  /\ main \in {"open_rx", "config_rx", "open_tx", "config_tx", "open_mq", "failure2", "failure1",
               "failed"} => ~ mq
  /\ main \in {"open_rx", "config_rx", "open_tx", "failure1", "failed"} => ~ txsock
  /\ main \in {"open_rx", "failed"} => ~ rxsock

\* The frames that are out and not counted as received: on the bus, in the receive
\* buffer, and in the receiver's hands.
Busy == IF rx \in {"measure", "count"} THEN 1 ELSE 0
FlightInv ==
  ~ repeater =>
    /\ rx # "echo"
    /\ Running => rxcount + Len(bus) + Len(rxqueue) + Busy <= sent + strays
    /\ rxcount <= sent + strays
    /\ tx \in {"stamp", "send"} => sent <= rxcount

\* While the queue is open, every report is printed, in the queue or about to be
\* posted, and the statistics are about the round trips so far.
Upto(n) == SubSeq(rtts, 2, n)
Posted  == printed + Len(queue)
Least(m, S)    == m \in S /\ \A x \in S : m <= x
Greatest(m, S) == m \in S /\ \A x \in S : x <= m

Measured(n) == {rtts[k] : k \in 2..n}
StatsExact ==
  /\ Len(rtts) = rxcount + (IF rx = "count" THEN 1 ELSE 0)
  /\ rtt_stat.rtt = (IF Len(rtts) > 1 THEN rtts[Len(rtts)] ELSE 0)
  /\ Least(rtt_stat.rtt_min, Measured(Len(rtts)) \cup {Big})
  /\ Greatest(rtt_stat.rtt_max, Measured(Len(rtts)) \cup {-Big})
  /\ rtt_stat.rtt_sum = Total(Upto(Len(rtts)))
BatchExact ==
  mq \/ rx = "unborn" =>
    /\ rtt_stat.rtt_sum_last = Total(Upto(Posted * counts_per_sec))
    /\ Posted * counts_per_sec <= rxcount
    /\ rx # "post" /\ counts_per_sec > 0 => rxcount < (Posted + 1) * counts_per_sec
    /\ rx = "post" => counts_per_sec > 0 /\ rxcount = (Posted + 1) * counts_per_sec
StatsInv == ~ repeater /\ Running /\ rx # "ended" => StatsExact /\ BatchExact

QueueInv ==
  ~ repeater => Posted * counts_per_sec <= Len(rtts)

IInv == TypeOK /\ TimeInv /\ SetupInv /\ FlightInv /\ StatsInv /\ QueueInv /\ ReportsExact

(***************************************************************************)
(* Types                                                                   *)
(***************************************************************************)
LEMMA Places ==
  /\ DOMAIN OnFailure =
       {"open_rx", "config_rx", "open_tx", "config_tx", "open_mq", "create_rx", "create_tx"}
  /\ OnFailure["open_rx"] = "failed"
  /\ OnFailure["config_rx"] = "failure1" /\ OnFailure["open_tx"] = "failure1"
  /\ OnFailure["config_tx"] = "failure2" /\ OnFailure["open_mq"] = "failure2"
  /\ OnFailure["create_rx"] = "failure3" /\ OnFailure["create_tx"] = "failure4"
BY DEF OnFailure

LEMMA OptionsKept == Next => Running /\ UNCHANGED options
BY DEF Next, Main, SetupFails, Transmitter, Receiver, OpenSockets, OpenMq, CreateThreads,
       Unwind, Receive, LeaveLoop, ReceiveFails, ShutDown, JoinTx, CancelRx, JoinRx,
       catch_signal, Period, Stamp, Send, TxClosed, SendFails, EndTx, CountTx, Recv, RxFails,
       EndRx, Echo, Measure, CountRx, Post, Deliver, Lose, Arrive, Tick

\* Only what arrives can stray in.
LEMMA StraysArrive == Next /\ ~ Arrive => UNCHANGED strays
BY DEF Next, Main, SetupFails, Transmitter, Receiver, OpenSockets, OpenMq, CreateThreads,
       Unwind, Receive, LeaveLoop, ReceiveFails, ShutDown, JoinTx, CancelRx, JoinRx,
       catch_signal, Period, Stamp, Send, TxClosed, SendFails, EndTx, CountTx, Recv, RxFails,
       EndRx, Echo, Measure, CountRx, Post, Deliver, Lose, Tick, net

LEMMA MinMaxTwo ==
  ASSUME NEW a \in Int, NEW b \in Int
  PROVE  /\ Min({a, b}) = IF a <= b THEN a ELSE b
         /\ Max({a, b}) = IF a <= b THEN b ELSE a
BY DEF Min, Max

LEMMA Queues ==
  ASSUME NEW S, NEW s \in Seq(S)
  PROVE  /\ \A x \in S : Append(s, x) \in Seq(S)
         /\ s # <<>> => Head(s) \in S /\ Tail(s) \in Seq(S)
OBVIOUS

LEMMA TypeInit == Init => TypeOK
<1> SUFFICES ASSUME Init PROVE TypeOK
  OBVIOUS
<1>1. counts_per_sec \in Nat
  BY SizeAssumption DEF Init
<1>2. rtt_stat \in Stats
  BY BoundAssumption DEF Init, Stats
<1>3. <<>> \in Seq(Stats) /\ <<>> \in Seq(0..MaxTime) /\ Len(<<>>) = 0
  OBVIOUS
<1>4. main \in DOMAIN OnFailure /\ stamp \in 0..MaxTime
      /\ frame \in 0..MaxTime /\ clock \in 0..MaxTime /\ 0 <= MaxMsg
  BY Places, SizeAssumption, BoundAssumption DEF Init
<1>5. QED
  BY <1>1, <1>2, <1>3, <1>4 DEF Init, TypeOK

LEMMA TypeStep ==
  ASSUME TypeOK, TimeInv, [Next]_vars
  PROVE  TypeOK'
<1> USE DEF vars, options, files, mainvars, txvars, rxvars, net
<1>1. CASE UNCHANGED vars
  BY <1>1 DEF TypeOK
<1>2. CASE SetupFails
  BY <1>2, Places DEF TypeOK, SetupFails
<1>3. CASE OpenSockets
  <2>1. main' \in DOMAIN OnFailure
    BY <1>3, Places DEF OpenSockets
  <2>2. rxsock' \in BOOLEAN /\ txsock' \in BOOLEAN
    BY <1>3 DEF TypeOK, OpenSockets
  <2>3. QED
    BY <1>3, <2>1, <2>2 DEF TypeOK, OpenSockets
<1>4. CASE OpenMq
  BY <1>4, Places DEF TypeOK, OpenMq
<1>5. CASE CreateThreads
  BY <1>5, Places DEF TypeOK, CreateThreads
<1>6. CASE Unwind
  <2>1. main' \in {"failure4", "failure3", "failure2", "failure1", "failed"}
    BY <1>6 DEF Unwind
  <2>2. /\ rxsock' \in BOOLEAN /\ txsock' \in BOOLEAN
        /\ mq' \in BOOLEAN /\ cancelled' \in BOOLEAN
    BY <1>6 DEF TypeOK, Unwind
  <2>3. QED
    BY <1>6, <2>1, <2>2 DEF TypeOK, Unwind
<1>7. CASE Receive
  <2>1. Tail(queue) \in Seq(Stats) /\ Len(Tail(queue)) <= MaxMsg
    BY <1>7, SizeAssumption DEF TypeOK, Receive
  <2>2. QED
    BY <1>7, <2>1 DEF TypeOK, Receive
<1>8. CASE ShutDown
  BY <1>8, ZenonT(30) DEF TypeOK, ShutDown
<1>9. CASE JoinTx
  BY <1>9 DEF TypeOK, JoinTx
<1>10. CASE CancelRx
  BY <1>10 DEF TypeOK, CancelRx
<1>11. CASE JoinRx
  BY <1>11 DEF TypeOK, JoinRx
<1>12. CASE catch_signal
  <2>1. caught' \in Catches \cup {"none"}
    BY <1>12 DEF catch_signal
  <2>2. rxsock' \in BOOLEAN /\ txsock' \in BOOLEAN /\ mq' \in BOOLEAN
    BY <1>12 DEF TypeOK, catch_signal, CloseAll
  <2>3. QED
    BY <1>12, <2>1, <2>2 DEF TypeOK, catch_signal
<1>13. CASE Period \/ EndTx
  <2>1. tx' \in {"unborn", "sleep", "stamp", "send", "count", "ended"}
    BY <1>13 DEF Period, EndTx
  <2>2. UNCHANGED <<options, files, mainvars, txcount, stamp, rxvars, queue, net, clock>>
    BY <1>13 DEF Period, EndTx
  <2>3. QED
    BY <2>1, <2>2 DEF TypeOK
<1>14. CASE Stamp
  BY <1>14 DEF TypeOK, Stamp
<1>15. CASE Send
  <2>1. Append(bus, stamp) \in Seq(0..MaxTime)
    BY DEF TypeOK
  <2>2. QED
    BY <1>15, <2>1 DEF TypeOK, Send
<1>16. CASE CountTx
  BY <1>16 DEF TypeOK, CountTx
<1>17. CASE Recv
  <2>1. Head(rxqueue) \in 0..MaxTime /\ Tail(rxqueue) \in Seq(0..MaxTime)
    BY <1>17, Queues, Zenon DEF TypeOK, Recv
  <2>2. QED
    BY <1>17, <2>1 DEF TypeOK, Recv
<1>18. CASE EndRx
  BY <1>18 DEF TypeOK, EndRx
<1>19. CASE Echo
  BY <1>19 DEF TypeOK, Echo
<1>20. CASE Measure
  <2> DEFINE rtt == clock - frame
  <2>1. rtt \in 0..MaxTime
    BY BoundAssumption DEF TypeOK, TimeInv
  <2>2. Append(rtts, rtt) \in Seq(0..MaxTime)
    BY <2>1 DEF TypeOK
  <2>3. /\ Min({rtt_stat.rtt_min, rtt}) \in 0..MaxTime \cup {Big}
        /\ Max({rtt_stat.rtt_max, rtt}) \in 0..MaxTime \cup {-Big}
    <3>1. rtt_stat.rtt_min \in 0..MaxTime \cup {Big} /\ rtt_stat.rtt_max \in 0..MaxTime \cup {-Big}
      BY DEF TypeOK, Stats
    <3>2. rtt_stat.rtt_min \in Int /\ rtt_stat.rtt_max \in Int /\ rtt \in Int
      BY <2>1, <3>1, BoundAssumption
    <3>3. QED
      BY <2>1, <3>1, <3>2, MinMaxTwo
  <2>4. rtt_stat' \in Stats
    <3>1. rtt_stat \in Stats /\ rtt_stat.rtt_sum + rtt \in Nat
      BY <2>1 DEF TypeOK, Stats
    <3>2. rtt_stat' = rtt_stat
          \/ rtt_stat' = [rtt_stat EXCEPT !.rtt = rtt, !.rtt_sum = @ + rtt,
               !.rtt_min = Min({@, rtt}), !.rtt_max = Max({@, rtt})]
      BY <1>20 DEF Measure
    <3> HIDE DEF rtt
    <3>3. QED
      BY <2>1, <2>3, <3>1, <3>2 DEF Stats
  <2>5. QED
    BY <1>20, <2>2, <2>4 DEF TypeOK, Measure
<1>21. CASE CountRx
  BY <1>21 DEF TypeOK, CountRx
<1>22. CASE Post
  <2>1. queue' \in Seq(Stats) /\ Len(queue') <= MaxMsg
    BY <1>22, SizeAssumption DEF TypeOK, Post, HasRoom
  <2>2. BatchStarts(rtt_stat) \in Stats
    BY DEF TypeOK, Stats, BatchStarts
  <2>3. QED
    BY <1>22, <2>1, <2>2 DEF TypeOK, Post
<1>23. CASE Deliver
  <2>0. bus \in Seq(0..MaxTime) /\ rxqueue \in Seq(0..MaxTime)
    BY DEF TypeOK
  <2>1. bus' \in Seq(0..MaxTime) /\ rxqueue' \in Seq(0..MaxTime)
    BY <1>23, <2>0, Queues, Zenon DEF Deliver
  <2>2. QED
    BY <1>23, <2>1 DEF TypeOK, Deliver
<1>24. CASE Lose
  <2>1. bus' \in Seq(0..MaxTime)
    BY <1>24 DEF TypeOK, Lose
  <2>2. QED
    BY <1>24, <2>1 DEF TypeOK, Lose
<1>25. CASE Arrive
  <2>1. PICK t \in 0..clock : rxqueue' = Append(rxqueue, t)
    BY <1>25 DEF Arrive
  <2>2. t \in 0..MaxTime
    BY BoundAssumption DEF TypeOK
  <2>3. rxqueue' \in Seq(0..MaxTime)
    BY <2>1, <2>2 DEF TypeOK
  <2>4. strays' \in Nat
    BY <1>25 DEF TypeOK, Arrive
  <2>5. QED
    BY <1>25, <2>3, <2>4 DEF TypeOK, Arrive
<1>26. CASE Tick
  BY <1>26, BoundAssumption DEF TypeOK, Tick
<1>27. QED
  BY <1>1, <1>2, <1>3, <1>4, <1>5, <1>6, <1>7, <1>8, <1>9, <1>10, <1>11, <1>12, <1>13, <1>14,
     <1>15, <1>16, <1>17, <1>18, <1>19, <1>20, <1>21, <1>22, <1>23, <1>24, <1>25, <1>26
     DEF Next, Main, LeaveLoop, ReceiveFails, Transmitter, TxClosed, SendFails, Receiver,
         RxFails

(***************************************************************************)
(* Times, the setup, and the frames on their way                           *)
(***************************************************************************)
LEMMA BoundedAppend ==
  ASSUME NEW s \in Seq(Nat), NEW c \in Nat, NEW x \in Nat, x <= c,
         \A k \in 1..Len(s) : s[k] <= c
  PROVE  \A k \in 1..Len(Append(s, x)) : Append(s, x)[k] <= c
OBVIOUS

LEMMA TimeStep ==
  ASSUME TypeOK, TimeInv, [Next]_vars
  PROVE  TimeInv'
<1> USE DEF vars, options, files, mainvars, txvars, rxvars, net
<1>0. /\ stamp \in Nat /\ clock \in Nat /\ frame \in Nat
      /\ bus \in Seq(Nat) /\ rxqueue \in Seq(Nat)
  BY BoundAssumption DEF TypeOK
<1>1. CASE UNCHANGED <<stamp, frame, bus, rxqueue, clock>>
  BY <1>1 DEF TimeInv
<1>2. CASE Stamp
  BY <1>0, <1>2 DEF TimeInv, Stamp
<1>3. CASE Send
  <2>1. bus' = Append(bus, stamp)
    BY <1>3 DEF Send
  <2>2. \A k \in 1..Len(bus') : bus'[k] <= clock
    BY <1>0, <2>1, BoundedAppend, Zenon DEF TimeInv
  <2>3. QED
    BY <1>3, <2>2 DEF TimeInv, Send
<1>4. CASE Recv
  <2>1. /\ Head(rxqueue) <= clock
        /\ \A k \in 1..Len(Tail(rxqueue)) : Tail(rxqueue)[k] <= clock
    BY <1>0, <1>4 DEF TimeInv, Recv
  <2>2. QED
    BY <1>4, <2>1 DEF TimeInv, Recv
<1>5. CASE Deliver
  <2>1. Head(bus) <= clock /\ Head(bus) \in Nat
    BY <1>0, <1>5 DEF TimeInv, Deliver
  <2>2. \A k \in 1..Len(Tail(bus)) : Tail(bus)[k] <= clock
    BY <1>0, <1>5 DEF TimeInv, Deliver
  <2>3. \A k \in 1..Len(Append(rxqueue, Head(bus))) : Append(rxqueue, Head(bus))[k] <= clock
    BY <1>0, <2>1 DEF TimeInv
  <2>4. QED
    BY <1>5, <2>2, <2>3 DEF TimeInv, Deliver
<1>6. CASE Lose
  <2>1. \A k \in 1..Len(Tail(bus)) : Tail(bus)[k] <= clock
    BY <1>0, <1>6 DEF TimeInv, Lose
  <2>2. QED
    BY <1>6, <2>1 DEF TimeInv, Lose
<1>7. CASE Arrive
  <2>1. PICK t \in 0..clock : rxqueue' = Append(rxqueue, t)
    BY <1>7 DEF Arrive
  <2>2. \A k \in 1..Len(rxqueue') : rxqueue'[k] <= clock
    <3>1. t \in Nat /\ t <= clock
      BY <1>0
    <3>2. QED
      BY <1>0, <2>1, <3>1, BoundedAppend, Zenon DEF TimeInv
  <2>3. QED
    BY <1>7, <2>2 DEF TimeInv, Arrive
<1>8. CASE Tick
  <2>1. clock' = clock + 1 /\ UNCHANGED <<stamp, frame, bus, rxqueue>>
    BY <1>8 DEF Tick
  <2>2. \A k \in 1..Len(bus) : bus[k] <= clock + 1
    BY <1>0 DEF TimeInv
  <2>3. \A k \in 1..Len(rxqueue) : rxqueue[k] <= clock + 1
    BY <1>0 DEF TimeInv
  <2>4. QED
    BY <1>0, <2>1, <2>2, <2>3 DEF TimeInv
<1>9. CASE SetupFails \/ Main \/ ShutDown \/ catch_signal
  BY <1>1, <1>9 DEF SetupFails, Main, OpenSockets, OpenMq, CreateThreads, Unwind, Receive,
                    LeaveLoop, ShutDown, JoinTx, CancelRx, JoinRx, catch_signal
<1>10. CASE Period \/ EndTx \/ CountTx \/ EndRx \/ Echo \/ Measure \/ CountRx \/ Post
  BY <1>1, <1>10 DEF Period, EndTx, CountTx, EndRx, Echo, Measure, CountRx, Post
<1>11. QED
  BY <1>1, <1>2, <1>3, <1>4, <1>5, <1>6, <1>7, <1>8, <1>9, <1>10
     DEF Next, ReceiveFails, Transmitter, TxClosed, SendFails, Receiver, RxFails

LEMMA SetupStep ==
  ASSUME TypeOK, SetupInv, [Next]_vars
  PROVE  SetupInv'
<1> USE DEF vars, options, files, mainvars, txvars, rxvars, net, SetupInv, BeforeTx, BeforeRx
<1>1. CASE UNCHANGED <<files, main, tx, rx>>
  BY <1>1
<1>2. CASE SetupFails
  BY <1>2, Places DEF SetupFails
<1>3. CASE OpenSockets
  BY <1>3, Places DEF OpenSockets
<1>4. CASE OpenMq
  BY <1>4, Places DEF OpenMq
<1>5. CASE CreateThreads
  BY <1>5, Places DEF CreateThreads
<1>6. CASE Unwind
  BY <1>6, Places DEF Unwind, TypeOK
<1>7. CASE ShutDown \/ JoinTx \/ CancelRx \/ JoinRx
  BY <1>7, Places DEF ShutDown, JoinTx, CancelRx, JoinRx
<1>8. CASE catch_signal
  BY <1>8, Places DEF catch_signal, CloseAll
<1>9. CASE Period \/ Stamp \/ Send \/ EndTx \/ CountTx
  BY <1>9, Places DEF Period, Stamp, Send, EndTx, CountTx
<1>10. CASE CountRx
  BY <1>10, Places DEF CountRx
<1>11. CASE Recv \/ (RxClosed /\ EndRx) \/ RxFails \/ Echo \/ Measure \/ Post
  BY <1>11, Places DEF Recv, RxClosed, RxFails, EndRx, Echo, Measure, Post
<1>12. CASE Receive \/ Deliver \/ Lose \/ Arrive \/ Tick
  BY <1>1, <1>12 DEF Receive, Deliver, Lose, Arrive, Tick
<1>13. QED
  BY <1>1, <1>2, <1>3, <1>4, <1>5, <1>6, <1>7, <1>8, <1>9, <1>10, <1>11, <1>12
     DEF Next, Main, LeaveLoop, ReceiveFails, Transmitter, TxClosed, SendFails, Receiver

\* A frame that is counted was sent, or strayed in, and is in nobody's hands twice.
LEMMA FlightStep ==
  ASSUME TypeOK, SetupInv, FlightInv, Next
  PROVE  FlightInv'
<1> USE DEF vars, options, files, mainvars, txvars, rxvars, net
<1> SUFFICES ASSUME ~ repeater' PROVE FlightInv'
  BY DEF FlightInv
<1>0. /\ txcount \in Nat /\ rxcount \in Nat /\ bus \in Seq(Nat) /\ rxqueue \in Seq(Nat)
      /\ Len(bus) \in Nat /\ Len(rxqueue) \in Nat /\ clock \in Nat /\ stamp \in Nat
      /\ strays \in Nat
  BY BoundAssumption DEF TypeOK
<1>r. Running /\ ~ repeater
  BY OptionsKept DEF options
<1>i. /\ rx # "echo"
      /\ rxcount + Len(bus) + Len(rxqueue) + Busy <= sent + strays
      /\ rxcount <= sent + strays
      /\ tx \in {"stamp", "send"} => sent <= rxcount
  BY <1>r DEF FlightInv
<1>s. sent = txcount + (IF tx = "count" THEN 1 ELSE 0)
  BY <1>r DEF sent
<1>t. sent' = txcount' + (IF tx' = "count" THEN 1 ELSE 0)
  BY DEF sent
<1>1. CASE UNCHANGED <<tx, rx, txcount, rxcount, net>>
  BY <1>0, <1>1, <1>i, <1>s, <1>t DEF FlightInv, Busy
<1>2. CASE SetupFails \/ Main \/ ShutDown \/ catch_signal \/ Tick
  <2>1. CASE CreateThreads
    BY <1>0, <1>i, <1>s, <1>t, <2>1, Places DEF FlightInv, Busy, CreateThreads, SetupInv, BeforeRx, BeforeTx
  <2>2. QED
    BY <1>1, <1>2, <2>1 DEF SetupFails, Main, OpenSockets, OpenMq, Unwind, Receive,
                    LeaveLoop, ShutDown, JoinTx, CancelRx, JoinRx, catch_signal, Tick
<1>3. CASE Period \/ EndTx
  BY <1>0, <1>3, <1>i, <1>s, <1>t DEF FlightInv, Busy, Period, AllBack, EndTx
<1>4. CASE Stamp
  BY <1>0, <1>4, <1>i, <1>s, <1>t DEF FlightInv, Busy, Stamp
<1>5. CASE Send
  <2>1. Len(Append(bus, stamp)) = Len(bus) + 1
    BY <1>0
  <2>2. QED
    BY <1>0, <1>5, <1>i, <1>s, <1>t, <2>1 DEF FlightInv, Busy, Send
<1>6. CASE CountTx
  BY <1>0, <1>6, <1>i, <1>s, <1>t DEF FlightInv, Busy, CountTx
<1>7. CASE Recv
  <2>1. rxqueue # <<>> => Len(Tail(rxqueue)) = Len(rxqueue) - 1
    BY <1>0
  <2>2. QED
    BY <1>0, <1>7, <1>i, <1>r, <1>s, <1>t, <2>1 DEF FlightInv, Busy, Recv
<1>8. CASE EndRx \/ Measure \/ Post
  BY <1>0, <1>8, <1>i, <1>s, <1>t DEF FlightInv, Busy, EndRx, Measure, Post
<1>9. CASE Echo
  BY <1>9, <1>i DEF Echo
<1>10. CASE CountRx
  BY <1>0, <1>10, <1>i, <1>s, <1>t DEF FlightInv, Busy, CountRx, Running
<1>11. CASE Deliver
  <2>1. bus # <<>> => Len(Tail(bus)) = Len(bus) - 1
    BY <1>0
  <2>2. Len(Append(rxqueue, Head(bus))) = Len(rxqueue) + 1
    BY <1>0
  <2>3. QED
    BY <1>0, <1>11, <1>i, <1>s, <1>t, <2>1, <2>2 DEF FlightInv, Busy, Deliver
<1>12. CASE Lose
  <2>1. bus # <<>> => Len(Tail(bus)) = Len(bus) - 1
    BY <1>0
  <2>2. QED
    BY <1>0, <1>12, <1>i, <1>s, <1>t, <2>1 DEF FlightInv, Busy, Lose
<1>13. CASE Arrive
  <2>1. /\ Len(rxqueue') = Len(rxqueue) + 1 /\ strays' = strays + 1
        /\ UNCHANGED <<tx, rx, txcount, rxcount, bus>>
    BY <1>0, <1>13, <1>r DEF Arrive
  <2>2. QED
    BY <1>0, <1>i, <1>s, <1>t, <2>1 DEF FlightInv, Busy
<1>14. QED
  BY <1>2, <1>3, <1>4, <1>5, <1>6, <1>7, <1>8, <1>9, <1>10, <1>11, <1>12, <1>13
     DEF Next, ReceiveFails, Transmitter, TxClosed, SendFails, Receiver, RxFails

(***************************************************************************)
(* The statistics: one round trip more, and one report more                *)
(***************************************************************************)
LEMMA SameSequence ==
  ASSUME NEW s \in Seq(Nat), NEW t \in Seq(Nat), Len(s) = Len(t),
         \A k \in 1..Len(s) : s[k] = t[k]
  PROVE  s = t
OBVIOUS

LEMMA Prefix ==
  ASSUME NEW s \in Seq(Nat), NEW x \in Nat, NEW n \in Int, n <= Len(s)
  PROVE  SubSeq(Append(s, x), 2, n) = SubSeq(s, 2, n)
OBVIOUS

\* The first round trip is not measured, any later one is.
LEMMA TotalGrows ==
  ASSUME NEW s \in Seq(Nat), NEW x \in Nat
  PROVE  Total(SubSeq(Append(s, x), 2, Len(s) + 1)) =
           Total(SubSeq(s, 2, Len(s))) + (IF Len(s) = 0 THEN 0 ELSE x)
<1> DEFINE u == SubSeq(Append(s, x), 2, Len(s) + 1)
           v == SubSeq(s, 2, Len(s))
<1>1. CASE Len(s) = 0
  <2>1. u = <<>> /\ v = <<>>
    BY <1>1
  <2>2. QED
    <3> HIDE DEF u, v
    <3>1. Total(u) = 0 /\ Total(v) = 0
      BY <2>1, TotalEmpty, Zenon
    <3>2. QED
      BY <1>1, <3>1 DEF u, v
<1>2. CASE Len(s) # 0
  <2>1. /\ u \in Seq(Nat) /\ v \in Seq(Nat) /\ Append(v, x) \in Seq(Nat)
        /\ Len(u) = Len(Append(v, x)) /\ Len(u) = Len(s)
    BY <1>2
  <2>2. \A k \in 1..Len(s) : u[k] = Append(v, x)[k]
    BY <1>2
  <2>3. u = Append(v, x)
    <3> HIDE DEF u, v
    <3>1. QED
      BY <2>1, <2>2, SameSequence
  <2>4. Total(Append(v, x)) = Total(v) + x
    <3> HIDE DEF u, v
    <3>1. QED
      BY <2>1, TotalAppend
  <2>5. QED
    BY <1>2, <2>3, <2>4
<1>3. QED
  BY <1>1, <1>2

LEMMA MeasuredSet ==
  ASSUME NEW s \in Seq(Nat), NEW n \in Nat, n <= Len(s)
  PROVE  ToSet(SubSeq(s, 2, n)) = {s[k] : k \in 2..n}
<1> DEFINE t == SubSeq(s, 2, n)
<1>1. /\ Len(t) \in Nat /\ Len(t) = (IF n = 0 THEN 0 ELSE n - 1) /\ DOMAIN t = 1..Len(t)
      /\ \A i \in 1..Len(t) : t[i] = s[i + 1]
  OBVIOUS
<1>2. ToSet(t) = {t[i] : i \in 1..Len(t)}
  BY <1>1 DEF ToSet
<1> HIDE DEF t
<1>3. \A i \in 1..Len(t) : i + 1 \in 2..n
  BY <1>1
<1>4. \A k \in 2..n : k - 1 \in 1..Len(t) /\ t[k - 1] = s[k]
  BY <1>1
<1>5. {t[i] : i \in 1..Len(t)} = {s[k] : k \in 2..n}
  <2>1. ASSUME NEW i \in 1..Len(t) PROVE t[i] \in {s[k] : k \in 2..n}
    BY <1>1, <1>3
  <2>2. ASSUME NEW k \in 2..n PROVE s[k] \in {t[i] : i \in 1..Len(t)}
    BY <1>4
  <2>3. QED
    BY <2>1, <2>2
<1>6. QED
  BY <1>2, <1>5 DEF t

LEMMA ExtremeIs ==
  ASSUME NEW S, S \subseteq Int, NEW m
  PROVE  /\ Least(m, S) => Min(S) = m
         /\ Greatest(m, S) => Max(S) = m
<1>1. ASSUME Least(m, S) PROVE Min(S) = m
  <2>1. m \in S /\ \A y \in S : m <= y
    BY <1>1 DEF Least
  <2>2. Min(S) \in S /\ \A y \in S : Min(S) <= y
    BY <2>1 DEF Min
  <2>3. m \in Int /\ Min(S) \in Int
    BY <2>1, <2>2
  <2>4. m <= Min(S) /\ Min(S) <= m
    BY <2>1, <2>2, <2>3
  <2>5. QED
    BY <2>3, <2>4
<1>2. ASSUME Greatest(m, S) PROVE Max(S) = m
  <2>1. m \in S /\ \A y \in S : m >= y
    BY <1>2 DEF Greatest
  <2>2. Max(S) \in S /\ \A y \in S : Max(S) >= y
    BY <2>1 DEF Max
  <2>3. m \in Int /\ Max(S) \in Int
    BY <2>1, <2>2
  <2>4. m <= Max(S) /\ Max(S) <= m
    BY <2>1, <2>2, <2>3
  <2>5. QED
    BY <2>3, <2>4
<1>3. QED
  BY <1>1, <1>2

LEMMA ExtremesGrow ==
  ASSUME NEW S, S \subseteq Int, NEW m, NEW x \in Int
  PROVE  /\ Least(m, S) => Least(Min({m, x}), S \cup {x})
         /\ Greatest(m, S) => Greatest(Max({m, x}), S \cup {x})
<1>1. ASSUME Least(m, S) PROVE Least(Min({m, x}), S \cup {x})
  <2>1. m \in Int
    BY <1>1 DEF Least
  <2>2. Min({m, x}) = IF m <= x THEN m ELSE x
    BY <2>1, MinMaxTwo
  <2>3. QED
    BY <1>1, <2>1, <2>2 DEF Least
<1>2. ASSUME Greatest(m, S) PROVE Greatest(Max({m, x}), S \cup {x})
  <2>1. m \in Int
    BY <1>2 DEF Greatest
  <2>2. Max({m, x}) = IF m <= x THEN x ELSE m
    BY <2>1, MinMaxTwo
  <2>3. QED
    BY <1>2, <2>1, <2>2 DEF Greatest
<1>3. QED
  BY <1>1, <1>2

\* The count of frames completes a report when it is a multiple of the length of one.
LEMMA Completes ==
  ASSUME NEW c \in Nat \ {0}, NEW K \in Nat, NEW n \in Nat, K * c <= n, n < (K + 1) * c
  PROVE  IF (n + 1) % c = 0 THEN n + 1 = (K + 1) * c ELSE n + 1 < (K + 1) * c
<1> DEFINE d == n + 1 - K * c
<1>1. (K + 1) * c = K * c + c /\ K * c \in Nat
  OBVIOUS
<1>2. d \in 1..c /\ n + 1 = K * c + d
  BY <1>1
<1>3. CASE d = c
  <2>1. n + 1 = (K + 1) * c + 0 /\ K + 1 \in Nat /\ 0 \in 0..c - 1
    BY <1>1, <1>2, <1>3
  <2>2. ((K + 1) * c + 0) % c = 0
    OBVIOUS
  <2>3. QED
    BY <1>1, <2>1, <2>2
<1>4. CASE d # c
  <2>1. d \in 0..c - 1
    BY <1>2, <1>4
  <2> HIDE DEF d
  <2>2. (K * c + d) % c = d
    BY <2>1
  <2>3. QED
    BY <1>1, <1>2, <2>1, <2>2
<1>5. QED
  BY <1>3, <1>4

\* What a report says does not change with later round trips.
ReportOf(r, c, k) ==
  LET n == k * c
  IN [rtt |-> IF n > 1 THEN r[n] ELSE 0,
      rtt_min |-> Min(ToSet(SubSeq(r, 2, n)) \cup {Big}),
      rtt_max |-> Max(ToSet(SubSeq(r, 2, n)) \cup {-Big}),
      rtt_sum |-> Total(SubSeq(r, 2, n)),
      rtt_sum_last |-> Total(SubSeq(r, 2, n - c))]

LEMMA ReportStays ==
  ASSUME NEW r \in Seq(Nat), NEW x \in Nat, NEW c \in Nat, NEW k \in Nat, k * c <= Len(r)
  PROVE  ReportOf(Append(r, x), c, k) = ReportOf(r, c, k)
<1> DEFINE n == k * c
<1>1. n \in Nat /\ n - c \in Int /\ n <= Len(r) /\ n - c <= Len(r)
  OBVIOUS
<1> HIDE DEF n
<1>2. /\ SubSeq(Append(r, x), 2, n) = SubSeq(r, 2, n)
      /\ SubSeq(Append(r, x), 2, n - c) = SubSeq(r, 2, n - c)
  BY <1>1, Prefix
<1>3. n > 1 => Append(r, x)[n] = r[n]
  BY <1>1
<1>4. QED
  BY <1>2, <1>3 DEF ReportOf, n

(***************************************************************************)
(* The statistics and the reports at each step                             *)
(***************************************************************************)
LEMMA StatsInit == Init => StatsInv /\ QueueInv /\ ReportsExact
<1> SUFFICES ASSUME Init PROVE StatsInv /\ QueueInv /\ ReportsExact
  OBVIOUS
<1>1. counts_per_sec \in Nat /\ Big \in Nat
  BY SizeAssumption, BoundAssumption DEF Init
<1>2. Len(rtts) = 0 /\ Len(queue) = 0 /\ Posted = 0 /\ rxcount = 0 /\ rx = "unborn"
  BY DEF Init, Posted
<1>3. Posted * counts_per_sec = 0 /\ (Posted + 1) * counts_per_sec = counts_per_sec
  BY <1>1, <1>2
<1>4. Measured(0) = {} /\ Upto(0) = <<>>
  BY DEF Init, Measured, Upto
<1>5. StatsExact
  BY <1>1, <1>2, <1>4, TotalEmpty DEF Init, StatsExact, Least, Greatest
<1>6. BatchExact
  BY <1>1, <1>2, <1>3, <1>4, TotalEmpty DEF Init, BatchExact
<1>7. QED
  BY <1>2, <1>3, <1>5, <1>6 DEF StatsInv, QueueInv, ReportsExact

\* Every other action leaves the statistics and the number of reports alone.
LEMMA StatsKept ==
  ASSUME StatsExact /\ BatchExact,
         UNCHANGED <<counts_per_sec, rxcount, rtt_stat, rtts>>,
         (rx' = "count") <=> (rx = "count"), (rx' = "post") <=> (rx = "post"),
         mq' \/ rx' = "unborn" => mq \/ rx = "unborn", Posted' = Posted
  PROVE  (StatsExact /\ BatchExact)'
BY Zenon DEF StatsExact, BatchExact, Measured, Upto

LEMMA StatsMeasure ==
  ASSUME TypeOK, TimeInv, ~ repeater, StatsExact, BatchExact, Measure
  PROVE  (StatsExact /\ BatchExact)'
<1> USE DEF options, files, mainvars, txvars, rxvars, net
<1> DEFINE L == Len(rtts)
           rtt == clock - frame
<1>1. /\ rx = "measure" /\ rx' = "count" /\ rtts' = Append(rtts, rtt)
      /\ UNCHANGED <<counts_per_sec, rxcount, mq, printed, queue>>
      /\ rtt_stat' = IF rxcount = 0 THEN rtt_stat
                     ELSE [rtt_stat EXCEPT !.rtt = rtt, !.rtt_sum = @ + rtt,
                              !.rtt_min = Min({@, rtt}), !.rtt_max = Max({@, rtt})]
  BY DEF Measure
<1>2. /\ rtt \in Nat /\ rtts \in Seq(Nat) /\ L \in Nat /\ rxcount \in Nat
      /\ rtt_stat \in Stats /\ counts_per_sec \in Nat /\ Big \in Nat
      /\ printed \in Nat /\ Len(queue) \in Nat
  BY BoundAssumption DEF TypeOK, TimeInv
<1> HIDE DEF rtt
<1>3. L = rxcount /\ Len(rtts') = L + 1 /\ rtts'[L + 1] = rtt
      /\ \A k \in 1..L : rtts'[k] = rtts[k]
  BY <1>1, <1>2 DEF StatsExact
<1>4. Posted' = Posted /\ Posted \in Nat
  BY <1>1, <1>2 DEF Posted
<1>5. mq => Upto(Posted * counts_per_sec)' = Upto(Posted * counts_per_sec)
  <2> DEFINE n == Posted * counts_per_sec
  <2>1. n \in Int /\ n' = n
    BY <1>1, <1>2, <1>4
  <2>2. mq => n <= L
    BY <1>3 DEF BatchExact
  <2> HIDE DEF n
  <2>3. n <= L => SubSeq(Append(rtts, rtt), 2, n) = SubSeq(rtts, 2, n)
    BY <1>2, <2>1, Prefix
  <2>4. QED
    BY <1>1, <2>1, <2>2, <2>3 DEF Upto, n
<1>6. Total(Upto(Len(rtts)))' = Total(Upto(L)) + (IF L = 0 THEN 0 ELSE rtt)
  <2>1. Total(Upto(Len(rtts)))' = Total(SubSeq(Append(rtts, rtt), 2, L + 1))
    BY <1>1, <1>3 DEF Upto
  <2>2. QED
    BY <1>2, <2>1, TotalGrows DEF Upto
<1>7. CASE rxcount = 0
  <2>1. Measured(Len(rtts))' = {} /\ Measured(L) = {}
    BY <1>3, <1>7 DEF Measured
  <2>2. Len(rtts') = rxcount' + 1 /\ rx' = "count" /\ ~ (Len(rtts') > 1) /\ ~ (L > 1)
    BY <1>1, <1>2, <1>3, <1>7
  <2>3. UNCHANGED rtt_stat
    BY <1>1, <1>7
  <2>4. rtt_stat.rtt_sum = Total(Upto(Len(rtts)))'
    <3>1. rtt_stat.rtt_sum = Total(Upto(L)) /\ rtt_stat.rtt_sum \in Nat
      BY <1>2 DEF StatsExact, Stats
    <3>2. QED
      BY <1>3, <1>6, <1>7, <3>1
  <2>5. /\ (Least(rtt_stat.rtt_min, Measured(Len(rtts)) \cup {Big}))'
        /\ (Greatest(rtt_stat.rtt_max, Measured(Len(rtts)) \cup {-Big}))'
    BY <2>1, <2>3, Zenon DEF StatsExact, Least, Greatest
  <2>6. StatsExact'
    BY <2>2, <2>3, <2>4, <2>5 DEF StatsExact
  <2>7. BatchExact'
    BY <1>1, <1>4, <1>5, <2>3 DEF BatchExact
  <2>8. QED
    BY <2>6, <2>7
<1>8. CASE rxcount # 0
  <2>1. Measured(Len(rtts))' = Measured(L) \cup {rtt}
    <3>1. Measured(Len(rtts))' = {rtts'[k] : k \in 2..L + 1}
      BY <1>3 DEF Measured
    <3>2. \A k \in 2..L + 1 : k \in 2..L \/ k = L + 1
      BY <1>2
    <3>3. L + 1 \in 2..L + 1 /\ \A k \in 2..L : k \in 2..L + 1 /\ rtts'[k] = rtts[k]
      BY <1>2, <1>3, <1>8
    <3>4. \A k \in 2..L + 1 : rtts'[k] \in Measured(L) \cup {rtt}
      BY <1>3, <3>2, <3>3 DEF Measured
    <3>5. Measured(L) \cup {rtt} \subseteq {rtts'[k] : k \in 2..L + 1}
      <4>1. Measured(L) \subseteq {rtts'[k] : k \in 2..L + 1}
        BY <3>3 DEF Measured
      <4>2. rtt \in {rtts'[k] : k \in 2..L + 1}
        BY <1>3, <3>3
      <4>3. QED
        BY <4>1, <4>2
    <3>6. QED
      BY <3>1, <3>4, <3>5
  <2>2. Measured(L) \cup {Big} \subseteq Int /\ Measured(L) \cup {-Big} \subseteq Int
    BY <1>2 DEF Measured
  <2>3. /\ rtt_stat'.rtt = rtt /\ rtt_stat'.rtt_sum = rtt_stat.rtt_sum + rtt
        /\ rtt_stat'.rtt_min = Min({rtt_stat.rtt_min, rtt})
        /\ rtt_stat'.rtt_max = Max({rtt_stat.rtt_max, rtt})
        /\ rtt_stat'.rtt_sum_last = rtt_stat.rtt_sum_last
    BY <1>1, <1>2, <1>8 DEF Stats
  <2>4. Least(rtt_stat.rtt_min, Measured(Len(rtts)) \cup {Big})'
    <3>0. rtt \in Int /\ Least(rtt_stat.rtt_min, Measured(L) \cup {Big})
      BY <1>2 DEF StatsExact
    <3>1. Least(Min({rtt_stat.rtt_min, rtt}), (Measured(L) \cup {Big}) \cup {rtt})
      BY <2>2, <3>0, ExtremesGrow
    <3>2. (Measured(L) \cup {Big}) \cup {rtt} = (Measured(L) \cup {rtt}) \cup {Big}
      OBVIOUS
    <3>3. QED
      BY <2>1, <2>3, <3>1, <3>2 DEF Least
  <2>5. Greatest(rtt_stat.rtt_max, Measured(Len(rtts)) \cup {-Big})'
    <3>0. rtt \in Int /\ Greatest(rtt_stat.rtt_max, Measured(L) \cup {-Big})
      BY <1>2 DEF StatsExact
    <3>1. Greatest(Max({rtt_stat.rtt_max, rtt}), (Measured(L) \cup {-Big}) \cup {rtt})
      BY <2>2, <3>0, ExtremesGrow
    <3>2. (Measured(L) \cup {-Big}) \cup {rtt} = (Measured(L) \cup {rtt}) \cup {-Big}
      OBVIOUS
    <3>3. QED
      BY <2>1, <2>3, <3>1, <3>2 DEF Greatest
  <2>6. StatsExact'
    BY <1>1, <1>2, <1>3, <1>6, <1>8, <2>3, <2>4, <2>5 DEF StatsExact
  <2>7. BatchExact'
    BY <1>1, <1>4, <1>5, <2>3 DEF BatchExact
  <2>8. QED
    BY <2>6, <2>7
<1>9. QED
  BY <1>7, <1>8

LEMMA StatsCount ==
  ASSUME TypeOK, ~ repeater, StatsExact, BatchExact, CountRx, Running'
  PROVE  (StatsExact /\ BatchExact)'
<1> USE DEF options, files, mainvars, txvars, rxvars, net
<1>1. /\ rx = "count" /\ rxcount' = rxcount + 1 /\ counts_per_sec # 0
      /\ rx' = IF (rxcount + 1) % counts_per_sec = 0 THEN "post" ELSE "recv"
      /\ UNCHANGED <<counts_per_sec, mq, printed, queue, rtts, rtt_stat>>
  BY DEF CountRx, Running
<1>2. /\ rxcount \in Nat /\ counts_per_sec \in Nat \ {0} /\ printed \in Nat /\ Len(queue) \in Nat
  BY <1>1 DEF TypeOK
<1>3. Posted' = Posted /\ Posted \in Nat
  BY <1>1, <1>2 DEF Posted
<1>4. StatsExact'
  <2>1. Len(rtts) = rxcount' + (IF rx' = "count" THEN 1 ELSE 0)
    BY <1>1, <1>2 DEF StatsExact
  <2>2. QED
    BY <1>1, <2>1, Zenon DEF StatsExact, Measured, Upto
<1>5. ASSUME mq PROVE BatchExact'
  <2>1. /\ Posted * counts_per_sec <= rxcount
        /\ rxcount < (Posted + 1) * counts_per_sec
        /\ rtt_stat.rtt_sum_last = Total(Upto(Posted * counts_per_sec))
    BY <1>1, <1>2, <1>5 DEF BatchExact
  <2>2. IF (rxcount + 1) % counts_per_sec = 0
        THEN rxcount + 1 = (Posted + 1) * counts_per_sec
        ELSE rxcount + 1 < (Posted + 1) * counts_per_sec
    BY <1>2, <1>3, <2>1, Completes
  <2>3. (rtt_stat.rtt_sum_last = Total(Upto(Posted * counts_per_sec)))'
    BY <1>1, <1>3, <2>1 DEF Upto
  <2>4. Posted * counts_per_sec <= rxcount + 1
    BY <1>2, <1>3, <2>1
  <2>5. QED
    BY <1>1, <1>2, <1>3, <2>2, <2>3, <2>4 DEF BatchExact
<1>6. QED
  BY <1>1, <1>4, <1>5 DEF BatchExact

\* A report posted: the next batch starts where it ended.
LEMMA StatsPost ==
  ASSUME TypeOK, ~ repeater, StatsExact, BatchExact, Post
  PROVE  (StatsExact /\ BatchExact)'
<1> USE DEF options, files, mainvars, txvars, rxvars, net
<1>1. /\ rx = "post" /\ rx' = "recv" /\ rtt_stat' = BatchStarts(rtt_stat)
      /\ queue' = (IF mq THEN Append(queue, rtt_stat) ELSE queue)
      /\ UNCHANGED <<counts_per_sec, mq, printed, rxcount, rtts>>
  BY DEF Post
<1>2. /\ rxcount \in Nat /\ counts_per_sec \in Nat /\ printed \in Nat /\ Len(queue) \in Nat
      /\ rtt_stat \in Stats /\ queue \in Seq(Stats)
  BY DEF TypeOK
<1>3. /\ rtt_stat'.rtt = rtt_stat.rtt /\ rtt_stat'.rtt_sum = rtt_stat.rtt_sum
      /\ rtt_stat'.rtt_min = rtt_stat.rtt_min /\ rtt_stat'.rtt_max = rtt_stat.rtt_max
      /\ rtt_stat'.rtt_sum_last = rtt_stat.rtt_sum
  BY <1>1, <1>2 DEF Stats, BatchStarts
<1>4. StatsExact'
  BY <1>1, <1>3 DEF StatsExact, Measured, Upto
<1>5. ASSUME mq PROVE BatchExact'
  <2>1. Posted' = Posted + 1 /\ Posted \in Nat
    BY <1>1, <1>2, <1>5 DEF Posted
  <2>2. counts_per_sec > 0 /\ rxcount = (Posted + 1) * counts_per_sec
    BY <1>1, <1>5 DEF BatchExact
  <2>3. /\ (Posted * counts_per_sec)' = rxcount /\ rxcount = Len(rtts)
        /\ rtt_stat.rtt_sum = Total(Upto(Len(rtts)))
    BY <1>1, <1>2, <2>1, <2>2 DEF StatsExact
  <2>4. (rtt_stat.rtt_sum_last = Total(Upto(Posted * counts_per_sec)))'
    BY <1>1, <1>3, <2>3 DEF Upto
  <2>5. rxcount < (Posted + 1 + 1) * counts_per_sec
    BY <1>2, <2>1, <2>2
  <2>6. QED
    BY <1>1, <1>2, <2>1, <2>3, <2>4, <2>5 DEF BatchExact
<1>6. QED
  BY <1>1, <1>4, <1>5 DEF BatchExact

LEMMA StatsStep ==
  ASSUME TypeOK, TimeInv, SetupInv, FlightInv, StatsInv, Next
  PROVE  StatsInv'
<1> USE DEF options, files, mainvars, txvars, rxvars, net
<1> SUFFICES ASSUME ~ repeater', Running', rx' # "ended" PROVE (StatsExact /\ BatchExact)'
  BY DEF StatsInv
<1>0. /\ queue \in Seq(Stats) /\ printed \in Nat /\ MaxMsg \in Nat
  BY SizeAssumption DEF TypeOK
<1>1. ~ repeater /\ Running
  BY OptionsKept DEF options
<1>2. rx # "echo" /\ (rx # "ended" => StatsExact /\ BatchExact)
  BY <1>1 DEF FlightInv, StatsInv
<1>3. ASSUME UNCHANGED <<queue, printed>> PROVE Posted' = Posted
  BY <1>3 DEF Posted
<1>4. CASE SetupFails \/ OpenSockets \/ Unwind \/ ShutDown \/ JoinTx \/ CancelRx \/ JoinRx
  <2>1. /\ UNCHANGED <<counts_per_sec, rxcount, rtt_stat, rtts, rx, queue, printed>>
        /\ mq' => mq
    BY <1>4 DEF SetupFails, OpenSockets, Unwind, ShutDown, JoinTx, CancelRx, JoinRx
  <2>2. QED
    BY <1>2, <1>3, <2>1, StatsKept
<1>5. CASE catch_signal
  <2>1. /\ UNCHANGED <<counts_per_sec, rxcount, rtt_stat, rtts, rx, queue, printed>>
        /\ mq' => mq
    BY <1>5 DEF catch_signal, CloseAll
  <2>2. QED
    BY <1>2, <1>3, <2>1, StatsKept
<1>6. CASE OpenMq
  <2>1. /\ UNCHANGED <<counts_per_sec, rxcount, rtt_stat, rtts, rx, queue, printed>>
        /\ rx = "unborn"
    BY <1>6, Places DEF OpenMq, SetupInv, BeforeRx
  <2>2. QED
    BY <1>2, <1>3, <2>1, StatsKept
<1>7. CASE CreateThreads
  <2>1. /\ UNCHANGED <<counts_per_sec, rxcount, rtt_stat, rtts, mq, queue, printed>>
        /\ rx' = rx \/ (rx = "unborn" /\ rx' = "recv")
    BY <1>7, Places DEF CreateThreads, SetupInv, BeforeRx
  <2>2. QED
    BY <1>2, <1>3, <2>1, StatsKept
<1>8. CASE Receive
  <2>1. /\ UNCHANGED <<counts_per_sec, rxcount, rtt_stat, rtts, rx, mq>>
        /\ queue # <<>> /\ queue' = Tail(queue) /\ printed' = printed + 1
    BY <1>8 DEF Receive
  <2>2. Posted' = Posted
    BY <1>0, <2>1 DEF Posted
  <2>3. QED
    BY <1>2, <2>1, <2>2, StatsKept
<1>9. CASE Transmitter \/ EndTx \/ Deliver \/ Lose \/ Arrive \/ Tick
  <2>1. UNCHANGED <<counts_per_sec, rxcount, rtt_stat, rtts, rx, mq, queue, printed>>
    BY <1>9 DEF Transmitter, Period, Stamp, Send, TxClosed, EndTx, CountTx, Deliver, Lose, Arrive, Tick
  <2>2. QED
    BY <1>2, <1>3, <2>1, StatsKept
<1>10. CASE Recv
  <2>1. /\ UNCHANGED <<counts_per_sec, rxcount, rtt_stat, rtts, mq, queue, printed>>
        /\ rx = "recv" /\ rx' = "measure"
    BY <1>1, <1>10 DEF Recv
  <2>2. QED
    BY <1>2, <1>3, <2>1, StatsKept
<1>11. CASE EndRx \/ Echo
  BY <1>2, <1>11 DEF EndRx, Echo
<1>12. CASE Measure
  <2>1. rx # "ended"
    BY <1>12 DEF Measure
  <2>2. QED
    BY <1>1, <1>2, <1>12, <2>1, StatsMeasure
<1>13. CASE CountRx
  <2>1. rx # "ended"
    BY <1>13 DEF CountRx
  <2>2. QED
    BY <1>1, <1>2, <1>13, <2>1, StatsCount
<1>14. CASE Post
  <2>1. rx # "ended"
    BY <1>14 DEF Post
  <2>2. QED
    BY <1>1, <1>2, <1>14, <2>1, StatsPost
<1>15. QED
  BY <1>4, <1>5, <1>6, <1>7, <1>8, <1>9, <1>10, <1>11, <1>12, <1>13, <1>14
     DEF Next, Main, LeaveLoop, ReceiveFails, SendFails, Receiver, RxFails

\* The report about to be posted is the one that is due.
LEMMA PostedIsDue ==
  ASSUME TypeOK, ~ repeater, StatsExact, BatchExact, Post, mq
  PROVE  rtt_stat = ReportOf(rtts, counts_per_sec, Posted + 1)
<1> DEFINE n == (Posted + 1) * counts_per_sec
           R == ReportOf(rtts, counts_per_sec, Posted + 1)
<1>1. /\ rtts \in Seq(Nat) /\ counts_per_sec \in Nat /\ Posted \in Nat /\ Big \in Nat
      /\ rtt_stat \in Stats
  BY BoundAssumption DEF TypeOK, Posted
<1>2. /\ n = Len(rtts) /\ n \in Nat
      /\ rtt_stat.rtt_sum_last = Total(Upto(Posted * counts_per_sec))
  BY <1>1 DEF StatsExact, BatchExact, Post, TypeOK
<1>3. n - counts_per_sec = Posted * counts_per_sec
  BY <1>1
<1>4. ToSet(SubSeq(rtts, 2, n)) = Measured(n)
  <2>1. n <= Len(rtts)
    BY <1>2
  <2> HIDE DEF n
  <2>2. QED
    BY <1>1, <1>2, <2>1, MeasuredSet DEF Measured
<1>5. R = [rtt |-> IF n > 1 THEN rtts[n] ELSE 0, rtt_min |-> Min(Measured(n) \cup {Big}),
           rtt_max |-> Max(Measured(n) \cup {-Big}), rtt_sum |-> Total(Upto(n)),
           rtt_sum_last |-> Total(Upto(Posted * counts_per_sec))]
  BY <1>3, <1>4, Zenon DEF ReportOf, Upto
<1> HIDE DEF n
<1>6. Measured(n) \cup {Big} \subseteq Int /\ Measured(n) \cup {-Big} \subseteq Int
  BY <1>1, <1>2 DEF Measured
<1>7. /\ rtt_stat.rtt_min = Min(Measured(n) \cup {Big})
      /\ rtt_stat.rtt_max = Max(Measured(n) \cup {-Big})
  BY <1>2, <1>6, ExtremeIs DEF StatsExact
<1>8. rtt_stat.rtt = (IF n > 1 THEN rtts[n] ELSE 0) /\ rtt_stat.rtt_sum = Total(Upto(n))
  BY <1>2 DEF StatsExact
<1>9. rtt_stat = [rtt |-> rtt_stat.rtt, rtt_min |-> rtt_stat.rtt_min,
           rtt_max |-> rtt_stat.rtt_max, rtt_sum |-> rtt_stat.rtt_sum,
           rtt_sum_last |-> rtt_stat.rtt_sum_last]
  BY <1>1 DEF Stats
<1>10. QED
  BY <1>2, <1>5, <1>7, <1>8, <1>9, Zenon

LEMMA ReportsStep ==
  ASSUME TypeOK, TimeInv, FlightInv, StatsInv, QueueInv, ReportsExact, Next
  PROVE  (QueueInv /\ ReportsExact)'
<1> USE DEF options, files, mainvars, txvars, rxvars, net
<1> SUFFICES ASSUME ~ repeater'
             PROVE  /\ (Posted * counts_per_sec <= Len(rtts))'
                    /\ \A j \in 1..Len(queue') :
                         queue'[j] = ReportOf(rtts', counts_per_sec', printed' + j)
  BY Zenon DEF QueueInv, ReportsExact, Report, ReportOf
<1>0. /\ queue \in Seq(Stats) /\ printed \in Nat /\ Len(queue) \in Nat /\ rtt_stat \in Stats
      /\ counts_per_sec \in Nat /\ rtts \in Seq(Nat) /\ Len(rtts) \in Nat
  BY BoundAssumption DEF TypeOK
<1>1. ~ repeater /\ Running
  BY OptionsKept DEF options
<1>2. /\ Posted * counts_per_sec <= Len(rtts)
      /\ \A j \in 1..Len(queue) : queue[j] = ReportOf(rtts, counts_per_sec, printed + j)
  BY <1>1, Zenon DEF QueueInv, ReportsExact, Report, ReportOf
<1>3. CASE UNCHANGED <<queue, printed, rtts, counts_per_sec>>
  BY <1>2, <1>3, Zenon DEF Posted
<1>4. CASE Receive
  <2>1. /\ queue # <<>> /\ queue' = Tail(queue) /\ printed' = printed + 1
        /\ UNCHANGED <<rtts, counts_per_sec>>
    BY <1>4 DEF Receive
  <2>2. /\ Posted' = Posted /\ Len(queue') = Len(queue) - 1
        /\ \A j \in 1..Len(queue') : queue'[j] = queue[j + 1]
    BY <1>0, <2>1 DEF Posted
  <2>3. \A j \in 1..Len(queue') : j + 1 \in 1..Len(queue) /\ printed + (j + 1) = printed' + j
    BY <1>0, <2>1, <2>2
  <2>4. \A j \in 1..Len(queue') : queue'[j] = ReportOf(rtts, counts_per_sec, printed' + j)
    BY <1>2, <2>2, <2>3
  <2>5. QED
    BY <1>2, <2>1, <2>2, <2>4
<1>5. CASE Measure
  <2> DEFINE rtt == clock - frame
  <2>1. rtts' = Append(rtts, rtt) /\ UNCHANGED <<queue, printed, counts_per_sec>>
    BY <1>5 DEF Measure
  <2>2. rtt \in Nat
    BY BoundAssumption DEF TypeOK, TimeInv
  <2> HIDE DEF rtt
  <2>3. Len(rtts') = Len(rtts) + 1 /\ Posted' = Posted
    BY <1>0, <2>1, <2>2 DEF Posted
  <2>4. Posted * counts_per_sec \in Nat
    BY <1>0 DEF Posted
  <2>5. ASSUME NEW j \in 1..Len(queue)
        PROVE  ReportOf(rtts', counts_per_sec, printed + j) = ReportOf(rtts, counts_per_sec, printed + j)
    <3>1. printed + j \in Nat /\ printed + j <= Posted /\ Posted \in Nat
      BY <1>0 DEF Posted
    <3>2. (printed + j) * counts_per_sec <= Posted * counts_per_sec
          /\ (printed + j) * counts_per_sec \in Nat
      BY <1>0, <3>1
    <3>3. (printed + j) * counts_per_sec <= Len(rtts)
      BY <1>0, <1>2, <2>4, <3>2
    <3>4. QED
      BY <1>0, <2>1, <2>2, <3>1, <3>3, ReportStays
  <2>6. QED
    BY <1>0, <1>2, <2>1, <2>3, <2>4, <2>5
<1>6. CASE Post
  <2>1. CASE mq
    <3>1. queue' = Append(queue, rtt_stat) /\ UNCHANGED <<rtts, printed, counts_per_sec>>
      BY <1>6, <2>1 DEF Post
    <3>2. /\ Len(queue') = Len(queue) + 1 /\ queue'[Len(queue) + 1] = rtt_stat
          /\ \A j \in 1..Len(queue) : queue'[j] = queue[j]
      BY <1>0, <3>1
    <3>3. StatsExact /\ BatchExact
      BY <1>1, <1>6 DEF StatsInv, Post
    <3>4. rtt_stat = ReportOf(rtts, counts_per_sec, Posted + 1)
      BY <1>1, <1>6, <2>1, <3>3, PostedIsDue
    <3>5. Posted' = Posted + 1 /\ Posted + 1 = printed + (Len(queue) + 1)
      BY <1>0, <3>1, <3>2 DEF Posted
    <3>6. (Posted + 1) * counts_per_sec = Len(rtts)
      BY <1>0, <1>6, <2>1, <3>3 DEF StatsExact, BatchExact, Post, TypeOK
    <3>7. \A j \in 1..Len(queue') : j \in 1..Len(queue) \/ j = Len(queue) + 1
      BY <1>0, <3>2
    <3>8. \A j \in 1..Len(queue') : queue'[j] = ReportOf(rtts, counts_per_sec, printed + j)
      BY <1>2, <3>2, <3>4, <3>5, <3>7
    <3>9. QED
      BY <1>0, <3>1, <3>5, <3>6, <3>8
  <2>2. CASE ~ mq
    BY <1>3, <1>6, <2>2 DEF Post
  <2>3. QED
    BY <2>1, <2>2
<1>7. CASE SetupFails \/ catch_signal \/ Transmitter \/ EndTx \/ Deliver \/ Lose \/ Arrive \/ Tick
  BY <1>3, <1>7 DEF SetupFails, catch_signal, Transmitter, Period, Stamp, Send, TxClosed,
                    EndTx, CountTx, Deliver, Lose, Arrive, Tick
<1>8. CASE Recv \/ EndRx \/ Echo \/ CountRx
  BY <1>3, <1>8 DEF Recv, EndRx, Echo, CountRx
<1>9. CASE (Main /\ ~ Receive) \/ ShutDown
  BY <1>3, <1>9 DEF Main, OpenSockets, OpenMq, CreateThreads, Unwind, LeaveLoop, ShutDown,
                    JoinTx, CancelRx, JoinRx
<1>10. QED
  BY <1>4, <1>5, <1>6, <1>7, <1>8, <1>9 DEF Next, ReceiveFails, SendFails, Receiver, RxFails

(***************************************************************************)
(* The theorems                                                            *)
(***************************************************************************)
LEMMA Invariant == Spec => []IInv
<1>1. Init => IInv
  <2> SUFFICES ASSUME Init PROVE IInv
    OBVIOUS
  <2>1. TimeInv
    BY DEF Init, TimeInv
  <2>2. SetupInv
    BY DEF Init, SetupInv
  <2>3. FlightInv
    BY DEF Init, FlightInv, Busy, sent
  <2>4. QED
    BY <2>1, <2>2, <2>3, TypeInit, StatsInit DEF IInv
<1>2. IInv /\ [Next]_vars => IInv'
  <2> SUFFICES ASSUME IInv, [Next]_vars PROVE IInv'
    OBVIOUS
  <2>1. TypeOK' /\ TimeInv' /\ SetupInv'
    BY TypeStep, TimeStep, SetupStep DEF IInv
  <2>2. CASE Next
    BY <2>1, <2>2, FlightStep, StatsStep, ReportsStep DEF IInv
  <2>3. CASE UNCHANGED vars
    <3> USE <2>3 DEF vars, options, files, mainvars, txvars, rxvars, net, IInv
    <3>1. FlightInv'
      BY DEF FlightInv, Running, Busy, sent
    <3>2. StatsInv'
      BY Zenon DEF StatsInv, Running, StatsExact, BatchExact, Measured, Upto, Posted
    <3>3. QueueInv' /\ ReportsExact'
      BY Zenon DEF QueueInv, Posted, ReportsExact, Report
    <3>4. QED
      BY <2>1, <3>1, <3>2, <3>3
  <2>4. QED
    BY <2>2, <2>3
<1>3. QED
  BY <1>1, <1>2, PTL DEF Spec

\* The state keeps its types, for every bound on the frames, the time and the queue:
\* a round trip is never negative, and the queue never holds more than MaxMsg.
THEOREM CanRttTypeCorrect == Spec => []TypeOK
<1>1. IInv => TypeOK
  BY DEF IInv
<1>2. QED
  BY <1>1, Invariant, PTL

\* Wherever the setup fails, and even if a signal came before, main has closed what
\* it had opened and left no thread behind when it returns.
THEOREM FailureLeavesNothing == Spec => []FailureUndoesAll
<1>1. IInv => FailureUndoesAll
  BY DEF IInv, SetupInv, FailureUndoesAll, BeforeTx
<1>2. QED
  BY <1>1, Invariant, PTL

\* For every length of a report and of the queue, and every loss of frames, the
\* reports main has not yet printed are, in order, those that are due, with the last
\* round trip, the extremes and the sums of the frames they are about.
THEOREM ReportsAreExact == Spec => []ReportsExact
<1>1. IInv => ReportsExact
  BY DEF IInv
<1>2. QED
  BY <1>1, Invariant, PTL

\* The program implements the round trip, for every set of other programs on the bus and
\* whatever frames of theirs pass the filter: a frame goes out only when at least as many
\* were received as went out before it, and each received is one that went out or strayed in.
THEOREM FramesOneAtATime == Spec => OneAtATime
<1> USE DEF vars, options, files, mainvars, txvars, rxvars, net
<1>1. Init => Trip!Init
  BY DEF Init, Trip!Init, sent, received
<1>2. IInv /\ [Next]_vars => [Trip!Next]_<<sent, received, strays>>
  <2> SUFFICES ASSUME IInv, [Next]_vars PROVE [Trip!Next]_<<sent, received, strays>>
    OBVIOUS
  <2>0. txcount \in Nat /\ rxcount \in Nat /\ Len(bus) \in Nat /\ Len(rxqueue) \in Nat
        /\ strays \in Nat /\ repeater \in BOOLEAN
    BY DEF IInv, TypeOK
  <2>1. CASE UNCHANGED <<repeater, tx, txcount, rxcount, strays>>
    BY <2>1 DEF sent, received
  <2>2. CASE Arrive
    <3>1. strays' = strays \/ strays' = strays + 1
      BY <2>2 DEF Arrive
    <3>2. UNCHANGED <<sent, received>>
      BY <2>2 DEF Arrive, sent, received
    <3>3. QED
      BY <3>1, <3>2 DEF Trip!Next, Trip!Stray
  <2>3. ASSUME Next, repeater, ~ Arrive PROVE UNCHANGED <<sent, received, strays>>
    <3>1. UNCHANGED repeater
      BY <2>3, OptionsKept
    <3>2. UNCHANGED <<sent, received>>
      BY <2>3, <3>1 DEF sent, received
    <3>3. QED
      BY <2>3, <3>2, StraysArrive
  <2>4. ASSUME ~ repeater, CreateThreads PROVE UNCHANGED <<sent, received, strays>>
    BY <2>4, Places DEF CreateThreads, sent, received, IInv, SetupInv, BeforeTx
  <2>5. ASSUME ~ repeater, Period \/ Stamp \/ EndTx PROVE UNCHANGED <<sent, received, strays>>
    BY <2>5 DEF Period, Stamp, EndTx, sent, received
  <2>6. ASSUME ~ repeater, Send PROVE Trip!Leave
    <3>1. sent <= rxcount
      BY <2>6 DEF Send, IInv, FlightInv
    <3>2. QED
      BY <2>0, <2>6, <3>1 DEF Send, sent, received, Trip!Leave
  <2>7. ASSUME ~ repeater, CountTx PROVE UNCHANGED <<sent, received, strays>>
    BY <2>0, <2>7 DEF CountTx, sent, received
  <2>8. ASSUME ~ repeater, Echo PROVE FALSE
    BY <2>8 DEF Echo, IInv, FlightInv
  <2>9. ASSUME ~ repeater, Running, CountRx PROVE Trip!Return
    <3>1. rxcount < sent + strays
      <4>1. rxcount + Len(bus) + Len(rxqueue) + 1 <= sent + strays
        BY <2>9 DEF CountRx, IInv, FlightInv, Busy
      <4>2. sent \in Nat
        BY <2>0 DEF sent
      <4>3. QED
        BY <2>0, <4>1, <4>2
    <3>2. UNCHANGED <<repeater, tx, txcount, strays>> /\ rxcount' = rxcount + 1
      BY <2>9 DEF CountRx
    <3>3. QED
      BY <2>9, <3>1, <3>2 DEF sent, received, Trip!Return
  <2>10. CASE SetupFails \/ catch_signal \/ (Main /\ ~ CreateThreads) \/ ShutDown
    BY <2>1, <2>10 DEF SetupFails, catch_signal, CloseAll, Main, OpenSockets, OpenMq, Unwind,
                       Receive, LeaveLoop, ShutDown, JoinTx, CancelRx, JoinRx
  <2>11. CASE Recv \/ EndRx \/ Measure \/ Post \/ Deliver \/ Lose \/ Tick
    BY <2>1, <2>11 DEF Recv, EndRx, Measure, Post, Deliver, Lose, Tick
  <2>12. CASE UNCHANGED vars
    BY <2>1, <2>12
  <2>13. QED
    BY <2>0, <2>2, <2>3, <2>4, <2>5, <2>6, <2>7, <2>8, <2>9, <2>10, <2>11, <2>12
       DEF Next, Main, ReceiveFails, Transmitter, TxClosed, SendFails, Receiver, RxFails,
           Trip!Next
<1>3. QED
  BY <1>1, <1>2, Invariant, PTL DEF Spec, OneAtATime, Trip!Spec

\* Tests whose identifiers the ten bits of the filter tell apart do not disturb each other:
\* no frame is counted that was not sent.
THEOREM ConcurrentTestsKeptApart ==
  ASSUME \A id \in Others : ~ Accepts(id)
  PROVE  Spec => []OwnFramesOnly
<1> USE DEF vars, options, files, mainvars, txvars, rxvars, net
<1>1. Init => strays = 0
  BY DEF Init
<1>2. strays = 0 /\ [Next]_vars => (strays = 0)'
  <2>1. Arrive => UNCHANGED strays
    BY DEF Arrive, Accepts
  <2>2. QED
    BY <2>1, StraysArrive
<1>3. IInv /\ strays = 0 => OwnFramesOnly
  <2> SUFFICES ASSUME IInv, strays = 0 PROVE received <= sent
    BY DEF OwnFramesOnly
  <2>1. txcount \in Nat /\ rxcount \in Nat
    BY DEF IInv, TypeOK
  <2>2. sent \in Nat
    BY <2>1 DEF sent
  <2>3. ~ repeater => rxcount <= sent
    BY <2>1, <2>2 DEF IInv, FlightInv
  <2>4. QED
    BY <2>2, <2>3 DEF received, sent
<1>4. QED
  BY <1>1, <1>2, <1>3, Invariant, PTL DEF Spec
=============================================================================
