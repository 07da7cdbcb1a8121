------------------------------- MODULE CanRtt -------------------------------
(***************************************************************************)
(* The round-trip-time test over CAN (examples/posix/cobalt/can-rtt.c).    *)
(* The transmitter sends a frame with the time in it, the receiver gets it *)
(* back - from a second interface or a remote repeater - measures, counts  *)
(* and, once per CountsPerSec frames, queues its statistics for main.  As  *)
(* a repeater the program sends back what it receives.                     *)
(*                                                                         *)
(* The bus may lose a frame, and carries frames of other programs, of      *)
(* which the receiver's filter looks at ten bits of the identifier.  The   *)
(* period only paces the transmitter, so it may wake up at any time.  The  *)
(* kernel delivers signals to main.  Closing a socket ends the calls on    *)
(* it, as the messages of the two threads say; any other call on a socket  *)
(* may fail too.                                                           *)
(***************************************************************************)
EXTENDS Integers, SequencesExt, FiniteSetsExt

CONSTANTS
  can_id,        \* --id
  Others,        \* the identifiers of other programs on the bus
  CountsPerSec,  \* the values of counts_per_sec, 0 if the cycle exceeds 1 s
  MaxMsg,        \* mq_maxmsg
  Big,           \* the initial rtt_min, more than any round trip
  MaxFrames,     \* bound: frames the program sends or, as a repeater, receives
  MaxStrays,     \* bound: frames of others that pass the filter
  MaxTime        \* bound: the clock

MaskSize == 1024  \* can_mask is MaskSize - 1

ASSUME IdAssumption     == can_id \in Nat /\ Others \subseteq Nat
\* "Concurrent tests can be carried out by starting the program with different
\* message identifiers."
ASSUME OthersAssumption == can_id \notin Others
ASSUME SizeAssumption   == CountsPerSec \subseteq Nat /\ MaxMsg \in Nat \ {0}
ASSUME BoundAssumption  ==
  MaxFrames \in Nat /\ MaxStrays \in Nat /\ MaxTime \in Nat /\ Big \in Nat /\ Big > MaxTime

VARIABLES
  repeater, counts_per_sec,
  main, caught,          \* main's place; where main was when a signal came
  rxsock, txsock, mq,    \* FALSE until open, and again when closed
  tx, rx, cancelled,     \* the threads' places; main has cancelled the receiver
  txcount, rxcount,
  stamp,                 \* the time in the transmitter's frame
  frame,                 \* the receiver's frame
  rtt_stat,
  queue, printed,        \* the messages in mq, and how many main has printed
  bus, rxqueue,          \* frames on their way, and in the receive buffer
  clock,
  rtts,                  \* history: every round trip, the first included
  strays                 \* history: how many frames of others passed the filter

options == <<repeater, counts_per_sec>>
files   == <<rxsock, txsock, mq>>
mainvars == <<main, caught, printed, cancelled>>
txvars  == <<tx, txcount, stamp>>
rxvars  == <<rx, rxcount, frame, rtt_stat, rtts>>
net     == <<bus, rxqueue, strays>>
vars    == <<options, files, mainvars, txvars, rxvars, queue, net, clock>>
------------------------------------------------------------------------------
Init ==
  /\ repeater \in BOOLEAN /\ counts_per_sec \in CountsPerSec
  /\ main = "open_rx" /\ caught = "none" /\ cancelled = FALSE
  /\ rxsock = FALSE /\ txsock = FALSE /\ mq = FALSE
  /\ tx = "unborn" /\ rx = "unborn"
  /\ txcount = 0 /\ rxcount = 0 /\ stamp = 0 /\ frame = 0
  /\ rtt_stat = [rtt |-> 0, rtt_min |-> Big, rtt_max |-> -Big,
                 rtt_sum |-> 0, rtt_sum_last |-> 0]
  /\ queue = <<>> /\ printed = 0 /\ bus = <<>> /\ rxqueue = <<>>
  /\ clock = 0 /\ rtts = <<>> /\ strays = 0

\* A division by zero or a thread that never was ends the process.
Running == main \notin {"crashed", "failed", "done"}

(***************************************************************************)
(* main: setting up                                                        *)
(***************************************************************************)
\* Each step of the setup may fail, and then undoes those before it.
OnFailureSkips ==                                                 \* a mutant
  [open_rx |-> "failed", config_rx |-> "failure1", open_tx |-> "failure1",
   config_tx |-> "failure2", open_mq |-> "failure2", create_rx |-> "failure3",
   create_tx |-> "failure3"]
OnFailure ==
  [open_rx |-> "failed", config_rx |-> "failure1", open_tx |-> "failure1",
   config_tx |-> "failure2", open_mq |-> "failure2", create_rx |-> "failure3",
   create_tx |-> "failure4"]

SetupFails ==
  /\ main \in DOMAIN OnFailure
  /\ main' = OnFailure[main]
  /\ UNCHANGED <<options, files, caught, printed, cancelled, txvars, rxvars, queue, net, clock>>

\* With one interface for both, the receiver's socket sends too.
OpenSockets ==
  /\ \/ main = "open_rx" /\ main' = "config_rx" /\ rxsock' = TRUE /\ UNCHANGED txsock
     \/ main = "config_rx" /\ main' = "open_tx" /\ UNCHANGED <<rxsock, txsock>>
     \/ main = "open_tx" /\ main' = "config_tx" /\ txsock' = TRUE /\ UNCHANGED rxsock
     \/ main = "open_tx" /\ main' = "open_mq" /\ txsock' = TRUE /\ UNCHANGED rxsock
     \/ main = "config_tx" /\ main' = "open_mq" /\ UNCHANGED <<rxsock, txsock>>
  /\ UNCHANGED <<options, mq, caught, printed, cancelled, txvars, rxvars, queue, net, clock>>

OpenMq ==
  /\ main = "open_mq" /\ main' = "create_rx"
  /\ mq' = TRUE
  /\ UNCHANGED <<options, rxsock, txsock, caught, printed, cancelled, txvars, rxvars,
                 queue, net, clock>>

CreateThreads ==
  /\ \/ /\ main = "create_rx" /\ main' = IF repeater THEN "receive" ELSE "create_tx"
        /\ rx' = "recv"
        /\ UNCHANGED tx
     \/ /\ main = "create_tx" /\ main' = "receive"
        /\ tx' = "sleep"
        /\ UNCHANGED rx
  /\ UNCHANGED <<options, files, caught, printed, cancelled, txcount, stamp,
                 rxcount, frame, rtt_stat, rtts, queue, net, clock>>

\* failure4 to failure1.
Unwind ==
  /\ \/ /\ main = "failure4" /\ (cancelled => rx = "ended")
        /\ main' = IF cancelled THEN "failure3" ELSE main
        /\ cancelled' = TRUE
        /\ UNCHANGED files
     \/ /\ main = "failure3" /\ main' = "failure2"
        /\ mq' = FALSE
        /\ UNCHANGED <<rxsock, txsock, cancelled>>
     \/ /\ main = "failure2" /\ main' = "failure1"
        /\ txsock' = FALSE
        /\ UNCHANGED <<rxsock, mq, cancelled>>
     \/ /\ main = "failure1" /\ main' = "failed"
        /\ rxsock' = FALSE
        /\ UNCHANGED <<txsock, mq, cancelled>>
  /\ UNCHANGED <<options, caught, printed, txvars, rxvars, queue, net, clock>>

(***************************************************************************)
(* main: printing, and the end                                             *)
(***************************************************************************)
Receive ==
  /\ main = "receive" /\ mq /\ queue # <<>>
  /\ queue' = Tail(queue)
  /\ printed' = printed + 1
  /\ UNCHANGED <<options, files, main, caught, cancelled, txvars, rxvars, net, clock>>

\* Out of the loop, and close the sockets: the signal has closed the queue...
ShutDown ==
  /\ main = "receive" /\ main' = "join_tx"
  /\ rxsock' = FALSE /\ txsock' = FALSE
  /\ UNCHANGED <<options, mq, caught, printed, cancelled, txvars, rxvars, queue, net, clock>>

LeaveLoop == ~ mq /\ ShutDown

\* ...or mq_receive has failed for another reason.
ReceiveFails == mq /\ ShutDown

\* A repeater has no transmitter, so txthread is 0, which pthread_join may
\* refuse or follow.
JoinTx ==
  /\ main = "join_tx"
  /\ IF repeater THEN main' \in {"cancel_rx", "crashed"}
                 ELSE tx = "ended" /\ main' = "cancel_rx"
  /\ UNCHANGED <<options, files, caught, printed, cancelled, txvars, rxvars, queue, net, clock>>

CancelRx ==
  /\ main = "cancel_rx" /\ main' = "join_rx"
  /\ cancelled' = TRUE
  /\ UNCHANGED <<options, files, caught, printed, txvars, rxvars, queue, net, clock>>

JoinRx ==
  /\ main = "join_rx" /\ rx = "ended"
  /\ main' = "done"
  /\ UNCHANGED <<options, files, caught, printed, cancelled, txvars, rxvars, queue, net, clock>>

Main ==
  \/ OpenSockets \/ OpenMq \/ CreateThreads \/ Unwind
  \/ Receive \/ LeaveLoop \/ JoinTx \/ CancelRx \/ JoinRx

CloseSockets == rxsock' = FALSE /\ txsock' = FALSE /\ UNCHANGED mq  \* a mutant
CloseAll     == rxsock' = FALSE /\ txsock' = FALSE /\ mq' = FALSE

\* SIGTERM, SIGINT or SIGHUP, whose handler is there once both sockets are
\* bound, until main returns or undoes the setup, which closes the same.  A second
\* one finds everything closed.
Catches == {"open_mq", "create_rx", "create_tx", "receive", "join_tx", "cancel_rx", "join_rx"}

catch_signal ==
  /\ main \in Catches /\ caught = "none"
  /\ caught' = main
  /\ CloseAll
  /\ UNCHANGED <<options, main, printed, cancelled, txvars, rxvars, queue, net, clock>>

(***************************************************************************)
(* transmitter                                                             *)
(***************************************************************************)
NeverWaits == TRUE                                                \* a mutant
AllBack == rxcount = txcount

\* A period at whose end frames are missing is left out (and counted, which only the
\* output shows).
Period ==
  /\ tx = "sleep" /\ AllBack
  /\ tx' = "stamp"
  /\ UNCHANGED <<options, files, mainvars, txcount, stamp, rxvars, queue, net, clock>>

Stamp ==
  /\ tx = "stamp" /\ tx' = "send"
  /\ stamp' = clock
  /\ UNCHANGED <<options, files, mainvars, txcount, rxvars, queue, net, clock>>

Send ==
  /\ tx = "send" /\ txsock /\ txcount < MaxFrames
  /\ bus' = Append(bus, stamp)
  /\ tx' = "count"
  /\ UNCHANGED <<options, files, mainvars, txcount, stamp, rxvars, queue,
                 rxqueue, strays, clock>>

EndTx ==
  /\ tx = "send" /\ tx' = "ended"
  /\ UNCHANGED <<options, files, mainvars, txcount, stamp, rxvars, queue, net, clock>>

\* A closed socket ends the transmitter, and so does any other error.
TxClosed  == ~ txsock /\ EndTx
SendFails == txsock /\ EndTx

CountTx ==
  /\ tx = "count" /\ tx' = "sleep"
  /\ txcount' = txcount + 1
  /\ UNCHANGED <<options, files, mainvars, stamp, rxvars, queue, net, clock>>

Transmitter == Period \/ Stamp \/ Send \/ TxClosed \/ CountTx

(***************************************************************************)
(* receiver                                                                *)
(***************************************************************************)
Recv ==
  /\ rx = "recv" /\ rxsock /\ rxqueue # <<>>
  /\ frame' = Head(rxqueue) /\ rxqueue' = Tail(rxqueue)
  /\ rx' = IF repeater THEN "echo" ELSE "measure"
  /\ UNCHANGED <<options, files, mainvars, txvars, rxcount, rtt_stat, rtts, queue,
                 bus, strays, clock>>

\* A closed socket ends the receiver, and so does main where it blocks...
RxClosed ==
  \/ rx = "recv" /\ ~ rxsock
  \/ rx = "echo" /\ ~ txsock
  \/ rx \in {"recv", "post"} /\ cancelled

\* ...or an error of recv or send.
EndRx ==
  /\ rx' = "ended"
  /\ UNCHANGED <<options, files, mainvars, txvars, rxcount, frame, rtt_stat, rtts, queue,
                 net, clock>>

\* What a repeater sends is on its way to somebody else.
Echo ==
  /\ rx = "echo" /\ txsock
  /\ txcount' = txcount + 1
  /\ rx' = "count"
  /\ UNCHANGED <<options, files, mainvars, tx, stamp, rxcount, frame, rtt_stat,
                 rtts, queue, net, clock>>

\* The first round trip is not in the statistics.
Measure ==
  /\ rx = "measure" /\ rx' = "count"
  /\ LET rtt == clock - frame
     IN /\ rtts' = Append(rtts, rtt)
        /\ rtt_stat' =
             IF rxcount = 0 THEN rtt_stat
             ELSE [rtt_stat EXCEPT !.rtt = rtt, !.rtt_sum = @ + rtt,
                                   !.rtt_min = Min({@, rtt}), !.rtt_max = Max({@, rtt})]
  /\ UNCHANGED <<options, files, mainvars, txvars, rxcount, frame, queue, net, clock>>

\* With a cycle of more than a second the remainder is by zero.
CountRx ==
  /\ rx = "count"
  /\ rxcount' = rxcount + 1
  /\ IF counts_per_sec = 0 THEN main' = "crashed" /\ UNCHANGED rx
     ELSE /\ rx' = IF rxcount' % counts_per_sec = 0 THEN "post" ELSE "recv"
          /\ UNCHANGED main
  /\ UNCHANGED <<options, files, caught, printed, cancelled, txvars, frame, rtt_stat, rtts,
                 queue, net, clock>>

SumOfAllKept(s) == s                                              \* a mutant
BatchStarts(s) == [s EXCEPT !.rtt_sum_last = s.rtt_sum]

HasRoom        == Len(queue) < MaxMsg

\* mq_send waits while the queue is full and fails if it is closed.
Post ==
  /\ rx = "post" /\ (mq => HasRoom)
  /\ queue' = IF mq THEN Append(queue, rtt_stat) ELSE queue
  /\ rtt_stat' = BatchStarts(rtt_stat)
  /\ rx' = "recv"
  /\ UNCHANGED <<options, files, mainvars, txvars, rxcount, frame, rtts, net, clock>>

RxFails == rx \in {"recv", "echo"} /\ ~ RxClosed /\ EndRx

Receiver == Recv \/ (RxClosed /\ EndRx) \/ Echo \/ Measure \/ CountRx \/ Post

(***************************************************************************)
(* The bus and the clock                                                   *)
(***************************************************************************)
Accepts(id) == id % MaskSize = can_id % MaskSize

Deliver ==
  /\ bus # <<>>
  /\ bus' = Tail(bus)
  /\ rxqueue' = Append(rxqueue, Head(bus))
  /\ UNCHANGED <<options, files, mainvars, txvars, rxvars, queue, strays, clock>>

Lose ==
  /\ bus # <<>>
  /\ bus' = Tail(bus)
  /\ UNCHANGED <<options, files, mainvars, txvars, rxvars, queue, rxqueue, strays, clock>>

\* A frame to be repeated, or one of another program, that was sent some time ago.
Arrive ==
  /\ rxsock /\ rxcount + Len(rxqueue) < MaxFrames
  /\ \E id \in Others \cup (IF repeater THEN {can_id} ELSE {}), t \in 0..clock :
       /\ Accepts(id)
       /\ rxqueue' = Append(rxqueue, t)
       /\ id \in Others => strays < MaxStrays
       /\ strays' = IF id \in Others THEN strays + 1 ELSE strays
  /\ UNCHANGED <<options, files, mainvars, txvars, rxvars, queue, bus, clock>>

Tick ==
  /\ clock < MaxTime
  /\ clock' = clock + 1
  /\ UNCHANGED <<options, files, mainvars, txvars, rxvars, queue, net>>

Next ==
  /\ Running
  /\ \/ Main \/ SetupFails \/ ReceiveFails \/ catch_signal
     \/ Transmitter \/ SendFails \/ Receiver \/ RxFails
     \/ Deliver \/ Lose \/ Arrive \/ Tick

\* The threads are scheduled when they can run; nothing is assumed of the bus, and
\* nothing has to fail.
Spec ==
  /\ Init /\ [][Next]_vars
  /\ WF_vars(Running /\ Main) /\ WF_vars(Running /\ Transmitter)
  /\ WF_vars(Running /\ Receiver)
------------------------------------------------------------------------------
Stats == [rtt: 0..MaxTime, rtt_min: 0..MaxTime \cup {Big}, rtt_max: 0..MaxTime \cup {-Big},
          rtt_sum: Nat, rtt_sum_last: Nat]

TypeOK ==
  /\ repeater \in BOOLEAN /\ counts_per_sec \in Nat
  /\ main \in DOMAIN OnFailure \cup {"failure4", "failure3", "failure2", "failure1", "failed",
       "receive", "join_tx", "cancel_rx", "join_rx", "done", "crashed"}
  /\ caught \in Catches \cup {"none"}
  /\ rxsock \in BOOLEAN /\ txsock \in BOOLEAN /\ mq \in BOOLEAN /\ cancelled \in BOOLEAN
  /\ tx \in {"unborn", "sleep", "stamp", "send", "count", "ended"}
  /\ rx \in {"unborn", "recv", "echo", "measure", "count", "post", "ended"}
  /\ txcount \in Nat /\ rxcount \in Nat
  /\ stamp \in 0..MaxTime /\ frame \in 0..MaxTime /\ clock \in 0..MaxTime
  /\ rtt_stat \in Stats /\ printed \in Nat
  /\ queue \in Seq(Stats) /\ Len(queue) <= MaxMsg
  /\ bus \in Seq(0..MaxTime) /\ rxqueue \in Seq(0..MaxTime) /\ rtts \in Seq(0..MaxTime)
  /\ strays \in Nat

\* The k-th report is about the frames since the one before it (the average main
\* prints is the difference of the sums) and all but the first frame (the extremes).
\* However far main is behind, it prints the reports in order and leaves none out.
Total(s) ==
  LET sum[n \in 0..Len(s)] == IF n = 0 THEN 0 ELSE sum[n - 1] + s[n]
  IN sum[Len(s)]
Report(k) ==
  LET n == k * counts_per_sec
      measured == SubSeq(rtts, 2, n)
  IN [rtt |-> IF n > 1 THEN rtts[n] ELSE 0,
      rtt_min |-> Min(ToSet(measured) \cup {Big}), rtt_max |-> Max(ToSet(measured) \cup {-Big}),
      rtt_sum |-> Total(measured),
      rtt_sum_last |-> Total(SubSeq(rtts, 2, n - counts_per_sec))]
ReportsExact == ~ repeater => \A j \in 1..Len(queue) : queue[j] = Report(printed + j)

\* The next frame leaves only when no fewer have been counted than were sent, and no more
\* are counted than were sent and frames of other programs passed the filter, however the
\* two threads are scheduled.  So until the first of these, each round trip measured is
\* that of the frame sent last.
sent     == IF repeater THEN 0 ELSE txcount + (IF tx = "count" THEN 1 ELSE 0)
received == IF repeater THEN 0 ELSE rxcount
Trip == INSTANCE RoundTrip
OneAtATime == Trip!Spec

\* "We only want to receive our own messages": no frame is counted that was not sent.
OwnFramesOnly == received <= sent

\* When main returns because the setup failed, nothing is left open and no thread runs.
FailureUndoesAll ==
  main = "failed" => ~ rxsock /\ ~ txsock /\ ~ mq /\ rx \in {"unborn", "ended"} /\ tx = "unborn"

\* Once its frame is lost, or that of another program counted, the transmitter
\* sends no more, and never sees that the socket is closed.
Stuck == tx = "sleep" /\ rx = "ended" /\ rxcount # txcount

\* A signal that finds the queue open ends the program, at whatever step the threads
\* are, unless a frame is missing or one too many.
SignalEndsRun ==
  caught \in Catches \ {"open_mq"} ~> ~ Running \/ Stuck
==============================================================================
