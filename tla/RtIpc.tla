------------------------------- MODULE RtIpc --------------------------------
(***************************************************************************)
(* The seven demonstrations of the RTIPC protocols in                      *)
(* examples/posix/cobalt: threads that bind, label, look up and connect    *)
(* sockets, send numbered messages and receive or relay them, and a main   *)
(* that cancels and joins them at a signal.                                *)
(*                                                                         *)
(* Each program is the calls its threads make, in their order: first setup *)
(* once, then loop for ever.  The protocols are outside the repository and *)
(* do what the programs and their comments expect of them:                 *)
(*   xddp  a bound socket is the end of a pipe whose other end a regular   *)
(*         thread opens as a file; what is sent is a message, or, with     *)
(*         MSG_MORE, gathered into one until it is read;                   *)
(*   iddp  messages between two sockets;                                   *)
(*   bufp  bytes between two sockets, read in pieces of any length.        *)
(* A label is registered by a bind that comes after it.                    *)
(*                                                                         *)
(* The bytes are numbered in the order they are sent, MsgLen to a message. *)
(***************************************************************************)
EXTENDS Integers, SequencesExt

CONSTANTS
  MsgLen,    \* strlen() of each message
  Room,      \* the messages or pieces an endpoint holds before a sender waits
  Messages   \* bound: messages sent

ASSUME SizeAssumption == MsgLen \in Nat \ {0} /\ Room \in Nat \ {0} /\ Messages \in Nat

VARIABLES
  demo,                \* the program
  main, k,             \* what main does, with its k-th thread
  at,                  \* the calls each thread has still to make in this turn
  born, gone,          \* threads created, and ended
  cancelled,
  labelled, registry,  \* sockets with a label; the one it is registered for
  bound, peer,         \* sockets bound; where each one is connected to
  net,                 \* what waits to be received by each thread
  sent,                \* how many bytes were sent
  held,                \* buf of the regular thread, from read() to write()
  got,                 \* what the thread at the other end received, in pieces
  ended                \* how the process ended: a call was refused because the
                       \* other side was not ready, a call failed, or main is done

mainv   == <<main, k, cancelled, born>>
threads == <<at, gone>>
sockets == <<labelled, registry, bound, peer>>
data    == <<net, sent, held, got>>
ipcvars == <<demo, mainv, threads, sockets, data, ended>>
------------------------------------------------------------------------------
(***************************************************************************)
(* The programs.  order is the order in which main creates, cancels and    *)
(* joins the threads.                                                      *)
(***************************************************************************)
XddpLabel ==
  [order |-> <<"rt1", "rt2", "nrt">>,
   setup |-> [rt1 |-> <<"label", "bind">>, rt2 |-> <<"rcvtimeo", "label", "lookup">>,
              nrt |-> <<"open">>],
   loop  |-> [rt1 |-> <<"recv">>, rt2 |-> <<"send">>, nrt |-> <<"read", "write">>]]

EchoForgets ==                                                    \* a mutant
  [order |-> <<"rt", "nrt">>,
   setup |-> [rt |-> <<"bind">>, nrt |-> <<"open">>],
   loop  |-> [rt |-> <<"send", "recv">>, nrt |-> <<"read">>]]
XddpEcho ==
  [order |-> <<"rt", "nrt">>,
   setup |-> [rt |-> <<"bind">>, nrt |-> <<"open">>],
   loop  |-> [rt |-> <<"send", "recv">>, nrt |-> <<"read", "write">>]]

XddpStream ==
  [order |-> <<"rt", "nrt">>,
   setup |-> [rt |-> <<"bind">>, nrt |-> <<"open">>],
   loop  |-> [rt |-> <<"scatter", "recv">>, nrt |-> <<"read", "write">>]]

LabelThenBind ==                                                  \* a mutant
  [order |-> <<"server", "client">>,
   setup |-> [server |-> <<"label", "bind">>, client |-> <<"label", "bind", "lookup">>],
   loop  |-> [server |-> <<"recv">>, client |-> <<"send">>]]
IddpLabel ==
  [order |-> <<"server", "client">>,
   setup |-> [server |-> <<"label", "bind">>, client |-> <<"bind", "label", "lookup">>],
   loop  |-> [server |-> <<"recv">>, client |-> <<"send">>]]

IddpSendrecv ==
  [order |-> <<"server", "client">>,
   setup |-> [server |-> <<"bind">>, client |-> <<"bind">>],
   loop  |-> [server |-> <<"recv">>, client |-> <<"sendto">>]]

LookupThenLabel ==                                                \* a mutant
  [order |-> <<"server", "client">>,
   setup |-> [server |-> <<"label", "bind">>, client |-> <<"lookup", "label">>],
   loop  |-> [server |-> <<"recv">>, client |-> <<"send">>]]
BufpLabel ==
  [order |-> <<"server", "client">>,
   setup |-> [server |-> <<"label", "bind">>, client |-> <<"label", "lookup">>],
   loop  |-> [server |-> <<"recv">>, client |-> <<"send">>]]

BufpReadwrite ==
  [order |-> <<"server", "client">>,
   setup |-> [server |-> <<"bind">>, client |-> <<"connect">>],
   loop  |-> [server |-> <<"recv">>, client |-> <<"send">>]]

Program ==
  [xddp_label |-> XddpLabel, xddp_echo |-> XddpEcho, xddp_stream |-> XddpStream,
   iddp_label |-> IddpLabel, iddp_sendrecv |-> IddpSendrecv,
   bufp_label |-> BufpLabel, bufp_readwrite |-> BufpReadwrite]

Demos   == DOMAIN Program
Order   == Program[demo].order
IpcThreads == ToSet(Order)

Xddp  == demo \in {"xddp_label", "xddp_echo", "xddp_stream"}
Bytes == demo \in {"bufp_label", "bufp_readwrite"}
------------------------------------------------------------------------------
IpcInit ==
  /\ demo \in Demos
  /\ main = "create" /\ k = 1 /\ born = {} /\ gone = {} /\ cancelled = {}
  /\ at = [t \in IpcThreads |-> Program[demo].setup[t] \o Program[demo].loop[t]]
  /\ labelled = {} /\ registry = "none" /\ bound = {} /\ peer = [t \in IpcThreads |-> "none"]
  /\ net = [t \in IpcThreads |-> <<>>] /\ sent = 0 /\ held = <<>> /\ got = <<>>
  /\ ended = "no"

(***************************************************************************)
(* main                                                                    *)
(***************************************************************************)
Following == [create |-> "sigwait", cancel |-> "join", join |-> "exit"]

AllButLast(phase) == IF phase = "cancel" THEN Len(Order) - 1 ELSE Len(Order)  \* a mutant
AllOf(phase)      == Len(Order)

\* On to the next thread, or to what main does next.
NextThread ==
  IF k < AllOf(main) THEN k' = k + 1 /\ UNCHANGED main
                     ELSE k' = 1 /\ main' = Following[main]

Create ==
  /\ main = "create" /\ NextThread
  /\ born' = born \cup {Order[k]}
  /\ UNCHANGED <<demo, cancelled, threads, sockets, data, ended>>

\* SIGINT, SIGTERM and SIGHUP are blocked in every thread until main waits for them.
Sigwait ==
  /\ main = "sigwait" /\ main' = "cancel"
  /\ UNCHANGED <<demo, k, born, cancelled, threads, sockets, data, ended>>

Cancel ==
  /\ main = "cancel" /\ NextThread
  /\ cancelled' = cancelled \cup {Order[k]}
  /\ UNCHANGED <<demo, born, threads, sockets, data, ended>>

JoinThread ==
  /\ main = "join" /\ Order[k] \in gone /\ NextThread
  /\ UNCHANGED <<demo, born, cancelled, threads, sockets, data, ended>>

Return ==
  /\ main = "exit" /\ ended' = "done"
  /\ UNCHANGED <<demo, mainv, threads, sockets, data>>

MainStep == Create \/ Cancel \/ JoinThread \/ Return

(***************************************************************************)
(* The threads                                                             *)
(***************************************************************************)
\* Thread t is about to make call c.
Calls(t, c) == t \in born \ gone /\ Head(at[t]) = c

\* It goes on to its next call, after the last one to the first of its loop.
GoesOn(t) ==
  at' = [at EXCEPT ![t] = IF Tail(@) = <<>> THEN Program[demo].loop[t] ELSE Tail(@)]

\* fail(), in any thread, ends the process.
Fail(why) == ended' = why /\ UNCHANGED <<at, sockets, data>>

\* Cancelled, a thread ends in its next call.
End(t) ==
  /\ t \in (cancelled \cap born) \ gone
  /\ gone' = gone \cup {t}
  /\ UNCHANGED <<demo, mainv, at, sockets, data, ended>>

\* A pool or a timeout is set: a call that only may fail.
SetTimeout(t) ==
  /\ Calls(t, "rcvtimeo") /\ GoesOn(t)
  /\ UNCHANGED <<sockets, data, ended>>

SetLabel(t) ==
  /\ Calls(t, "label") /\ GoesOn(t)
  /\ labelled' = labelled \cup {t}
  /\ UNCHANGED <<registry, bound, peer, data, ended>>

Bind(t) ==
  /\ Calls(t, "bind")
  /\ \/ /\ t \in labelled => registry = "none"
        /\ bound' = bound \cup {t}
        /\ registry' = IF t \in labelled THEN t ELSE registry
        /\ GoesOn(t)
        /\ UNCHANGED <<labelled, peer, data, ended>>
     \/ /\ t \in labelled /\ registry # "none"
        /\ Fail("refused")

\* connect() by label waits until it is registered, with SO_RCVTIMEO for a second.
Lookup(t) ==
  /\ Calls(t, "lookup")
  /\ \/ /\ t \in labelled /\ registry # "none"
        /\ peer' = [peer EXCEPT ![t] = registry]
        /\ GoesOn(t)
        /\ UNCHANGED <<labelled, registry, bound, data, ended>>
     \/ /\ t \in labelled => registry = "none" /\ demo = "xddp_label"
        /\ Fail("refused")

\* connect() by number asks nobody.
Connect(t) ==
  /\ Calls(t, "connect") /\ GoesOn(t)
  /\ peer' = [peer EXCEPT ![t] = "server"]
  /\ UNCHANGED <<labelled, registry, bound, data, ended>>

\* The file of a label is there once it is registered.  The opening of a numbered one
\* that is not bound yet waits or fails.
Open(t) ==
  /\ Calls(t, "open")
  /\ \/ /\ bound # {} /\ GoesOn(t)
        /\ UNCHANGED <<sockets, data, ended>>
     \/ /\ bound = {} /\ Fail("refused")

\* Where something sent by t ends up: of a pipe, at the other end.
Dest(t) ==
  CASE Xddp /\ t = "nrt" -> Order[1]
    [] Xddp /\ t # "nrt" -> "nrt"
    [] ~ Xddp            -> IF Calls(t, "sendto") THEN "server" ELSE peer[t]

\* Bytes are put to those that wait already, messages are kept apart.
Put(queue, piece, together) ==
  IF together /\ queue # <<>> THEN <<Head(queue) \o piece>> ELSE Append(queue, piece)

HasRoom(t) == Len(net[t]) < Room

Numbers(from, to) == [i \in 1..to - from + 1 |-> from + i - 1]

Send(t) ==
  /\ Calls(t, "send") \/ Calls(t, "sendto")
  /\ LET to == Dest(t)
     IN IF Xddp \/ to \in bound
        THEN /\ Bytes \/ HasRoom(to)
             /\ sent < Messages * MsgLen
             /\ net' = [net EXCEPT ![to] = Put(@, Numbers(sent + 1, sent + MsgLen), Bytes)]
             /\ sent' = sent + MsgLen
             /\ GoesOn(t)
             /\ UNCHANGED <<sockets, held, got, ended>>
        ELSE Fail("refused")

\* One byte after the other, until the message is whole.
Scatter(t) ==
  /\ Calls(t, "scatter") /\ sent < Messages * MsgLen
  /\ net' = [net EXCEPT !.nrt = Put(@, <<sent + 1>>, TRUE)]
  /\ sent' = sent + 1
  /\ IF sent' % MsgLen = 0 THEN GoesOn(t) ELSE UNCHANGED at
  /\ UNCHANGED <<sockets, held, got, ended>>

\* The first of what waits: of bytes, as many as there are or fewer.
Recv(t) ==
  /\ Calls(t, "recv") /\ net[t] # <<>>
  /\ LET piece == Head(net[t])
     IN \E n \in 1..Len(piece) :
          /\ n = Len(piece) \/ Bytes
          /\ got' = Append(got, SubSeq(piece, 1, n))
          /\ net' = [net EXCEPT ![t] =
               IF n = Len(piece) THEN Tail(@) ELSE <<SubSeq(piece, n + 1, Len(piece))>>]
  /\ GoesOn(t)
  /\ UNCHANGED <<sockets, sent, held, ended>>

\* regular_thread: from the pipe, and back into it.
Read(t) ==
  /\ Calls(t, "read") /\ net[t] # <<>>
  /\ held' = Head(net[t])
  /\ net' = [net EXCEPT ![t] = Tail(@)]
  /\ GoesOn(t)
  /\ UNCHANGED <<sockets, sent, got, ended>>

Write(t) ==
  /\ Calls(t, "write") /\ HasRoom(Dest(t))
  /\ net' = [net EXCEPT ![Dest(t)] = Append(@, held)]
  /\ held' = <<>>
  /\ GoesOn(t)
  /\ UNCHANGED <<sockets, sent, got, ended>>

Step(t) ==
  /\ \/ SetTimeout(t) \/ SetLabel(t) \/ Bind(t) \/ Lookup(t) \/ Connect(t) \/ Open(t)
     \/ Send(t) \/ Scatter(t) \/ Recv(t) \/ Read(t) \/ Write(t)
  /\ UNCHANGED <<demo, mainv, gone>>

\* Any call may fail.
CallFails ==
  /\ main = "create" \/ born \ gone # {}
  /\ Fail("failed")
  /\ UNCHANGED <<demo, mainv, gone>>

Running == ended = "no"

IpcNext ==
  /\ Running
  /\ MainStep \/ Sigwait \/ CallFails \/ \E t \in IpcThreads : Step(t) \/ End(t)

\* main and the threads are scheduled when they can run.
IpcSpec ==
  /\ IpcInit /\ [][IpcNext]_ipcvars
  /\ WF_ipcvars(Running /\ MainStep)
  /\ \A t \in {"rt1", "rt2", "nrt", "rt", "server", "client"} :
       WF_ipcvars(Running /\ t \in IpcThreads /\ Step(t)) /\ WF_ipcvars(Running /\ t \in IpcThreads /\ End(t))
------------------------------------------------------------------------------
Consumer == CHOOSE t \in IpcThreads : "recv" \in ToSet(Program[demo].loop[t])

\* Whatever the order in which the threads set up, nothing is lost, doubled, changed in
\* its order or sent to a socket nobody reads: what was received, what is on its way and
\* what the regular thread holds is, in this order, all that was sent.  Messages arrive
\* whole, and xddp-echo gets back the message it sent last.
InOrder ==
  /\ FlattenSeq(got) \o FlattenSeq(net[Consumer]) \o held
       \o (IF Xddp THEN FlattenSeq(net.nrt) ELSE <<>>) = Numbers(1, sent)
  /\ ~ Bytes /\ demo # "xddp_stream" =>
       \A i \in 1..Len(got) : got[i] = Numbers((i - 1) * MsgLen + 1, i * MsgLen)
  /\ demo = "xddp_echo" /\ Head(at.rt) = "send" => FlattenSeq(got) = Numbers(1, sent)

\* A program that connects by label without a timeout can be started in any order: no
\* call is refused because the other thread has not come so far.
LookupWaits == demo \in {"iddp_label", "bufp_label"} => ended # "refused"

\* Every message arrives, unless the process ends or is told to, and in xddp-stream at
\* least as many pieces as messages were sent: the two threads never both wait.
MessagesArrive ==
  \A m \in 1..Messages :
    sent >= m * MsgLen ~>
      \/ IF Bytes THEN Len(FlattenSeq(got)) >= m * MsgLen ELSE Len(got) >= m
      \/ main = "cancel" \/ ~ Running

\* After a signal the process ends, whatever call each thread is in.
SignalEnds == main = "cancel" ~> ~ Running
==============================================================================
