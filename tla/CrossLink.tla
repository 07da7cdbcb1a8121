----------------------------- MODULE CrossLink ------------------------------
(***************************************************************************)
(* examples/alchemy/cobalt/cross-link.c: two tasks, one writes to a serial *)
(* line, the other reads from the line it is linked with.  Main opens both *)
(* lines and starts both tasks; main after an error, the signal handler at *)
(* any time, and each task at its end close the descriptors and delete the *)
(* tasks, told by flags that no lock protects.                             *)
(*                                                                         *)
(* A descriptor that is closed may be given out again: open takes the      *)
(* lowest free number.  read_state and write_state are changed by a load   *)
(* and a store, between which the others may run.  What is written and     *)
(* read is left out.  The handler runs in main's thread, where its printf  *)
(* is taken to be safe; a close of an open descriptor succeeds.            *)
(***************************************************************************)
EXTENDS Integers, FiniteSetsExt, SequencesExt

CONSTANTS
  Files,      \* bound: the descriptors that open may give out
  Signals,    \* the signals that are caught
  MaxSignals  \* bound: signals sent

ASSUME FilesAssumption == Files \subseteq Nat /\ MaxSignals \in Nat

Sides == {"write", "read"}

VARIABLES
  main, k,  \* what main does; in its setup, the number of its next call
  copy,     \* what main, or a task, loaded of a state it is changing
  frames,   \* the running calls of cleanup_all, the innermost last
  file,     \* the line behind each descriptor
  fd,       \* write_fd and read_fd
  state,    \* write_state and read_state
  task,     \* where each task is
  sent,     \* signals sent
  early,    \* history: one of them came while main was setting up
  stray     \* history: a close hit the line of the other side

vars == <<main, k, copy, frames, file, fd, state, task, sent, early, stray>>
------------------------------------------------------------------------------
(***************************************************************************)
(* main                                                                    *)
(***************************************************************************)
Call(c, s, f) == [call |-> c, side |-> s, flag |-> f]

\* STATE_FILE_OPENED and STATE_TASK_CREATED are set by a load and a store.
Sets(s, f) == <<Call("load", s, f), Call("store", s, f)>>

OpenFile(s)       == <<Call("open", s, "none")>> \o Sets(s, "opened") \o <<Call("config", s, "none")>>
CreateTask(s)     == <<Call("create", s, "none")>> \o Sets(s, "created")
FlagsAfterConfig  ==                                              \* a mutant
  LET Late(s) == <<Call("open", s, "none"), Call("config", s, "none")>> \o Sets(s, "opened")
  IN Late("write") \o Late("read") \o CreateTask("write") \o CreateTask("read")
       \o <<Call("start", "write", "none"), Call("start", "read", "none")>>
Setup ==
  OpenFile("write") \o OpenFile("read") \o CreateTask("write") \o CreateTask("read")
    \o <<Call("start", "write", "none"), Call("start", "read", "none")>>

\* A call of cleanup_all, from the handler of a signal or from main.
Frame(from) == [from |-> from, item |-> 1, step |-> "check", copy |-> {}]

Init ==
  /\ main = "setup" /\ k = 1 /\ frames = <<>>
  /\ copy = [s \in Sides \cup {"main"} |-> {}]
  /\ file = [n \in Files |-> "free"] /\ fd = [s \in Sides |-> -1]
  /\ state = [s \in Sides |-> {}] /\ task = [s \in Sides |-> "none"]
  /\ sent = 0 /\ early = FALSE /\ stray = FALSE

IsOpen(n) == n \in Files /\ file[n] # "free"
Next1     == k' = k + 1 /\ main' = IF k = Len(Setup) THEN "pause" ELSE main

\* open() gives out the lowest number that is free, and fails if none is.
Opens(s) ==
  LET n == Min({m \in Files : ~ IsOpen(m)})
  IN /\ \E m \in Files : ~ IsOpen(m)
     /\ file' = [file EXCEPT ![n] = s] /\ fd' = [fd EXCEPT ![s] = n]
     /\ Next1
     /\ UNCHANGED <<copy, state, task>>

Configures(s) == IsOpen(fd[s]) /\ Next1 /\ UNCHANGED <<copy, file, fd, state, task>>

Loads(s) == copy' = [copy EXCEPT !.main = state[s]] /\ Next1
            /\ UNCHANGED <<file, fd, state, task>>
Stores(s, f) == state' = [state EXCEPT ![s] = copy.main \cup {f}] /\ Next1
                /\ UNCHANGED <<copy, file, fd, task>>

Creates(s) == task' = [task EXCEPT ![s] = "created"] /\ Next1
              /\ UNCHANGED <<copy, file, fd, state>>
Starts(s)  == task[s] = "created" /\ task' = [task EXCEPT ![s] = "wait"] /\ Next1
              /\ UNCHANGED <<copy, file, fd, state>>

\* One call of main, when no handler runs.
Main ==
  /\ main = "setup" /\ frames = <<>>
  /\ LET c == Setup[k]
     IN CASE c.call = "open"   -> Opens(c.side)
          [] c.call = "config" -> Configures(c.side)
          [] c.call = "load"   -> Loads(c.side)
          [] c.call = "store"  -> Stores(c.side, c.flag)
          [] c.call = "create" -> Creates(c.side)
          [] c.call = "start"  -> Starts(c.side)
  /\ UNCHANGED <<frames, sent, early, stray>>

\* The calls that are tested may fail, whatever is behind them; main cleans up.
MainFails ==
  /\ main = "setup" /\ frames = <<>>
  /\ Setup[k].call \notin {"load", "store"}
  /\ main' = "error" /\ frames' = <<Frame("main")>>
  /\ UNCHANGED <<k, copy, file, fd, state, task, sent, early, stray>>
------------------------------------------------------------------------------
(***************************************************************************)
(* cleanup_all and the handler                                             *)
(***************************************************************************)
Items ==
  << [side |-> "read",  flag |-> "opened"],  [side |-> "write", flag |-> "opened"],
     [side |-> "write", flag |-> "created"], [side |-> "read",  flag |-> "created"] >>

\* close_file: it does not repeat the call, since close() returns 0 or -1.
Close(s) ==
  LET n == fd[s]
  IN /\ file' = IF IsOpen(n) THEN [file EXCEPT ![n] = "free"] ELSE file
     /\ stray' = (stray \/ (IsOpen(n) /\ file[n] # s))

KeepsAll(flags, f) == flags                                       \* a mutant
Cleared(flags, f)  == flags \ {f}

top  == Last(frames)
Item == Items[top.item]

\* To the given step of the innermost call; from the fourth item back to its caller.
GoOn(step) == frames' = Front(frames) \o <<[top EXCEPT !.step = step]>>
NextItem ==
  IF top.item < Len(Items)
  THEN frames' = Front(frames) \o <<[top EXCEPT !.item = @ + 1, !.step = "check"]>>
       /\ UNCHANGED main
  ELSE frames' = Front(frames) /\ main' = (IF top.from = "main" THEN "returned" ELSE main)

CheckFlag ==
  /\ frames # <<>> /\ top.step = "check"
  /\ IF Item.flag \in state[Item.side] THEN GoOn("act") /\ UNCHANGED main ELSE NextItem
  /\ UNCHANGED <<k, copy, file, fd, state, task, sent, early, stray>>

CloseOrDelete ==
  /\ frames # <<>> /\ top.step = "act" /\ GoOn("load")
  /\ \/ Item.flag = "opened" /\ Close(Item.side) /\ UNCHANGED task
     \/ Item.flag = "created" /\ task' = [task EXCEPT ![Item.side] = "gone"]
        /\ UNCHANGED <<file, stray>>
  /\ UNCHANGED <<main, k, copy, fd, state, sent, early>>

LoadFlags ==
  /\ frames # <<>> /\ top.step = "load"
  /\ frames' = Front(frames) \o <<[top EXCEPT !.step = "store", !.copy = state[Item.side]]>>
  /\ UNCHANGED <<main, k, copy, file, fd, state, task, sent, early, stray>>

StoreFlags ==
  /\ frames # <<>> /\ top.step = "store" /\ NextItem
  /\ state' = [state EXCEPT ![Item.side] = Cleared(top.copy, Item.flag)]
  /\ UNCHANGED <<k, copy, file, fd, task, sent, early, stray>>

CleanupAll == CheckFlag \/ CloseOrDelete \/ LoadFlags \/ StoreFlags

\* A signal interrupts main, its cleanup, or the handler of the other signal.
catch_signal(sig) ==
  /\ main # "returned" /\ sent < MaxSignals
  /\ \A i \in 1..Len(frames) : frames[i].from # sig
  /\ frames' = Append(frames, Frame(sig))
  /\ sent' = sent + 1
  /\ early' = (early \/ main = "setup")
  /\ UNCHANGED <<main, k, copy, file, fd, state, task, stray>>
------------------------------------------------------------------------------
(***************************************************************************)
(* write_task_proc and read_task_proc: wait for the period or the event,   *)
(* write or read, and when one of them fails leave.                        *)
(***************************************************************************)
Goes(s, from, to) ==
  /\ task[s] = from /\ task' = [task EXCEPT ![s] = to]

Stay == UNCHANGED <<main, k, frames, fd, sent, early>>

\* The event is waited for at the line, the period is not.
Wait(s) ==
  /\ Goes(s, "wait", "use")
  /\ s = "read" => IsOpen(fd[s])
  /\ Stay /\ UNCHANGED <<copy, file, state, stray>>

Use(s) ==
  /\ IsOpen(fd[s]) /\ Goes(s, "use", "wait")
  /\ Stay /\ UNCHANGED <<copy, file, state, stray>>

\* Also after the timeout of an event: ioctl() returns -1 and never -ETIMEDOUT.
Leave(s) ==
  /\ Goes(s, "wait", "check") \/ Goes(s, "use", "check")
  /\ Stay /\ UNCHANGED <<copy, file, state, stray>>

Check(s) ==
  /\ Goes(s, "check", IF "opened" \in state[s] THEN "close" ELSE "gone")
  /\ Stay /\ UNCHANGED <<copy, file, state, stray>>

CloseOwn(s) ==
  /\ Goes(s, "close", IF IsOpen(fd[s]) THEN "load" ELSE "gone")
  /\ Close(s)
  /\ Stay /\ UNCHANGED <<copy, state>>

LoadOwn(s) ==
  /\ Goes(s, "load", "store")
  /\ copy' = [copy EXCEPT ![s] = state[s]]
  /\ Stay /\ UNCHANGED <<file, state, stray>>

StoreOwn(s) ==
  /\ Goes(s, "store", "gone")
  /\ state' = [state EXCEPT ![s] = Cleared(copy[s], "opened")]
  /\ Stay /\ UNCHANGED <<copy, file, stray>>

Task(s) ==
  /\ main # "returned"
  /\ Wait(s) \/ Use(s) \/ Leave(s) \/ Check(s) \/ CloseOwn(s) \/ LoadOwn(s) \/ StoreOwn(s)

\* pause(), or nothing at all after main has returned.
Paused == main \in {"pause", "returned"} /\ frames = <<>> /\ UNCHANGED vars

Next ==
  \/ Main \/ MainFails \/ CleanupAll \/ Paused
  \/ \E sig \in Signals : catch_signal(sig)
  \/ \E s \in Sides : Task(s)

\* main's thread is scheduled when it can run.  Nothing is assumed of the tasks.
Spec == Init /\ [][Next]_vars /\ WF_vars(Main \/ MainFails) /\ WF_vars(CleanupAll)
------------------------------------------------------------------------------
\* The flags keep each side to its own line, although they are checked before a close
\* and cleared after it and the number of a closed descriptor may be given out again: a
\* close never hits the other line (cross-link.c:74-123, 170-172, 230-232).  A task uses
\* the other's line only if a signal came during the setup: the handler then closes what
\* main goes on with.
OwnLine ==
  /\ ~ stray
  /\ \A s \in Sides :
       task[s] \in {"wait", "use"} /\ IsOpen(fd[s]) /\ ~ early => file[fd[s]] = s

\* After an error of main, and after a signal that comes when all is set up, both lines
\* get closed and both tasks are gone, wherever the tasks, main's cleanup and a second
\* signal meet (cross-link.c:100-130, 324-327).
Clean == (\A n \in Files : ~ IsOpen(n)) /\ \A s \in Sides : task[s] \in {"none", "gone"}
CleansUp == (main = "error" \/ (main = "pause" /\ frames # <<>>)) ~> Clean
==============================================================================
