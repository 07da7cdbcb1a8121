------------------------------ MODULE Bootstrap ------------------------------
(***************************************************************************)
(* The bootstrap code of config/bootstrap-template.h: how a process gets   *)
(* Xenomai initialised before main(), and which argument vector main()     *)
(* then works with.                                                        *)
(*                                                                         *)
(* Up to two images of the process hold bootstrap code, a shared library   *)
(* and the executable.  Each has a constructor and an early_args of its    *)
(* own; the loader runs the library's constructor first.  A constructor    *)
(* gets the command line from glibc or reads it from /proc/self/cmdline    *)
(* (_xenomai_init_fetchargv, one action per system call and loop turn).    *)
(*                                                                         *)
(* A byte is a number, a string a sequence of bytes other than NUL.        *)
(* xenomai_init is outside the repository: it drops the options that are   *)
(* Xenomai's from the vector it is given, and never the program's name.    *)
(***************************************************************************)
EXTENDS Naturals, Sequences

CONSTANTS
  CommandLines,  \* the possible argument vectors, sequences of strings
  FirstLen       \* the first buffer of _xenomai_init_fetchargv: 1024 bytes

ASSUME LenAssumption == FirstLen \in Nat \ {0}
ASSUME LinesAssumption == \A cl \in CommandLines : cl \in Seq(Seq(Nat \ {0}))

NUL    == 0
Option == 2      \* the first byte of an option that Xenomai consumes
Images == {"dso", "exe"}
NoImage == "none"

\* What xenomai_init leaves of a vector: the program's name and what is no option.
IsOption(s) == s # <<>> /\ s[1] = Option
Dropped(strings, k) == k > 1 /\ IsOption(strings[k])
Reduced(strings) ==
  LET left[k \in 0..Len(strings)] ==
        IF k = 0 THEN <<>>
        ELSE IF Dropped(strings, k) THEN left[k - 1] ELSE Append(left[k - 1], strings[k])
  IN left[Len(strings)]

\* /proc/self/cmdline: the strings, a NUL after each.
Cmdline(strings) ==
  LET bytes[k \in 0..Len(strings)] ==
        IF k = 0 THEN <<>> ELSE bytes[k - 1] \o strings[k] \o <<NUL>>
  IN bytes[Len(strings)]

VARIABLES
  line,       \* the command line execve was given
  glibc,      \* the constructors get argc and argv from the C library
  images,     \* the images with bootstrap code
  wrapped,    \* the executable has the main wrapper
  early,      \* early_args of each image: its vector, empty until set
  inits,      \* how often each image has called xenomai_init
  image,      \* the image whose constructor runs
  pc,
  argv,       \* the vector in the hands of the running code
  fd, heap,   \* _xenomai_init_fetchargv: descriptor open?, live blocks,
  len, buf,   \* size of the buffer, the bytes read into it,
  p, n, slots, v  \* position, count, entries allocated, the vector of starts

build == <<line, glibc, images, wrapped>>
fetch == <<fd, heap, len, buf, p, n, slots, v>>
vars  == <<build, early, inits, image, pc, argv, fetch>>

FirstImage == IF "dso" \in images THEN "dso" ELSE "exe"
------------------------------------------------------------------------------
Init ==
  /\ line \in CommandLines
  /\ glibc \in BOOLEAN
  /\ images \in (SUBSET Images) \ {{}}
  /\ wrapped \in BOOLEAN /\ (wrapped => "exe" \in images)
  /\ early = [i \in Images |-> <<>>]
  /\ inits = [i \in Images |-> 0]
  /\ image = FirstImage
  /\ pc = "constructor"
  /\ argv = <<>>
  /\ fd = FALSE /\ heap = {}
  /\ len = FirstLen /\ buf = <<>> /\ p = 1 /\ n = 0 /\ slots = 0 /\ v = <<>>

\* After a constructor the loader runs the executable's, then main.
Leave ==
  IF image = "dso" /\ "exe" \in images
  THEN image' = "exe" /\ pc' = "constructor"
  ELSE image' = NoImage /\ pc' = IF wrapped THEN "xenomai_main" ELSE "main"

xenomai_bootstrap ==
  /\ pc = "constructor"
  /\ IF glibc
     THEN argv' = line /\ pc' = "init" /\ UNCHANGED fetch
     ELSE /\ pc' = "open" /\ argv' = argv
          /\ fd' = FALSE /\ heap' = {} /\ len' = FirstLen
          /\ buf' = <<>> /\ p' = 1 /\ n' = 0 /\ slots' = 0 /\ v' = <<>>
  /\ UNCHANGED <<build, early, inits, image>>

(***************************************************************************)
(* _xenomai_init_fetchargv                                                 *)
(***************************************************************************)
\* Each error path gives back what it holds and ends the constructor.
Fail(blocks) ==
  /\ fd' = FALSE /\ heap' = heap \ blocks
  /\ Leave
  /\ UNCHANGED <<build, early, inits, argv, len, buf, p, n, slots, v>>

Open ==
  /\ pc = "open"
  /\ \/ Fail({})
     \/ /\ fd' = TRUE /\ pc' = "malloc"
        /\ UNCHANGED <<build, early, inits, image, argv, heap, len, buf, p, n, slots, v>>

MallocList ==
  /\ pc = "malloc"
  /\ \/ Fail({})
     \/ /\ heap' = heap \cup {"arglist"} /\ pc' = "read"
        /\ UNCHANGED <<build, early, inits, image, argv, fd, len, buf, p, n, slots, v>>

LenKept(l) == l                                                  \* a mutant
LenDoubled(l) == 2 * l

AnyReadIsWhole(ret) == ret <= len                                \* a mutant

\* A read that fills the buffer may have left something behind.
ReadIsWhole(ret) == ret < len

\* read and close; then either the whole command line is there or everything
\* starts again with a buffer of twice the size.
Read ==
  /\ pc = "read"
  /\ \/ Fail({"arglist"})
     \/ LET bytes == Cmdline(line)
            ret   == IF Len(bytes) < len THEN Len(bytes) ELSE len
        IN /\ fd' = FALSE
           /\ IF ReadIsWhole(ret)
              THEN buf' = SubSeq(bytes, 1, ret) /\ pc' = "count" /\ UNCHANGED <<heap, len>>
              ELSE /\ heap' = heap \ {"arglist"} /\ len' = LenDoubled(len)
                   /\ pc' = "open" /\ UNCHANGED buf
           /\ UNCHANGED <<build, early, inits, image, argv, p, n, slots, v>>

\* p + strlen(p) + 1.  Without a NUL strlen runs past what was read.
AfterNul(q) ==
  LET nuls == {j \in q..Len(buf) : buf[j] = NUL} \cup {Len(buf) + 1}
  IN 1 + CHOOSE j \in nuls : \A k \in nuls : j <= k

Count ==
  /\ pc = "count"
  /\ IF p <= Len(buf)
     THEN n' = n + 1 /\ p' = AfterNul(p) /\ UNCHANGED pc
     ELSE pc' = "valloc" /\ UNCHANGED <<n, p>>
  /\ UNCHANGED <<build, early, inits, image, argv, fd, heap, len, buf, slots, v>>

ErrorFrees == {}                                                 \* a mutant
ErrorFreesList == {"arglist"}

MallocVector ==
  /\ pc = "valloc"
  /\ \/ Fail(ErrorFreesList)
     \/ /\ heap' = heap \cup {"v"} /\ slots' = n + 1
        /\ p' = 1 /\ n' = 0 /\ pc' = "fill"
        /\ UNCHANGED <<build, early, inits, image, argv, fd, len, buf, v>>

StringAt(q) == SubSeq(buf, q, AfterNul(q) - 2)

Fill ==
  /\ pc = "fill"
  /\ IF p <= Len(buf)
     THEN /\ v' = Append(v, p) /\ n' = n + 1 /\ p' = AfterNul(p)
          /\ UNCHANGED <<argv, pc>>
     ELSE /\ argv' = [i \in 1..n |-> StringAt(v[i])] /\ pc' = "init"
          /\ UNCHANGED <<n, p, v>>
  /\ UNCHANGED <<build, early, inits, image, fd, heap, len, buf, slots>>

(***************************************************************************)
(* call_xenomai_init and main                                              *)
(***************************************************************************)
\* A mutant: the vector is recorded before xenomai_init reduces it.
RecordThenInit(i, vector) ==
  /\ inits' = [inits EXCEPT ![i] = @ + 1]
  /\ early' = [early EXCEPT ![i] = vector]

InitFrom(i, vector) ==
  /\ inits' = [inits EXCEPT ![i] = @ + 1]
  /\ early' = [early EXCEPT ![i] = Reduced(vector)]

CallInit ==
  /\ pc = "init"
  /\ InitFrom(image, argv)
  /\ Leave
  /\ argv' = argv
  /\ UNCHANGED <<build, fetch>>

\* xenomai_bootstrap_getargv: an image knows a vector once argc is not 0.
GetArgv(i, default) == IF Len(early[i]) # 0 THEN early[i] ELSE default

NoFallback(i) == FALSE                                           \* a mutant
NeedsInit(i) == Len(early[i]) = 0

\* The wrapper makes up for a constructor that could not initialise.
xenomai_main ==
  /\ pc = "xenomai_main"
  /\ IF NeedsInit("exe")
     THEN InitFrom("exe", line) /\ argv' = Reduced(line)
     ELSE argv' = GetArgv("exe", line) /\ UNCHANGED <<early, inits>>
  /\ pc' = "running"
  /\ UNCHANGED <<build, image, fetch>>

\* A main without the wrapper asks for the vector itself; the dynamic linker
\* binds the call to the executable's copy of the function if there is one.
main ==
  /\ pc = "main"
  /\ argv' = GetArgv(IF "exe" \in images THEN "exe" ELSE "dso", line)
  /\ pc' = "running"
  /\ UNCHANGED <<build, early, inits, image, fetch>>

Terminated == pc = "running" /\ UNCHANGED vars

Steps ==
  xenomai_bootstrap \/ Open \/ MallocList \/ Read \/ Count \/ MallocVector
    \/ Fill \/ CallInit \/ xenomai_main \/ main

Next == Steps \/ Terminated

\* One thread runs from the loader to main and nothing in it waits.
Spec == Init /\ [][Next]_vars /\ WF_vars(Steps)
------------------------------------------------------------------------------
TypeOK ==
  /\ glibc \in BOOLEAN /\ wrapped \in BOOLEAN
  /\ images \subseteq Images /\ image \in Images \cup {NoImage}
  /\ inits \in [Images -> 0..2]
  /\ fd \in BOOLEAN /\ heap \subseteq {"arglist", "v"}
  /\ len \in Nat /\ n \in 0..Len(line) /\ p \in Nat \ {0} /\ slots \in Nat
  /\ pc \in {"constructor", "open", "malloc", "read", "count", "valloc", "fill",
             "init", "xenomai_main", "main", "running"}

\* strlen never leaves the bytes that were read, and the second pass writes no
\* entry beyond what the first pass allocated, the last of which is the NULL's.
InBounds == p <= Len(buf) + 1 /\ (pc = "fill" => Len(v) < slots)

\* However the command line compares with the buffer sizes tried, the vector
\* built from it is the one the process was given.
VectorIsCommandLine == pc = "init" => argv = line

\* Whatever call fails, no constructor leaves a descriptor open, and it leaves
\* memory behind only as the vector in use.
NoLeak ==
  pc \in {"constructor", "xenomai_main", "main", "running"} =>
    ~ fd /\ (heap = {} \/ heap = {"arglist", "v"})

\* "To allow Xenomai to consume commandline arguments (remove them so the
\* application does not see them)": main works with the reduced vector if
\* the image it asks was initialised, and with the untouched one only if not.
Asked == IF "exe" \in images THEN "exe" ELSE "dso"

MainSeesReduced ==
  pc = "running" /\ line # <<>> =>
    argv = IF inits[Asked] > 0 THEN Reduced(line) ELSE line

\* Under the wrapper main never runs uninitialised, whatever fails before it,
\* and the executable never initialises twice.
WrapperInitialises ==
  pc = "running" /\ wrapped /\ line # <<>> => inits["exe"] = 1

\* The bootstrap always gets to main: the doubling of the buffer ends.
ReachesMain == <>(pc = "running")
==============================================================================
