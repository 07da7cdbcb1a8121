--------------------------- MODULE CrossLinkProofs --------------------------
(***************************************************************************)
(* For every number of descriptors and every sequence of signals, the two  *)
(* flags of cross-link.c keep each side to its own line.                   *)
(***************************************************************************)
EXTENDS CrossLink, WellFoundedInduction, TLAPS

(***************************************************************************)
(* The inductive invariant                                                 *)
(***************************************************************************)
Flags     == {"opened", "created"}
FrameType == [from: Signals \cup {"main"}, item: 1..4,
              step: {"check", "act", "load", "store"}, copy: SUBSET Flags]

TypeOK ==
  /\ main \in {"setup", "pause", "error", "returned"} /\ k \in 1..17
  /\ copy \in [Sides \cup {"main"} -> SUBSET Flags] /\ frames \in Seq(FrameType)
  /\ file \in [Files -> Sides \cup {"free"}] /\ fd \in [Sides -> Files \cup {-1}]
  /\ state \in [Sides -> SUBSET Flags]
  /\ task \in [Sides -> {"none", "created", "wait", "use", "check", "close", "load", "store",
                         "gone"}]
  /\ sent \in Nat /\ early \in BOOLEAN /\ stray \in BOOLEAN

\* main goes through the setup while no handler runs, and has the tasks last.
MainInv ==
  /\ main = "setup" => k <= 16
  /\ k <= 9 => \A s \in Sides : task[s] \in {"none", "gone"}
  /\ k = 1 <=> fd.write = -1
  /\ k <= 5 <=> fd.read = -1
  /\ main = "setup" /\ ~ early => frames = <<>>

\* A cleanup that has passed the descriptor of the writer finds its flag cleared.
FrameInv ==
  \A i \in 1..Len(frames) : frames[i].item >= 3 =>
    /\ "opened" \notin state.write
    /\ frames[i].item = 3 /\ frames[i].step = "store" => "opened" \notin frames[i].copy

\* Before the reader's line is opened, the writer's is closed only by a cleanup that
\* clears the flag before it returns.
Clearing == \E i \in 1..Len(frames) : frames[i].item = 2 /\ frames[i].step \in {"load", "store"}
BeforeRead ==
  /\ k <= 3 => /\ "opened" \notin state.write /\ (k > 1 => file[fd.write] = "write")
               /\ \A i \in 1..Len(frames) : frames[i].item = 2 => frames[i].step = "check"
  /\ k = 3 => "opened" \notin copy.main
  /\ k \in 2..5 /\ main = "setup" =>
       /\ file[fd.write] = "free" => "opened" \notin state.write \/ Clearing
       /\ ~ early => file[fd.write] = "write"

\* The reader's line has the number that the writer's had.  The writer does not close it.
Shared == k > 5 /\ fd.write = fd.read
SharedInv ==
  Shared =>
    /\ "opened" \notin state.write /\ early /\ task.write # "close"
    /\ \A i \in 1..Len(frames) : frames[i].item = 2 => frames[i].step = "check"
    /\ k = 11 => "opened" \notin copy.main

FileInv ==
  /\ k > 1 /\ ~ Shared => file[fd.write] \in {"write", "free"}
  /\ k > 5 => file[fd.read] \in {"read", "free"}

IInv == TypeOK /\ MainInv /\ FrameInv /\ BeforeRead /\ SharedInv /\ FileInv /\ ~ stray

(***************************************************************************)
(* The steps of the setup, and the innermost cleanup                       *)
(***************************************************************************)
LEMMA Joined ==
  ASSUME NEW S, NEW s \in Seq(S), NEW t \in Seq(S)
  PROVE  /\ s \o t \in Seq(S) /\ Len(s \o t) = Len(s) + Len(t)
         /\ \A i \in 1..Len(s) + Len(t) :
              (s \o t)[i] = IF i <= Len(s) THEN s[i] ELSE t[i - Len(s)]
OBVIOUS

LEMMA ThreeJoined ==
  ASSUME NEW S, NEW a \in S, NEW b \in S, NEW c \in S
  PROVE  LET f == <<a>> \o <<b, c>>
         IN f \in Seq(S) /\ Len(f) = 3 /\ f[1] = a /\ f[2] = b /\ f[3] = c
OBVIOUS

LEMMA FourJoined ==
  ASSUME NEW S, NEW a \in S, NEW b \in S, NEW c \in S, NEW d \in S
  PROVE  LET f == <<a>> \o <<b, c>> \o <<d>>
         IN f \in Seq(S) /\ Len(f) = 4 /\ f[1] = a /\ f[2] = b /\ f[3] = c /\ f[4] = d
OBVIOUS

AnyCall == [call: {"open", "load", "store", "config", "create", "start"},
            side: Sides, flag: Flags \cup {"none"}]

LEMMA SetupIs ==
  /\ Len(Setup) = 16
  /\ Setup[1]  = Call("open", "write", "none")  /\ Setup[2]  = Call("load", "write", "opened")
  /\ Setup[3]  = Call("store", "write", "opened") /\ Setup[4] = Call("config", "write", "none")
  /\ Setup[5]  = Call("open", "read", "none")   /\ Setup[6]  = Call("load", "read", "opened")
  /\ Setup[7]  = Call("store", "read", "opened")  /\ Setup[8] = Call("config", "read", "none")
  /\ Setup[9]  = Call("create", "write", "none") /\ Setup[10] = Call("load", "write", "created")
  /\ Setup[11] = Call("store", "write", "created")
  /\ Setup[12] = Call("create", "read", "none") /\ Setup[13] = Call("load", "read", "created")
  /\ Setup[14] = Call("store", "read", "created")
  /\ Setup[15] = Call("start", "write", "none") /\ Setup[16] = Call("start", "read", "none")
<1> DEFINE OW == OpenFile("write")   OR == OpenFile("read")
           CW == CreateTask("write") CR == CreateTask("read")
           ST == <<Call("start", "write", "none"), Call("start", "read", "none")>>
<1>1. ASSUME NEW s \in Sides
      PROVE  LET f == OpenFile(s)
             IN /\ f \in Seq(AnyCall) /\ Len(f) = 4
                /\ f[1] = Call("open", s, "none") /\ f[2] = Call("load", s, "opened")
                /\ f[3] = Call("store", s, "opened") /\ f[4] = Call("config", s, "none")
  <2> DEFINE a == Call("open", s, "none")          b == Call("load", s, "opened")
             c == Call("store", s, "opened")   d == Call("config", s, "none")
  <2>1. a \in AnyCall /\ b \in AnyCall /\ c \in AnyCall /\ d \in AnyCall
    BY DEF AnyCall, Call, Flags
  <2>2. OpenFile(s) = <<a>> \o <<b, c>> \o <<d>>
    BY DEF OpenFile, Sets
  <2> HIDE DEF a, b, c, d
  <2>3. LET f == <<a>> \o <<b, c>> \o <<d>>
        IN f \in Seq(AnyCall) /\ Len(f) = 4 /\ f[1] = a /\ f[2] = b /\ f[3] = c /\ f[4] = d
    BY <2>1, FourJoined
  <2>4. QED
    BY <2>2, <2>3, Zenon DEF a, b, c, d
<1>2. ASSUME NEW s \in Sides
      PROVE  LET f == CreateTask(s)
             IN /\ f \in Seq(AnyCall) /\ Len(f) = 3
                /\ f[1] = Call("create", s, "none") /\ f[2] = Call("load", s, "created")
                /\ f[3] = Call("store", s, "created")
  <2> DEFINE a == Call("create", s, "none")   b == Call("load", s, "created")
             c == Call("store", s, "created")
  <2>1. a \in AnyCall /\ b \in AnyCall /\ c \in AnyCall
    BY DEF AnyCall, Call, Flags
  <2>2. CreateTask(s) = <<a>> \o <<b, c>>
    BY DEF CreateTask, Sets
  <2> HIDE DEF a, b, c
  <2>3. LET f == <<a>> \o <<b, c>>
        IN f \in Seq(AnyCall) /\ Len(f) = 3 /\ f[1] = a /\ f[2] = b /\ f[3] = c
    BY <2>1, ThreeJoined
  <2>4. QED
    BY <2>2, <2>3, Zenon DEF a, b, c
<1>3. /\ ST \in Seq(AnyCall) /\ Len(ST) = 2
      /\ ST[1] = Call("start", "write", "none") /\ ST[2] = Call("start", "read", "none")
  BY DEF AnyCall, Call, Flags, Sides
<1>4. "write" \in Sides /\ "read" \in Sides
  BY DEF Sides
<1>5. /\ OW \in Seq(AnyCall) /\ OR \in Seq(AnyCall) /\ Len(OW) = 4 /\ Len(OR) = 4
      /\ CW \in Seq(AnyCall) /\ CR \in Seq(AnyCall) /\ Len(CW) = 3 /\ Len(CR) = 3
      /\ ST \in Seq(AnyCall) /\ Len(ST) = 2
  BY <1>1, <1>2, <1>3, <1>4, Zenon
<1>6. /\ OW[1] = Call("open", "write", "none") /\ OW[2] = Call("load", "write", "opened")
      /\ OW[3] = Call("store", "write", "opened") /\ OW[4] = Call("config", "write", "none")
      /\ OR[1] = Call("open", "read", "none") /\ OR[2] = Call("load", "read", "opened")
      /\ OR[3] = Call("store", "read", "opened") /\ OR[4] = Call("config", "read", "none")
  BY <1>1, <1>4, Zenon
<1>7. /\ CW[1] = Call("create", "write", "none") /\ CW[2] = Call("load", "write", "created")
      /\ CW[3] = Call("store", "write", "created")
      /\ CR[1] = Call("create", "read", "none") /\ CR[2] = Call("load", "read", "created")
      /\ CR[3] = Call("store", "read", "created")
  BY <1>2, <1>4, Zenon
<1> DEFINE A == OW \o OR
           B == A \o CW
           C == B \o CR
           D == C \o ST
<1>8. Setup = D
  BY Zenon DEF Setup
<1> HIDE DEF OW, OR, CW, CR, ST, A, B, C, D
<1>9. /\ A \in Seq(AnyCall) /\ Len(A) = 8
      /\ \A i \in 1..8 : A[i] = IF i <= 4 THEN OW[i] ELSE OR[i - 4]
  <2>1. /\ A \in Seq(AnyCall) /\ Len(A) = Len(OW) + Len(OR)
        /\ \A i \in 1..Len(OW) + Len(OR) :
             A[i] = IF i <= Len(OW) THEN OW[i] ELSE OR[i - Len(OW)]
    BY <1>5, Joined DEF A
  <2>2. QED
    BY <1>5, <2>1
<1>10. /\ B \in Seq(AnyCall) /\ Len(B) = 11
      /\ \A i \in 1..11 : B[i] = IF i <= 8 THEN A[i] ELSE CW[i - 8]
  <2>1. /\ B \in Seq(AnyCall) /\ Len(B) = Len(A) + Len(CW)
        /\ \A i \in 1..Len(A) + Len(CW) :
             B[i] = IF i <= Len(A) THEN A[i] ELSE CW[i - Len(A)]
    BY <1>5, <1>9, Joined DEF B
  <2>2. QED
    BY <1>5, <1>9, <2>1
<1>11. /\ C \in Seq(AnyCall) /\ Len(C) = 14
      /\ \A i \in 1..14 : C[i] = IF i <= 11 THEN B[i] ELSE CR[i - 11]
  <2>1. /\ C \in Seq(AnyCall) /\ Len(C) = Len(B) + Len(CR)
        /\ \A i \in 1..Len(B) + Len(CR) :
             C[i] = IF i <= Len(B) THEN B[i] ELSE CR[i - Len(B)]
    BY <1>5, <1>10, Joined DEF C
  <2>2. QED
    BY <1>5, <1>10, <2>1
<1>12. /\ D \in Seq(AnyCall) /\ Len(D) = 16
      /\ \A i \in 1..16 : D[i] = IF i <= 14 THEN C[i] ELSE ST[i - 14]
  <2>1. /\ D \in Seq(AnyCall) /\ Len(D) = Len(C) + Len(ST)
        /\ \A i \in 1..Len(C) + Len(ST) :
             D[i] = IF i <= Len(C) THEN C[i] ELSE ST[i - Len(C)]
    BY <1>5, <1>11, Joined DEF D
  <2>2. QED
    BY <1>5, <1>11, <2>1
<1>13. /\ D[1] = OW[1] /\ D[2] = OW[2] /\ D[3] = OW[3] /\ D[4] = OW[4]
       /\ D[5] = OR[1] /\ D[6] = OR[2] /\ D[7] = OR[3] /\ D[8] = OR[4]
  BY <1>9, <1>10, <1>11, <1>12, SMTT(30)
<1>14. /\ D[9] = CW[1] /\ D[10] = CW[2] /\ D[11] = CW[3]
       /\ D[12] = CR[1] /\ D[13] = CR[2] /\ D[14] = CR[3]
       /\ D[15] = ST[1] /\ D[16] = ST[2]
  BY <1>10, <1>11, <1>12
<1>15. QED
  BY <1>3, <1>6, <1>7, <1>8, <1>12, <1>13, <1>14, Zenon

LEMMA MainSteps ==
  ASSUME TypeOK, MainInv, Main
  PROVE  /\ main = "setup" /\ frames = <<>> /\ k \in 1..16
         /\ UNCHANGED <<frames, sent, early, stray>>
         /\ k' = k + 1 /\ main' = IF k = 16 THEN "pause" ELSE main
         /\ \/ k = 1 /\ Opens("write")
            \/ k = 5 /\ Opens("read")
            \/ k \in {4, 8} /\ UNCHANGED <<copy, file, fd, state, task>>
            \/ k \in {2, 10} /\ Loads("write")
            \/ k \in {6, 13} /\ Loads("read")
            \/ k = 3 /\ Stores("write", "opened")
            \/ k = 7 /\ Stores("read", "opened")
            \/ k = 11 /\ Stores("write", "created")
            \/ k = 14 /\ Stores("read", "created")
            \/ k = 9 /\ Creates("write")
            \/ k = 12 /\ Creates("read")
            \/ k = 15 /\ Starts("write")
            \/ k = 16 /\ Starts("read")
<1>1. main = "setup" /\ frames = <<>> /\ k \in 1..16 /\ UNCHANGED <<frames, sent, early, stray>>
  BY DEF TypeOK, MainInv, Main
<1> DEFINE c == Setup[k]
<1>2. \/ c.call = "open" /\ Opens(c.side)
      \/ c.call = "config" /\ Configures(c.side)
      \/ c.call = "load" /\ Loads(c.side)
      \/ c.call = "store" /\ Stores(c.side, c.flag)
      \/ c.call = "create" /\ Creates(c.side)
      \/ c.call = "start" /\ Starts(c.side)
  <2>1. c.call \in {"open", "load", "store", "config", "create", "start"}
    BY <1>1, SetupIs DEF Call
  <2> HIDE DEF c
  <2>2. (CASE c.call = "open" -> Opens(c.side)
          [] c.call = "config" -> Configures(c.side)
          [] c.call = "load"   -> Loads(c.side)
          [] c.call = "store"  -> Stores(c.side, c.flag)
          [] c.call = "create" -> Creates(c.side)
          [] c.call = "start"  -> Starts(c.side))
    BY DEF Main, c
  <2>3. /\ c.call = "open" => Opens(c.side)
        /\ c.call = "config" => Configures(c.side)
        /\ c.call = "load" => Loads(c.side)
        /\ c.call = "store" => Stores(c.side, c.flag)
        /\ c.call = "create" => Creates(c.side)
        /\ c.call = "start" => Starts(c.side)
    BY <2>2
  <2>4. QED
    BY <2>1, <2>3, Zenon
<1> HIDE DEF c
<1>3. k' = k + 1 /\ main' = IF k = 16 THEN "pause" ELSE main
  BY <1>2, SetupIs DEF Opens, Configures, Loads, Stores, Creates, Starts, Next1
<1>4. ASSUME k = 1 PROVE Opens("write")
  <2>1. c.call = "open" /\ c.side = "write" /\ c.flag = "none"
    BY <1>4, SetupIs DEF Call, c
  <2>2. QED
    BY <1>2, <2>1
<1>5. ASSUME k = 2 PROVE Loads("write")
  <2>1. c.call = "load" /\ c.side = "write" /\ c.flag = "opened"
    BY <1>5, SetupIs DEF Call, c
  <2>2. QED
    BY <1>2, <2>1
<1>6. ASSUME k = 3 PROVE Stores("write", "opened")
  <2>1. c.call = "store" /\ c.side = "write" /\ c.flag = "opened"
    BY <1>6, SetupIs DEF Call, c
  <2>2. QED
    BY <1>2, <2>1
<1>7. ASSUME k = 4 PROVE Configures("write")
  <2>1. c.call = "config" /\ c.side = "write" /\ c.flag = "none"
    BY <1>7, SetupIs DEF Call, c
  <2>2. QED
    BY <1>2, <2>1
<1>8. ASSUME k = 5 PROVE Opens("read")
  <2>1. c.call = "open" /\ c.side = "read" /\ c.flag = "none"
    BY <1>8, SetupIs DEF Call, c
  <2>2. QED
    BY <1>2, <2>1
<1>9. ASSUME k = 6 PROVE Loads("read")
  <2>1. c.call = "load" /\ c.side = "read" /\ c.flag = "opened"
    BY <1>9, SetupIs DEF Call, c
  <2>2. QED
    BY <1>2, <2>1
<1>10. ASSUME k = 7 PROVE Stores("read", "opened")
  <2>1. c.call = "store" /\ c.side = "read" /\ c.flag = "opened"
    BY <1>10, SetupIs DEF Call, c
  <2>2. QED
    BY <1>2, <2>1
<1>11. ASSUME k = 8 PROVE Configures("read")
  <2>1. c.call = "config" /\ c.side = "read" /\ c.flag = "none"
    BY <1>11, SetupIs DEF Call, c
  <2>2. QED
    BY <1>2, <2>1
<1>12. ASSUME k = 9 PROVE Creates("write")
  <2>1. c.call = "create" /\ c.side = "write" /\ c.flag = "none"
    BY <1>12, SetupIs DEF Call, c
  <2>2. QED
    BY <1>2, <2>1
<1>13. ASSUME k = 10 PROVE Loads("write")
  <2>1. c.call = "load" /\ c.side = "write" /\ c.flag = "created"
    BY <1>13, SetupIs DEF Call, c
  <2>2. QED
    BY <1>2, <2>1
<1>14. ASSUME k = 11 PROVE Stores("write", "created")
  <2>1. c.call = "store" /\ c.side = "write" /\ c.flag = "created"
    BY <1>14, SetupIs DEF Call, c
  <2>2. QED
    BY <1>2, <2>1
<1>15. ASSUME k = 12 PROVE Creates("read")
  <2>1. c.call = "create" /\ c.side = "read" /\ c.flag = "none"
    BY <1>15, SetupIs DEF Call, c
  <2>2. QED
    BY <1>2, <2>1
<1>16. ASSUME k = 13 PROVE Loads("read")
  <2>1. c.call = "load" /\ c.side = "read" /\ c.flag = "created"
    BY <1>16, SetupIs DEF Call, c
  <2>2. QED
    BY <1>2, <2>1
<1>17. ASSUME k = 14 PROVE Stores("read", "created")
  <2>1. c.call = "store" /\ c.side = "read" /\ c.flag = "created"
    BY <1>17, SetupIs DEF Call, c
  <2>2. QED
    BY <1>2, <2>1
<1>18. ASSUME k = 15 PROVE Starts("write")
  <2>1. c.call = "start" /\ c.side = "write" /\ c.flag = "none"
    BY <1>18, SetupIs DEF Call, c
  <2>2. QED
    BY <1>2, <2>1
<1>19. ASSUME k = 16 PROVE Starts("read")
  <2>1. c.call = "start" /\ c.side = "read" /\ c.flag = "none"
    BY <1>19, SetupIs DEF Call, c
  <2>2. QED
    BY <1>2, <2>1
<1>20. \/ k = 1 \/ k = 2 \/ k = 3 \/ k = 4 \/ k = 5 \/ k = 6 \/ k = 7 \/ k = 8
       \/ k = 9 \/ k = 10 \/ k = 11 \/ k = 12 \/ k = 13 \/ k = 14 \/ k = 15 \/ k = 16
  BY <1>1
<1>21. ASSUME k \in {4, 8} PROVE UNCHANGED <<copy, file, fd, state, task>>
  BY <1>7, <1>11, <1>21 DEF Configures
<1>22. k \in {2, 10} <=> k = 2 \/ k = 10
  OBVIOUS
<1>23. k \in {6, 13} <=> k = 6 \/ k = 13
  OBVIOUS
<1>24. k \in {4, 8} <=> k = 4 \/ k = 8
  OBVIOUS
<1> DEFINE Goal ==
       \/ k = 1 /\ Opens("write")
       \/ k = 5 /\ Opens("read")
       \/ k \in {4, 8} /\ UNCHANGED <<copy, file, fd, state, task>>
       \/ k \in {2, 10} /\ Loads("write")
       \/ k \in {6, 13} /\ Loads("read")
       \/ k = 3 /\ Stores("write", "opened")
       \/ k = 7 /\ Stores("read", "opened")
       \/ k = 11 /\ Stores("write", "created")
       \/ k = 14 /\ Stores("read", "created")
       \/ k = 9 /\ Creates("write")
       \/ k = 12 /\ Creates("read")
       \/ k = 15 /\ Starts("write")
       \/ k = 16 /\ Starts("read")
<1>25. (k = 1 => Goal) /\ (k = 2 => Goal) /\ (k = 3 => Goal) /\ (k = 4 => Goal)
  BY <1>4, <1>5, <1>6, <1>21, <1>22, <1>24, Zenon
<1>26. (k = 5 => Goal) /\ (k = 6 => Goal) /\ (k = 7 => Goal) /\ (k = 8 => Goal)
  BY <1>8, <1>9, <1>10, <1>21, <1>23, <1>24, Zenon
<1>27. (k = 9 => Goal) /\ (k = 10 => Goal) /\ (k = 11 => Goal) /\ (k = 12 => Goal)
  BY <1>12, <1>13, <1>14, <1>15, <1>22, Zenon
<1>28. (k = 13 => Goal) /\ (k = 14 => Goal) /\ (k = 15 => Goal) /\ (k = 16 => Goal)
  BY <1>16, <1>17, <1>18, <1>19, <1>23, Zenon
<1>29. Goal
  <2> HIDE DEF Goal
  <2>1. QED
    BY <1>20, <1>25, <1>26, <1>27, <1>28
<1>30. QED
  BY <1>1, <1>3, <1>29

LEMMA AllButLast ==
  ASSUME NEW S, NEW s \in Seq(S), Len(s) \in Nat \ {0}
  PROVE  /\ SubSeq(s, 1, Len(s) - 1) \in Seq(S) /\ Len(SubSeq(s, 1, Len(s) - 1)) = Len(s) - 1
         /\ \A i \in 1..Len(s) - 1 : SubSeq(s, 1, Len(s) - 1)[i] = s[i]
<1> DEFINE n == Len(s) - 1
<1>1. n \in Nat /\ n < Len(s)
  OBVIOUS
<1> HIDE DEF n
<1>2. /\ SubSeq(s, 1, n) \in Seq(S) /\ Len(SubSeq(s, 1, n)) = n
      /\ \A i \in 1..n : SubSeq(s, 1, n)[i] = s[i]
  BY <1>1
<1>3. QED
  BY <1>2 DEF n

LEMMA Innermost ==
  ASSUME TypeOK, frames # <<>>
  PROVE  LET n == Len(frames)
         IN /\ n \in Nat \ {0} /\ top = frames[n] /\ top \in FrameType
            /\ \A x \in FrameType :
                 LET f == Front(frames) \o <<x>>
                 IN /\ f \in Seq(FrameType) /\ Len(f) = n /\ f[n] = x
                    /\ \A i \in 1..n - 1 : f[i] = frames[i]
            /\ Front(frames) \in Seq(FrameType) /\ Len(Front(frames)) = n - 1
            /\ \A i \in 1..n - 1 : Front(frames)[i] = frames[i]
<1> DEFINE n == Len(frames)
<1>1. n \in Nat \ {0} /\ frames \in Seq(FrameType)
  BY DEF TypeOK
<1>2. top = frames[n] /\ top \in FrameType
  BY <1>1 DEF top, Last
<1>3. /\ Front(frames) \in Seq(FrameType) /\ Len(Front(frames)) = n - 1
      /\ \A i \in 1..n - 1 : Front(frames)[i] = frames[i]
  BY <1>1, AllButLast, Zenon DEF Front
<1>4. ASSUME NEW x \in FrameType
      PROVE  /\ Front(frames) \o <<x>> \in Seq(FrameType)
             /\ Len(Front(frames) \o <<x>>) = n /\ (Front(frames) \o <<x>>)[n] = x
             /\ \A i \in 1..n - 1 : (Front(frames) \o <<x>>)[i] = frames[i]
  <2> DEFINE g == Front(frames)
  <2> HIDE DEF g, n, FrameType
  <2>1. <<x>> \in Seq(FrameType) /\ Len(<<x>>) = 1 /\ <<x>>[1] = x
    OBVIOUS
  <2>2. g \in Seq(FrameType) /\ Len(g) = n - 1 /\ \A i \in 1..n - 1 : g[i] = frames[i]
    BY <1>3 DEF g
  <2>3. /\ g \o <<x>> \in Seq(FrameType) /\ Len(g \o <<x>>) = n /\ (g \o <<x>>)[n] = x
        /\ \A i \in 1..n - 1 : (g \o <<x>>)[i] = frames[i]
    BY <1>1, <2>1, <2>2 DEF n
  <2>4. QED
    BY <2>3 DEF g
<1>5. QED
  BY <1>1, <1>2, <1>3, <1>4

\* What a step of the innermost cleanup makes of the calls that are running.
Inner == Len(frames)
StepTo(item, step, c) ==
  /\ frames' \in Seq(FrameType) /\ Len(frames') = Inner
  /\ \A i \in 1..Inner - 1 : frames'[i] = frames[i]
  /\ frames'[Inner].item = item /\ frames'[Inner].step = step /\ frames'[Inner].copy = c
Popped ==
  /\ frames' \in Seq(FrameType) /\ Len(frames') = Inner - 1
  /\ \A i \in 1..Inner - 1 : frames'[i] = frames[i]
OnToNext ==
  \/ top.item < 4 /\ StepTo(top.item + 1, "check", top.copy)
  \/ top.item = 4 /\ Popped

LEMMA ItemsAre ==
  ASSUME TypeOK, frames # <<>>
  PROVE  /\ Inner \in Nat \ {0} /\ top = frames[Inner] /\ top \in FrameType
         /\ top.item \in 1..4 /\ Item.side \in Sides /\ Item.flag \in Flags
         /\ top.item = 1 => Item.side = "read"  /\ Item.flag = "opened"
         /\ top.item = 2 => Item.side = "write" /\ Item.flag = "opened"
         /\ top.item = 3 => Item.side = "write" /\ Item.flag = "created"
         /\ top.item = 4 => Item.side = "read"  /\ Item.flag = "created"
<1>1. Inner \in Nat \ {0} /\ top = frames[Inner] /\ top \in FrameType
  BY Innermost, Zenon DEF Inner
<1>2. top.item \in 1..4
  BY <1>1 DEF FrameType
<1>3. QED
  BY <1>1, <1>2 DEF Item, Items, Sides, Flags

LEMMA GoOnEffect ==
  ASSUME TypeOK, frames # <<>>, NEW item \in 1..4, NEW step \in {"check", "act", "load", "store"},
         NEW c \in SUBSET Flags,
         frames' = Front(frames) \o <<[top EXCEPT !.item = item, !.step = step, !.copy = c]>>
  PROVE  StepTo(item, step, c)
<1> DEFINE x == [top EXCEPT !.item = item, !.step = step, !.copy = c]
<1>1. top \in FrameType
  BY ItemsAre
<1>2. x \in FrameType /\ x.item = item /\ x.step = step /\ x.copy = c
  BY <1>1 DEF FrameType
<1> HIDE DEF x
<1>3. /\ Front(frames) \o <<x>> \in Seq(FrameType) /\ Len(Front(frames) \o <<x>>) = Inner
      /\ (Front(frames) \o <<x>>)[Inner] = x
      /\ \A i \in 1..Inner - 1 : (Front(frames) \o <<x>>)[i] = frames[i]
  BY <1>2, Innermost, Zenon DEF Inner
<1>4. frames' = Front(frames) \o <<x>>
  BY DEF x
<1>5. QED
  BY <1>2, <1>3, <1>4, Zenon DEF StepTo

LEMMA NextItemEffect ==
  ASSUME TypeOK, frames # <<>>, NextItem
  PROVE  OnToNext /\ main' \in {main, "returned"}
<1>1. /\ top \in FrameType /\ top.item \in 1..4 /\ Len(Items) = 4
      /\ top.step \in {"check", "act", "load", "store"} /\ top.copy \in SUBSET Flags
  BY ItemsAre DEF Items, FrameType
<1>2. CASE top.item < 4
  <2>1. frames' = Front(frames) \o <<[top EXCEPT !.item = @ + 1, !.step = "check"]>>
    BY <1>1, <1>2 DEF NextItem
  <2>2. [top EXCEPT !.item = @ + 1, !.step = "check"] =
          [top EXCEPT !.item = top.item + 1, !.step = "check", !.copy = top.copy]
    BY <1>1 DEF FrameType
  <2>3. top.item + 1 \in 1..4
    BY <1>1, <1>2
  <2>4. StepTo(top.item + 1, "check", top.copy)
    BY <1>1, <2>1, <2>2, <2>3, GoOnEffect
  <2>5. QED
    BY <1>1, <1>2, <2>4 DEF OnToNext, NextItem
<1>3. CASE top.item = 4
  <2>1. frames' = Front(frames)
    BY <1>1, <1>3 DEF NextItem
  <2>2. Popped
    BY <2>1, Innermost, Zenon DEF Popped, Inner
  <2>3. QED
    BY <1>1, <1>3, <2>2 DEF OnToNext, NextItem
<1>4. QED
  BY <1>1, <1>2, <1>3

LEMMA CleanupEffect ==
  ASSUME TypeOK, CleanupAll
  PROVE  /\ frames # <<>> /\ UNCHANGED <<k, copy, fd, sent, early>>
         /\ main' \in {main, "returned"}
         /\ \/ /\ top.step = "check" /\ UNCHANGED <<file, state, task, stray>>
               /\ IF Item.flag \in state[Item.side] THEN StepTo(top.item, "act", top.copy)
                  ELSE OnToNext
            \/ /\ top.step = "act" /\ UNCHANGED state /\ StepTo(top.item, "load", top.copy)
               /\ \/ Item.flag = "opened" /\ Close(Item.side) /\ UNCHANGED task
                  \/ /\ Item.flag = "created" /\ UNCHANGED <<file, stray>>
                     /\ task' = [task EXCEPT ![Item.side] = "gone"]
            \/ /\ top.step = "load" /\ UNCHANGED <<file, state, task, stray>>
               /\ StepTo(top.item, "store", state[Item.side])
            \/ /\ top.step = "store" /\ OnToNext /\ UNCHANGED <<file, task, stray>>
               /\ state' = [state EXCEPT ![Item.side] = top.copy \ {Item.flag}]
<1>1. frames # <<>>
  BY DEF CleanupAll, CheckFlag, CloseOrDelete, LoadFlags, StoreFlags
<1>2. /\ top \in FrameType /\ top.item \in 1..4 /\ top.copy \in SUBSET Flags
      /\ Item.side \in Sides /\ state[Item.side] \in SUBSET Flags
  BY <1>1, ItemsAre DEF FrameType, TypeOK
<1>3. ASSUME NEW step \in {"check", "act", "load", "store"}, GoOn(step)
      PROVE  StepTo(top.item, step, top.copy)
  <2>1. [top EXCEPT !.step = step] =
          [top EXCEPT !.item = top.item, !.step = step, !.copy = top.copy]
    BY <1>2 DEF FrameType
  <2>2. frames' = Front(frames) \o
          <<[top EXCEPT !.item = top.item, !.step = step, !.copy = top.copy]>>
    BY <1>3, <2>1, Zenon DEF GoOn
  <2>3. QED
    BY <1>1, <1>2, <2>2, GoOnEffect
<1>4. CASE CheckFlag
  <2>1. CASE Item.flag \in state[Item.side]
    BY <1>1, <1>3, <1>4, <2>1 DEF CheckFlag
  <2>2. CASE Item.flag \notin state[Item.side]
    BY <1>1, <1>4, <2>2, NextItemEffect DEF CheckFlag
  <2>3. QED
    BY <2>1, <2>2
<1>5. CASE CloseOrDelete
  BY <1>1, <1>3, <1>5 DEF CloseOrDelete
<1>6. CASE LoadFlags
  <2> DEFINE c == state[Item.side]
  <2>1. [top EXCEPT !.step = "store", !.copy = c] =
          [top EXCEPT !.item = top.item, !.step = "store", !.copy = c]
    BY <1>2 DEF FrameType
  <2>2. frames' = Front(frames) \o
          <<[top EXCEPT !.item = top.item, !.step = "store", !.copy = c]>>
    BY <1>6, <2>1, Zenon DEF LoadFlags
  <2>3. StepTo(top.item, "store", c)
    <3> HIDE DEF c
    <3>1. c \in SUBSET Flags
      BY <1>2 DEF c
    <3>2. QED
      BY <1>1, <1>2, <2>2, <3>1, GoOnEffect
  <2>4. QED
    BY <1>1, <1>6, <2>3 DEF LoadFlags
<1>7. CASE StoreFlags
  BY <1>1, <1>7, NextItemEffect DEF StoreFlags, Cleared
<1>8. QED
  BY <1>4, <1>5, <1>6, <1>7 DEF CleanupAll

(***************************************************************************)
(* Files                                                                   *)
(***************************************************************************)
LEMMA LeastNatural ==
  ASSUME NEW T, T \subseteq Nat, T # {}
  PROVE  \E m \in T : \A n \in T : m <= n
<1> DEFINE R == OpToRel(<, Nat)
<1>1. IsWellFoundedOn(R, Nat)
  BY NatLessThanWellFounded
<1>2. \A x, y \in Nat : x < y => <<x, y>> \in R
  BY Zenon DEF OpToRel
<1> HIDE DEF R
<1>3. PICK m \in T : \A n \in T : ~ (<<n, m>> \in R)
  BY <1>1, WFMin
<1>4. ASSUME NEW n \in T PROVE m <= n
  <2>1. m \in Nat /\ n \in Nat
    OBVIOUS
  <2>2. ~ (n < m)
    BY <1>2, <1>3, <2>1
  <2>3. QED
    BY <2>1, <2>2
<1>5. QED
  BY <1>4

LEMMA OpensEffect ==
  ASSUME TypeOK, NEW s \in Sides, Opens(s)
  PROVE  \E n \in Files : /\ n \in Nat /\ file[n] = "free"
                          /\ file' = [file EXCEPT ![n] = s] /\ fd' = [fd EXCEPT ![s] = n]
<1> DEFINE S == {m \in Files : ~ IsOpen(m)}
<1>1. S \subseteq Nat /\ S # {}
  BY FilesAssumption DEF Opens
<1>2. PICK n \in S : \A m \in S : n <= m
  <2> HIDE DEF S
  <2>1. QED
    BY <1>1, LeastNatural
<1>3. Min(S) \in S
  BY <1>2 DEF Min
<1>4. file' = [file EXCEPT ![Min(S)] = s] /\ fd' = [fd EXCEPT ![s] = Min(S)]
  BY DEF Opens
<1>5. \A m \in S : m \in Files /\ m \in Nat /\ file[m] = "free"
  BY FilesAssumption DEF IsOpen
<1> HIDE DEF S
<1>6. QED
  BY <1>3, <1>4, <1>5

LEMMA CloseEffect ==
  ASSUME TypeOK, NEW s \in Sides, Close(s)
  PROVE  /\ file' \in [Files -> Sides \cup {"free"}] /\ stray' \in BOOLEAN
         /\ \A m \in Files : file'[m] = IF m = fd[s] THEN "free" ELSE file[m]
         /\ (fd[s] \in Files /\ file[fd[s]] \notin {"free", s}) \/ stray' = stray
BY DEF Close, IsOpen, TypeOK

(***************************************************************************)
(* The invariant is kept                                                   *)
(***************************************************************************)
LEMMA InitInv == Init => IInv
<1> SUFFICES ASSUME Init PROVE IInv
  OBVIOUS
<1>1. TypeOK
  <2>1. frames \in Seq(FrameType)
    BY DEF Init
  <2>2. /\ copy \in [Sides \cup {"main"} -> SUBSET Flags] /\ state \in [Sides -> SUBSET Flags]
        /\ file \in [Files -> Sides \cup {"free"}] /\ fd \in [Sides -> Files \cup {-1}]
    BY DEF Init
  <2>3. task \in [Sides -> {"none", "created", "wait", "use", "check", "close", "load", "store",
                            "gone"}]
    BY DEF Init
  <2>4. main = "setup" /\ k \in 1..17 /\ sent \in Nat
    BY DEF Init
  <2>5. early \in BOOLEAN /\ stray \in BOOLEAN
    BY DEF Init
  <2>6. QED
    BY <2>1, <2>2, <2>3, <2>4, <2>5 DEF TypeOK
<1>2. frames = <<>> /\ Len(frames) = 0 /\ k = 1 /\ main = "setup"
  BY DEF Init
<1>3. \A s \in Sides : fd[s] = -1 /\ state[s] = {} /\ task[s] = "none"
  BY DEF Init
<1>4. QED
  BY <1>1, <1>2, <1>3
     DEF Init, IInv, MainInv, FrameInv, BeforeRead, SharedInv, Shared, FileInv, Sides

LEMMA TypeStep ==
  ASSUME TypeOK, MainInv, [Next]_vars
  PROVE  TypeOK'
<1> USE DEF Sides, Flags
<1>1. CASE Main
  <2> USE MainSteps, <1>1
  <2>1. frames' \in Seq(FrameType) /\ k' \in 1..17 /\ main' \in {"setup", "pause"}
    BY SMTT(30) DEF TypeOK, FrameType
  <2>2. ASSUME NEW s \in Sides, Opens(s) PROVE TypeOK'
    <3>1. PICK n \in Files : file' = [file EXCEPT ![n] = s] /\ fd' = [fd EXCEPT ![s] = n]
      BY <2>2, OpensEffect
    <3>2. file' \in [Files -> Sides \cup {"free"}] /\ fd' \in [Sides -> Files \cup {-1}]
      BY <3>1 DEF TypeOK
    <3>3. QED
      BY <2>1, <2>2, <3>2 DEF TypeOK, Opens, FrameType
  <2>3. ASSUME NEW s \in Sides, Loads(s) PROVE TypeOK'
    BY <2>1, <2>3 DEF TypeOK, Loads, FrameType
  <2>4. ASSUME NEW s \in Sides, NEW f \in Flags, Stores(s, f) PROVE TypeOK'
    <3>1. copy.main \cup {f} \in SUBSET Flags
      BY DEF TypeOK
    <3>2. state' \in [Sides -> SUBSET Flags]
      BY <2>4, <3>1 DEF TypeOK, Stores
    <3>3. QED
      BY <2>1, <2>4, <3>2 DEF TypeOK, Stores, FrameType
  <2>5. ASSUME NEW s \in Sides, Creates(s) \/ Starts(s) PROVE TypeOK'
    BY <2>1, <2>5 DEF TypeOK, Creates, Starts, FrameType
  <2>6. CASE UNCHANGED <<copy, file, fd, state, task>>
    BY <2>1, <2>6 DEF TypeOK, FrameType
  <2>7. QED
    BY <2>2, <2>3, <2>4, <2>5, <2>6
<1>2. CASE MainFails
  <2>1. Frame("main") \in FrameType
    BY DEF Frame, FrameType
  <2>2. <<Frame("main")>> \in Seq(FrameType)
    BY <2>1
  <2>3. QED
    BY <1>2, <2>2 DEF MainFails, TypeOK
<1>3. CASE CleanupAll
  <2>1. frames' \in Seq(FrameType) /\ main' \in {"setup", "pause", "error", "returned"}
    BY <1>3, CleanupEffect, Zenon DEF OnToNext, StepTo, Popped, TypeOK
  <2>2. file' \in [Files -> Sides \cup {"free"}] /\ stray' \in BOOLEAN
    BY <1>3, CleanupEffect, CloseEffect, ItemsAre DEF TypeOK
  <2>3. state' \in [Sides -> SUBSET Flags]
    <3>1. top.copy \in SUBSET Flags /\ Item.side \in Sides
      BY <1>3, CleanupEffect, ItemsAre DEF FrameType
    <3>2. state' = state \/ state' = [state EXCEPT ![Item.side] = top.copy \ {Item.flag}]
      BY <1>3, CleanupEffect
    <3>3. QED
      BY <3>1, <3>2 DEF TypeOK
  <2>4. task' = task \/ task' = [task EXCEPT ![Item.side] = "gone"]
    BY <1>3, CleanupEffect
  <2>5. UNCHANGED <<k, copy, fd, sent, early>>
    BY <1>3, CleanupEffect
  <2>6. QED
    BY <2>1, <2>2, <2>3, <2>4, <2>5 DEF TypeOK
<1>4. ASSUME NEW sig \in Signals, catch_signal(sig) PROVE TypeOK'
  <2>1. Frame(sig) \in FrameType
    BY DEF Frame, FrameType
  <2>2. Append(frames, Frame(sig)) \in Seq(FrameType)
    BY <2>1 DEF TypeOK
  <2>3. QED
    BY <1>4, <2>2 DEF catch_signal, TypeOK
<1>5. ASSUME NEW s \in Sides, Task(s) PROVE TypeOK'
  <2>1. CASE Wait(s) \/ Use(s) \/ Leave(s) \/ Check(s) \/ LoadOwn(s)
    BY <2>1, SMTT(30) DEF Wait, Use, Leave, Check, LoadOwn, Goes, Stay, TypeOK
  <2>2. CASE CloseOwn(s)
    BY <2>2, CloseEffect DEF CloseOwn, Goes, Stay, TypeOK
  <2>3. CASE StoreOwn(s)
    <3>1. copy[s] \ {"opened"} \in SUBSET Flags
      BY DEF TypeOK
    <3>2. state' \in [Sides -> SUBSET Flags]
      BY <2>3, <3>1 DEF StoreOwn, Cleared, TypeOK
    <3>3. QED
      BY <2>3, <3>2 DEF StoreOwn, Goes, Stay, TypeOK
  <2>4. QED
    BY <1>5, <2>1, <2>2, <2>3 DEF Task
<1>6. CASE UNCHANGED vars
  BY <1>6 DEF vars, TypeOK
<1>7. QED
  BY <1>1, <1>2, <1>3, <1>4, <1>5, <1>6 DEF Next, Paused

LEMMA MainKeeps ==
  ASSUME IInv, TypeOK', Main
  PROVE  (MainInv /\ FrameInv /\ BeforeRead /\ SharedInv /\ FileInv)' /\ ~ stray'
<1> USE DEF Sides, Flags
<1>0. TypeOK /\ MainInv /\ BeforeRead /\ SharedInv /\ FileInv /\ ~ stray
  BY DEF IInv
<1>1. /\ main = "setup" /\ frames = <<>> /\ Len(frames') = 0 /\ k \in 1..16 /\ k' = k + 1
      /\ UNCHANGED <<frames, early, stray>> /\ main' = (IF k = 16 THEN "pause" ELSE main)
  BY <1>0, MainSteps
<1>2. FrameInv' /\ ~ Clearing' /\ ~ Clearing
  BY <1>1 DEF FrameInv, Clearing
<1>3. CASE k = 1 /\ Opens("write")
  <2>1. PICK n \in Files : n \in Nat /\ file' = [file EXCEPT ![n] = "write"]
                           /\ fd' = [fd EXCEPT !["write"] = n]
    BY <1>0, <1>3, OpensEffect
  <2>2. /\ file'[n] = "write" /\ fd'.write = n /\ fd'.read = fd.read /\ k' = 2
        /\ UNCHANGED <<state, task>>
    BY <1>0, <1>1, <1>3, <2>1 DEF TypeOK, Opens
  <2>3. QED
    BY <1>0, <1>1, <1>2, <2>1, <2>2 DEF MainInv, BeforeRead, SharedInv, Shared, FileInv
<1>4. CASE k = 5 /\ Opens("read")
  <2>1. PICK n \in Files : n \in Nat /\ file[n] = "free" /\ file' = [file EXCEPT ![n] = "read"]
                           /\ fd' = [fd EXCEPT !["read"] = n]
    BY <1>0, <1>4, OpensEffect
  <2>2. /\ file'[n] = "read" /\ fd'.read = n /\ fd'.write = fd.write /\ k' = 6
        /\ UNCHANGED <<state, task>> /\ \A m \in Files : m # n => file'[m] = file[m]
    BY <1>0, <1>1, <1>4, <2>1 DEF TypeOK, Opens
  <2>3. fd.write \in Files /\ fd.write # -1
    BY <1>0, <1>4 DEF MainInv, TypeOK
  <2>4. fd.write = n => "opened" \notin state.write /\ early
    BY <1>0, <1>1, <1>2, <1>4, <2>1 DEF BeforeRead
  <2>5. SharedInv'
    BY <1>0, <1>1, <1>4, <2>2, <2>4 DEF SharedInv, Shared, MainInv
  <2>6. FileInv'
    BY <1>0, <1>1, <1>4, <2>2, <2>3 DEF FileInv, Shared
  <2>7. QED
    BY <1>0, <1>1, <1>2, <2>1, <2>2, <2>5, <2>6 DEF MainInv, BeforeRead
<1>5. CASE k \in {4, 8} /\ UNCHANGED <<copy, file, fd, state, task>>
  BY <1>0, <1>1, <1>2, <1>5 DEF MainInv, BeforeRead, SharedInv, Shared, FileInv
<1>6. CASE (k \in {2, 10} /\ Loads("write")) \/ (k \in {6, 13} /\ Loads("read"))
  <2>1. /\ UNCHANGED <<file, fd, state, task>>
        /\ k \in {2, 10} => copy'.main = state.write
    BY <1>0, <1>6 DEF Loads, TypeOK
  <2>2. QED
    BY <1>0, <1>1, <1>2, <1>6, <2>1 DEF MainInv, BeforeRead, SharedInv, Shared, FileInv
<1>7. CASE (k \in {3, 11} /\ \E f \in Flags : (f = "opened" <=> k = 3) /\ Stores("write", f))
           \/ (k \in {7, 14} /\ \E f \in Flags : Stores("read", f))
  <2>1. /\ UNCHANGED <<copy, file, fd, task>>
        /\ k \in {7, 14} => state'.write = state.write
        /\ k = 11 => state'.write = copy.main \cup {"created"}
    BY <1>0, <1>7 DEF Stores, TypeOK
  <2>2. QED
    BY <1>0, <1>1, <1>2, <1>7, <2>1 DEF MainInv, BeforeRead, SharedInv, Shared, FileInv
<1>8. CASE \E s \in Sides : k \in {9, 12, 15, 16} /\ (Creates(s) \/ Starts(s))
  <2>1. UNCHANGED <<copy, file, fd, state>> /\ (task'.write = "close" => task.write = "close")
    BY <1>0, <1>8 DEF Creates, Starts, TypeOK
  <2>2. k \in {9, 12, 15, 16}
    BY <1>8
  <2>3. MainInv' /\ BeforeRead'
    BY <1>0, <1>1, <2>1, <2>2 DEF MainInv, BeforeRead
  <2>4. SharedInv' /\ FileInv'
    BY <1>0, <1>1, <2>1, <2>2 DEF SharedInv, Shared, FileInv
  <2>5. QED
    BY <1>0, <1>1, <1>2, <2>3, <2>4
<1>9. QED
  BY <1>0, <1>1, <1>3, <1>4, <1>5, <1>6, <1>7, <1>8, MainSteps

LEMMA FailKeeps ==
  ASSUME IInv, MainFails
  PROVE  (MainInv /\ FrameInv /\ BeforeRead /\ SharedInv /\ FileInv)' /\ ~ stray'
<1>1. /\ main = "setup" /\ main' = "error" /\ frames' = <<Frame("main")>>
      /\ UNCHANGED <<k, copy, file, fd, state, task, sent, early, stray>>
  BY DEF MainFails
<1>2. Len(frames') = 1 /\ frames'[1].item = 1
  BY <1>1 DEF Frame
<1>3. \A i \in 1..Len(frames') : frames'[i].item = 1
  BY <1>2
<1>4. QED
  BY <1>1, <1>3 DEF IInv, MainInv, FrameInv, BeforeRead, SharedInv, Shared, FileInv

LEMMA SignalKeeps ==
  ASSUME IInv, NEW sig \in Signals, catch_signal(sig)
  PROVE  (MainInv /\ FrameInv /\ BeforeRead /\ SharedInv /\ FileInv)' /\ ~ stray'
<1>1. /\ frames' = Append(frames, Frame(sig)) /\ early' = (early \/ main = "setup")
      /\ UNCHANGED <<main, k, copy, file, fd, state, task, stray>>
  BY DEF catch_signal
<1>2. frames \in Seq(FrameType) /\ Inner \in Nat
  BY DEF IInv, TypeOK, Inner
<1>3. Len(frames') = Inner + 1 /\ frames'[Inner + 1].item = 1
      /\ \A i \in 1..Inner : frames'[i] = frames[i]
  BY <1>1, <1>2 DEF Frame, Inner
<1>4. \A i \in 1..Len(frames') : i \in 1..Inner \/ i = Inner + 1
  BY <1>2, <1>3
<1>5. early => early'
  BY <1>1
<1>6. MainInv' /\ FrameInv'
  <2>1. MainInv'
    BY <1>1 DEF IInv, MainInv
  <2>2. FrameInv'
    BY <1>1, <1>3, <1>4 DEF IInv, FrameInv, Inner
  <2>3. QED
    BY <2>1, <2>2
<1>7. Clearing => Clearing'
  BY <1>2, <1>3 DEF Clearing, Inner
<1>8. BeforeRead'
  <2>1. k <= 3 => \A i \in 1..Len(frames') : frames'[i].item = 2 => frames'[i].step = "check"
    BY <1>1, <1>3, <1>4 DEF IInv, BeforeRead, Inner
  <2>2. QED
    BY <1>1, <1>5, <1>7, <2>1 DEF IInv, BeforeRead
<1>9. SharedInv'
  <2>1. Shared => \A i \in 1..Len(frames') : frames'[i].item = 2 => frames'[i].step = "check"
    BY <1>1, <1>3, <1>4 DEF IInv, SharedInv, Inner
  <2>2. QED
    BY <1>1, <1>5, <2>1 DEF IInv, SharedInv, Shared
<1>10. FileInv' /\ ~ stray'
  BY <1>1 DEF IInv, FileInv, Shared
<1>11. QED
  BY <1>6, <1>8, <1>9, <1>10

\* The tasks run when both lines have their numbers.
LEMMA TaskKeeps ==
  ASSUME IInv, NEW s \in Sides, Task(s)
  PROVE  (MainInv /\ FrameInv /\ BeforeRead /\ SharedInv /\ FileInv)' /\ ~ stray'
<1> USE DEF Sides, Flags
<1>0. TypeOK /\ MainInv /\ FrameInv /\ BeforeRead /\ SharedInv /\ FileInv /\ ~ stray
  BY DEF IInv
<1>1. task[s] \notin {"none", "gone"} /\ UNCHANGED <<main, k, frames, fd, sent, early>>
  BY DEF Task, Wait, Use, Leave, Check, CloseOwn, LoadOwn, StoreOwn, Goes, Stay
<1>2. k > 9
  BY <1>0, <1>1 DEF MainInv, TypeOK
<1>3. UNCHANGED copy.main
  BY <1>0 DEF Task, Wait, Use, Leave, Check, CloseOwn, LoadOwn, StoreOwn, Goes, Stay, TypeOK
<1>4. "opened" \notin state.write => "opened" \notin state'.write
  <2>1. UNCHANGED state \/ state' = [state EXCEPT ![s] = copy[s] \ {"opened"}]
    BY DEF Task, Wait, Use, Leave, Check, CloseOwn, LoadOwn, StoreOwn, Goes, Stay, Cleared
  <2>2. QED
    BY <1>0, <2>1 DEF TypeOK
<1>5. task'.write = "close" => task.write = "close" \/ "opened" \in state.write
  BY <1>0 DEF Task, Wait, Use, Leave, Check, CloseOwn, LoadOwn, StoreOwn, Goes, Stay, TypeOK
<1>6. MainInv' /\ BeforeRead'
  BY <1>0, <1>1, <1>2 DEF MainInv, BeforeRead, TypeOK
<1>7. FrameInv'
  BY <1>0, <1>1, <1>4 DEF FrameInv
<1>8. SharedInv'
  BY <1>0, <1>1, <1>3, <1>4, <1>5 DEF SharedInv, Shared
<1>9. FileInv' /\ ~ stray'
  <2>1. CASE UNCHANGED <<file, stray>>
    BY <1>0, <1>1, <2>1 DEF FileInv, Shared
  <2>2. CASE CloseOwn(s)
    <3>1. Close(s) /\ (Shared => s # "write")
      BY <1>0, <2>2 DEF CloseOwn, Goes, SharedInv
    <3>2. fd[s] \notin Files \/ file[fd[s]] \in {"free", s}
      BY <1>0, <1>2, <3>1 DEF FileInv, TypeOK
    <3>3. /\ \A m \in Files : file'[m] = IF m = fd[s] THEN "free" ELSE file[m]
          /\ ~ stray'
      BY <1>0, <3>1, <3>2, CloseEffect
    <3>4. fd.write \in Files /\ fd.read \in Files
      BY <1>0, <1>2 DEF MainInv, TypeOK
    <3>5. QED
      BY <1>0, <1>1, <1>2, <3>3, <3>4 DEF FileInv, Shared
  <2>3. QED
    BY <2>1, <2>2 DEF Task, Wait, Use, Leave, Check, LoadOwn, StoreOwn
<1>10. QED
  BY <1>6, <1>7, <1>8, <1>9

LEMMA CleanupKeeps ==
  ASSUME IInv, CleanupAll
  PROVE  (MainInv /\ FrameInv /\ BeforeRead /\ SharedInv /\ FileInv)' /\ ~ stray'
<1> USE DEF Sides, Flags
<1>0. TypeOK /\ MainInv /\ FrameInv /\ BeforeRead /\ SharedInv /\ FileInv /\ ~ stray
  BY DEF IInv
<1>1. frames # <<>> /\ UNCHANGED <<k, copy, fd, sent, early>> /\ main' \in {main, "returned"}
  BY <1>0, CleanupEffect
<1>2. /\ Inner \in Nat \ {0} /\ top = frames[Inner] /\ top.item \in 1..4
      /\ Item.side \in Sides /\ Item.flag \in Flags
      /\ top.item = 1 => Item.side = "read"  /\ Item.flag = "opened"
      /\ top.item = 2 => Item.side = "write" /\ Item.flag = "opened"
      /\ top.item = 3 => Item.side = "write" /\ Item.flag = "created"
      /\ top.item = 4 => Item.side = "read"  /\ Item.flag = "created"
  BY <1>0, <1>1, ItemsAre
<1>3. Inner = Len(frames) /\ \A i \in 1..Inner : i \in 1..Inner - 1 \/ i = Inner
  BY <1>2 DEF Inner
<1>4. /\ top.item >= 3 => "opened" \notin state.write
      /\ top.item = 3 /\ top.step = "store" => "opened" \notin top.copy
      /\ \A i \in 1..Inner - 1 : frames[i].item >= 3 =>
           /\ "opened" \notin state.write
           /\ frames[i].item = 3 /\ frames[i].step = "store" => "opened" \notin frames[i].copy
  BY <1>0, <1>2, <1>3 DEF FrameInv
<1>5. k <= 3 \/ Shared =>
        /\ "opened" \notin state.write
        /\ top.item = 2 => top.step = "check"
        /\ \A i \in 1..Inner - 1 : frames[i].item = 2 => frames[i].step = "check"
  BY <1>0, <1>2, <1>3 DEF BeforeRead, SharedInv
<1>6. /\ fd.write \in Files <=> k > 1
      /\ fd.read \in Files <=> k > 5
  BY <1>0, FilesAssumption DEF MainInv, TypeOK
<1> DEFINE Check1 == /\ top.step = "check" /\ UNCHANGED <<file, state, task, stray>>
                     /\ Item.flag \in state[Item.side] /\ StepTo(top.item, "act", top.copy)
           Check2 == /\ top.step = "check" /\ UNCHANGED <<file, state, task, stray>>
                     /\ Item.flag \notin state[Item.side] /\ OnToNext
           Act    == /\ top.step = "act" /\ UNCHANGED state /\ StepTo(top.item, "load", top.copy)
                     /\ \/ Item.flag = "opened" /\ Close(Item.side) /\ UNCHANGED task
                        \/ /\ Item.flag = "created" /\ UNCHANGED <<file, stray>>
                           /\ task' = [task EXCEPT ![Item.side] = "gone"]
           Load   == /\ top.step = "load" /\ UNCHANGED <<file, state, task, stray>>
                     /\ StepTo(top.item, "store", state[Item.side])
           Store  == /\ top.step = "store" /\ OnToNext /\ UNCHANGED <<file, task, stray>>
                     /\ state' = [state EXCEPT ![Item.side] = top.copy \ {Item.flag}]
<1>7. Check1 \/ Check2 \/ Act \/ Load \/ Store
  BY <1>0, CleanupEffect, Zenon
<1>8. "opened" \notin state.write => "opened" \notin state'.write
  BY <1>0, <1>2, <1>4, <1>7 DEF TypeOK
<1>9. /\ Len(frames') = Inner \/ Len(frames') = Inner - 1
      /\ \A i \in 1..Inner - 1 : frames'[i] = frames[i]
  BY <1>7 DEF OnToNext, StepTo, Popped
<1> DEFINE L == frames'[Inner]
<1>10. Len(frames') = Inner /\ L.item >= 3 =>
         /\ "opened" \notin state'.write
         /\ L.item = 3 /\ L.step = "store" => "opened" \notin L.copy
  <2>1. CASE Check1
    BY <1>2, <1>4, <1>8, <2>1 DEF StepTo
  <2>2. CASE Check2
    BY <1>2, <1>4, <1>8, <2>2 DEF OnToNext, StepTo, Popped
  <2>3. CASE Act
    BY <1>2, <1>4, <1>8, <2>3 DEF StepTo
  <2>4. CASE Load
    BY <1>2, <1>4, <1>8, <2>4 DEF StepTo
  <2>5. CASE Store
    <3>1. top.item = 2 => "opened" \notin state'.write
      BY <1>0, <1>2, <2>5 DEF TypeOK
    <3>2. QED
      BY <1>2, <1>4, <1>8, <2>5, <3>1 DEF OnToNext, StepTo, Popped
  <2>6. QED
    BY <1>7, <2>1, <2>2, <2>3, <2>4, <2>5
<1>11. (k <= 3 \/ Shared) /\ Len(frames') = Inner /\ L.item = 2 => L.step = "check"
  BY <1>2, <1>5, <1>7 DEF OnToNext, StepTo, Popped
<1>12. /\ fd.write \in Files => file'[fd.write] \in {file[fd.write], "free"}
       /\ fd.read \in Files => file'[fd.read] \in {file[fd.read], "free"}
       /\ ~ stray'
       /\ k \in 2..5 /\ file'[fd.write] # file[fd.write] => top.item = 2 /\ Act
  <2>1. CASE UNCHANGED <<file, stray>>
    BY <1>0, <2>1
  <2>2. CASE Act /\ Item.flag = "opened" /\ Close(Item.side)
    <3>1. top.item \in {1, 2}
      BY <1>2, <2>2
    <3>2. /\ \A m \in Files : file'[m] = IF m = fd[Item.side] THEN "free" ELSE file[m]
          /\ (fd[Item.side] \in Files /\ file[fd[Item.side]] \notin {"free", Item.side})
               \/ stray' = stray
      BY <1>0, <1>2, <2>2, CloseEffect
    <3>3. ~ Shared \/ Item.side = "read"
      BY <1>2, <1>5, <2>2, <3>1
    <3>4. fd[Item.side] \in Files => file[fd[Item.side]] \in {"free", Item.side}
      BY <1>0, <1>2, <1>6, <3>3 DEF FileInv
    <3>5. ~ stray'
      BY <1>0, <3>2, <3>4
    <3>6. k \in 2..5 => fd.read \notin Files /\ fd.write \in Files
      BY <1>6
    <3>7. QED
      BY <1>2, <2>2, <3>1, <3>2, <3>5, <3>6
  <2>3. QED
    BY <1>7, <2>1, <2>2
<1>13. MainInv'
  <2>1. \A s \in Sides : task'[s] \in {task[s], "gone"}
    BY <1>0, <1>2, <1>7 DEF TypeOK
  <2>2. QED
    BY <1>0, <1>1, <2>1 DEF MainInv
<1> HIDE DEF Check1, Check2, Load, Store, L
<1>14. FrameInv'
  <2>1. ASSUME NEW i \in 1..Len(frames'), frames'[i].item >= 3
        PROVE  /\ "opened" \notin state'.write
               /\ frames'[i].item = 3 /\ frames'[i].step = "store" =>
                    "opened" \notin frames'[i].copy
    <3>1. CASE i \in 1..Inner - 1
      BY <1>4, <1>8, <1>9, <2>1, <3>1
    <3>2. CASE i = Inner /\ Len(frames') = Inner
      BY <1>10, <2>1, <3>2 DEF L
    <3>3. QED
      BY <1>2, <1>9, <3>1, <3>2
  <2>2. QED
    BY <2>1 DEF FrameInv
<1>15. ASSUME k <= 3 \/ Shared, NEW i \in 1..Len(frames'), frames'[i].item = 2
       PROVE  frames'[i].step = "check"
  <2>1. CASE i \in 1..Inner - 1
    BY <1>5, <1>9, <1>15, <2>1
  <2>2. CASE i = Inner /\ Len(frames') = Inner
    BY <1>11, <1>15, <2>2 DEF L
  <2>3. QED
    BY <1>2, <1>9, <2>1, <2>2
<1>16. Clearing => Clearing' \/ "opened" \notin state'.write
  <2> SUFFICES ASSUME Clearing PROVE Clearing' \/ "opened" \notin state'.write
    OBVIOUS
  <2>1. PICK i \in 1..Inner : frames[i].item = 2 /\ frames[i].step \in {"load", "store"}
    BY DEF Clearing, Inner
  <2>2. CASE i \in 1..Inner - 1
    BY <1>2, <1>9, <2>1, <2>2 DEF Clearing
  <2>3. CASE i = Inner
    <3>1. top.item = 2 /\ top.step \in {"load", "store"}
      BY <1>2, <2>1, <2>3
    <3>2. CASE Load
      BY <1>2, <3>1, <3>2 DEF Load, StepTo, Clearing
    <3>3. CASE Store
      BY <1>0, <1>2, <3>1, <3>3 DEF Store, TypeOK
    <3>4. QED
      BY <1>7, <3>1, <3>2, <3>3 DEF Check1, Check2
  <2>4. QED
    BY <1>3, <2>2, <2>3
<1>17. top.item = 2 /\ Act => Clearing'
  BY <1>2 DEF StepTo, Clearing
<1> HIDE DEF Act
<1>18. BeforeRead'
  <2>1. k <= 3 => /\ "opened" \notin state'.write
                  /\ k > 1 => file'[fd.write] = "write"
                  /\ \A i \in 1..Len(frames') : frames'[i].item = 2 => frames'[i].step = "check"
    <3>1. k <= 3 /\ k > 1 => file'[fd.write] = file[fd.write]
      <4>1. k <= 3 => ~ (top.item = 2 /\ Act)
        BY <1>5 DEF Act
      <4>2. k <= 3 /\ k > 1 => k \in 2..5
        BY <1>0 DEF TypeOK
      <4>3. QED
        BY <1>12, <4>1, <4>2
    <3>2. QED
      BY <1>0, <1>5, <1>8, <1>15, <3>1 DEF BeforeRead
  <2>2. k \in 2..5 /\ main' = "setup" =>
          /\ file'[fd.write] = "free" => "opened" \notin state'.write \/ Clearing'
          /\ early
    <3>1. main' = "setup" => main = "setup" /\ early
      BY <1>0, <1>1 DEF MainInv
    <3>2. k \in 2..5 /\ main = "setup" /\ file[fd.write] = "free" =>
            "opened" \notin state'.write \/ Clearing'
      BY <1>0, <1>8, <1>16 DEF BeforeRead
    <3>3. k \in 2..5 /\ file'[fd.write] # file[fd.write] => Clearing'
      BY <1>12, <1>17
    <3>4. QED
      BY <3>1, <3>2, <3>3
  <2>3. k = 3 => "opened" \notin copy'.main
    BY <1>0, <1>1 DEF BeforeRead
  <2>4. QED
    BY <1>1, <2>1, <2>2, <2>3 DEF BeforeRead
<1>19. SharedInv'
  <2>1. task'.write = "close" => task.write = "close"
    BY <1>0, <1>2, <1>7 DEF TypeOK, Check1, Check2, Act, Load, Store
  <2>2. QED
    BY <1>0, <1>1, <1>8, <1>15, <2>1 DEF SharedInv, Shared
<1>20. FileInv'
  BY <1>0, <1>1, <1>6, <1>12 DEF FileInv, Shared
<1>21. QED
  BY <1>12, <1>13, <1>14, <1>18, <1>19, <1>20

(***************************************************************************)
(* The theorems                                                            *)
(***************************************************************************)
LEMMA Unchanged == ASSUME IInv, UNCHANGED vars PROVE IInv'
BY DEF vars, IInv, TypeOK, MainInv, FrameInv, BeforeRead, Clearing, Shared, SharedInv, FileInv

LEMMA StepInv == IInv /\ [Next]_vars => IInv'
<1> SUFFICES ASSUME IInv, [Next]_vars PROVE IInv'
  OBVIOUS
<1>1. TypeOK'
  BY TypeStep DEF IInv
<1>2. CASE Main
  BY <1>1, <1>2, MainKeeps DEF IInv
<1>3. CASE MainFails
  BY <1>1, <1>3, FailKeeps DEF IInv
<1>4. CASE CleanupAll
  BY <1>1, <1>4, CleanupKeeps DEF IInv
<1>5. CASE \E sig \in Signals : catch_signal(sig)
  BY <1>1, <1>5, SignalKeeps DEF IInv
<1>6. CASE \E s \in Sides : Task(s)
  BY <1>1, <1>6, TaskKeeps DEF IInv
<1>7. CASE UNCHANGED vars
  BY <1>7, Unchanged
<1>8. QED
  BY <1>2, <1>3, <1>4, <1>5, <1>6, <1>7 DEF Next, Paused

LEMMA Invariant == Spec => []IInv
BY InitInv, StepInv, PTL DEF Spec

\* The variables of cross-link.c keep their types, whatever descriptors open gives out
\* and however many signals come.
THEOREM CrossLinkTypeCorrect == Spec => []TypeOK
<1>1. IInv => TypeOK
  BY DEF IInv
<1>2. QED
  BY <1>1, Invariant, PTL

\* No close of a task, of main's cleanup or of a handler hits the line of the other side,
\* although the flags are checked before it and cleared after it; and a task that works
\* has its own line behind its descriptor unless a signal came during the setup
\* (cross-link.c:74-123, 170-172, 230-232).
THEOREM LinesKeptApart == Spec => []OwnLine
<1>1. IInv => OwnLine
  <2> SUFFICES ASSUME IInv PROVE OwnLine
    OBVIOUS
  <2>1. TypeOK /\ MainInv /\ SharedInv /\ FileInv /\ ~ stray
    BY DEF IInv
  <2>2. ASSUME NEW s \in Sides, task[s] \in {"wait", "use"}, IsOpen(fd[s]), ~ early
        PROVE  file[fd[s]] = s
    <3>1. k > 9
      BY <2>1, <2>2 DEF TypeOK, MainInv
    <3>2. k > 5 /\ k > 1
      BY <2>1, <3>1 DEF TypeOK
    <3>3. ~ Shared
      BY <2>1, <2>2 DEF SharedInv
    <3>4. QED
      BY <2>1, <2>2, <3>2, <3>3 DEF FileInv, IsOpen, Sides
  <2>3. QED
    BY <2>1, <2>2 DEF OwnLine
<1>2. QED
  BY <1>1, Invariant, PTL
=============================================================================
