-------------------------- MODULE CyclicStartProofs --------------------------
(***************************************************************************)
(* The aligned start of CyclicStart is safe for every number of threads,   *)
(* every length of a second and every offset, and implements AlignedStart. *)
(*                                                                         *)
(* The argument is about the barriers' counts: with --aligned and          *)
(* --secaligned, the count of a barrier is the number of threads that have *)
(* still to come to it.  A thread that is past a barrier has found its     *)
(* count at 0, so nobody has still to come; past the second one this means *)
(* that thread 0 has been there too, after it has read the clock.          *)
(***************************************************************************)
EXTENDS CyclicStart, FiniteSets, FiniteSetTheorems, TLAPS

\* The threads that have still to come to a barrier.
Before(b) ==
  IF b = "globalt_barr" THEN {"unborn"} ELSE {"unborn", "globalt_barr", "clock"}
ToCome(b) == {t \in Threads : pc[t] \in Before(b) \/ (pc[t] = b /\ t \notin Inside(b))}
Past(b) ==
  IF b = "globalt_barr" THEN {"clock", "align_barr", "now", "loop"} ELSE {"now", "loop"}

InsideInv ==
  \A b \in Barriers : /\ asleep[b] \cap awake[b] = {}
                       /\ \A t \in Inside(b) : pc[t] = b

BornInv == \A t \in Threads : pc[t] = "unborn" <=> t >= created

PlainInv ==
  mode = "plain" => /\ \A t \in Threads : pc[t] \in {"unborn", "now", "loop"}
                    /\ globalt = NoTime /\ readAt = NoTime

CountInv ==
  mode # "plain" => \A b \in Barriers : count[b] = Cardinality(ToCome(b))

PastInv ==
  mode # "plain" =>
    \A b \in Barriers : \A t \in Threads : pc[t] \in Past(b) => count[b] = 0

ClockInv ==
  mode # "plain" =>
    /\ \A t \in Threads : pc[t] = "clock" => t = 0
    /\ pc[0] \in {"unborn", "globalt_barr", "clock"} => globalt = NoTime /\ readAt = NoTime
    /\ pc[0] \in {"align_barr", "now", "loop"} =>
         /\ globalt \in Nat /\ readAt \in Clocks
         /\ globalt = IF mode = "secaligned" THEN FullSecond(readAt) ELSE readAt

NowInv ==
  \A t \in Threads : 
    /\ pc[t] = "loop" <=> now[t] # NoTime
    /\ mode # "plain" /\ now[t] # NoTime => now[t] = globalt + Shift(t)

IInv ==
  /\ TypeOK /\ InsideInv /\ BornInv /\ PlainInv /\ CountInv /\ PastInv
  /\ ClockInv /\ NowInv

USE NAssumption, SecondAssumption, ClockAssumption, NoTimeAssumption
    DEF Threads, Clocks, Barriers, Labels

------------------------------------------------------------------------------
(***************************************************************************)
(* Lemmas                                                                  *)
(***************************************************************************)
LEMMA ThreadsFinite ==
  /\ IsFiniteSet(Threads) /\ Cardinality(Threads) = N /\ 0 \in Threads
  /\ \A S : S \subseteq Threads => /\ IsFiniteSet(S)
                                   /\ Cardinality(S) \in 0..N
<1>1. IsFiniteSet(0..N-1) /\ Cardinality(0..N-1) = N
  BY FS_Interval
<1>2. \A S : S \subseteq 0..N-1 => /\ IsFiniteSet(S) /\ Cardinality(S) <= N
                                   /\ Cardinality(S) \in Nat
  BY <1>1, FS_Subset, FS_CardinalityType
<1>3. QED
  BY <1>1, <1>2

\* A cut value is an int, and an int is not changed.
LEMMA AsIntIsInt ==
  ASSUME NEW x \in Int
  PROVE  AsInt(x) \in Ints /\ (x \in Ints => AsInt(x) = x)
<1> DEFINE w == 2 * Half
           y == x + Half
<1>1. Half \in Nat \ {0} /\ w \in Nat \ {0} /\ y \in Int
  BY HalfAssumption
<1>2. /\ AsInt(x) = (y % w) - Half
      /\ Ints = (-Half)..(Half - 1)
  BY DEF AsInt, Ints
<1>3. w = 2 * Half /\ y = x + Half
  OBVIOUS
<1> HIDE DEF w, y
<1>4. y % w \in 0..w - 1 /\ (y \in 0..w - 1 => y % w = y)
  BY <1>1
<1>5. QED
  BY <1>1, <1>2, <1>3, <1>4

LEMMA OffsetIsInt == offset \in Offsets => offset \in Int
BY OffsetAssumption, HalfAssumption

\* A full second that leaves at least a tenth and at most eleven tenths.
LEMMA FullSecondInTime ==
  ASSUME NEW c \in Nat
  PROVE  /\ FullSecond(c) \in Nat
         /\ FullSecond(c) % Second = 0
         /\ 10 * (FullSecond(c) - c) >= Second
         /\ 10 * (FullSecond(c) - c) < 11 * Second
<1> DEFINE q == c \div Second
           r == c % Second
           k == IF r * 10 > 9 * Second THEN 2 ELSE 1
<1>1. q \in Nat /\ r \in 0..Second - 1 /\ c = q * Second + r
  OBVIOUS
<1>2. FullSecond(c) = (q + k) * Second
  BY DEF FullSecond
<1> HIDE DEF q, r
<1>3. (q + k) * Second = q * Second + k * Second /\ q * Second \in Nat
  BY <1>1
<1>4. \A n \in Nat : (n * Second) % Second = 0
  OBVIOUS
<1>5. k \in 1..2 /\ (k = 2 <=> r * 10 > 9 * Second)
  BY <1>1
<1> HIDE DEF k
<1>6. k * Second = IF k = 2 THEN Second + Second ELSE Second
  BY <1>5
<1>7. FullSecond(c) - c = k * Second - r /\ FullSecond(c) \in Nat
  BY <1>1, <1>2, <1>3, <1>5, <1>6
<1>8. FullSecond(c) % Second = 0
  <2>1. q + k \in Nat
    BY <1>1, <1>5
  <2>2. QED
    BY <1>2, <1>4, <2>1
<1>9. /\ 10 * (FullSecond(c) - c) >= Second
      /\ 10 * (FullSecond(c) - c) < 11 * Second
  BY <1>1, <1>5, <1>6, <1>7
<1>10. QED
  BY <1>7, <1>8, <1>9

LEMMA StartInitially == Init => IInv
<1> SUFFICES ASSUME Init PROVE IInv
  OBVIOUS
<1>1. 0 \in Threads
  OBVIOUS
<1>2. TypeOK
  BY DEF Init, TypeOK
<1>3. InsideInv /\ BornInv /\ PlainInv /\ PastInv
  BY DEF Init, InsideInv, BornInv, PlainInv, PastInv, Inside, Past
<1>4. CountInv
  <2>1. \A b \in Barriers : ToCome(b) = Threads
    BY DEF Init, ToCome, Before
  <2>2. QED
    BY <2>1, ThreadsFinite DEF Init, CountInv
<1>5. ClockInv /\ NowInv
  BY <1>1 DEF Init, ClockInv, NowInv
<1>6. QED
  BY <1>2, <1>3, <1>4, <1>5 DEF IInv

\* A thread that is past a barrier leaves nobody that has still to come to it.
LEMMA PastMeansAll ==
  ASSUME IInv, mode # "plain", NEW b \in Barriers, NEW t \in Threads, pc[t] \in Past(b)
  PROVE  ToCome(b) = {}
<1>1. Cardinality(ToCome(b)) = 0
  BY DEF IInv, PastInv, CountInv
<1>2. IsFiniteSet(ToCome(b))
  BY ThreadsFinite DEF ToCome
<1>3. QED
  BY <1>1, <1>2, FS_EmptySet

\* The common time is there as soon as a thread is past the second barrier.
LEMMA PastHasTime ==
  ASSUME IInv, mode # "plain", NEW t \in Threads, pc[t] \in {"now", "loop"}
  PROVE  /\ globalt \in Nat /\ readAt \in Clocks
         /\ globalt = IF mode = "secaligned" THEN FullSecond(readAt) ELSE readAt
<1>1. ToCome("align_barr") = {}
  BY PastMeansAll DEF Past
<1>2. 0 \in Threads /\ pc[0] \in Labels
  BY DEF IInv, TypeOK
<1>3. pc[0] \in {"align_barr", "now", "loop"}
  BY <1>1, <1>2 DEF ToCome, Before
<1>4. QED
  BY <1>3 DEF IInv, ClockInv

\* A thread that comes to a barrier for the first time is counted.
LEMMA ArrivalCounts ==
  ASSUME IInv, NEW b \in Barriers, NEW t \in Threads, pc[t] = b, t \notin Inside(b)
  PROVE  /\ mode # "plain" /\ count[b] > 0
         /\ Cardinality(ToCome(b) \ {t}) = count[b] - 1
<1>1. mode # "plain"
  BY DEF IInv, PlainInv
<1>2. t \in ToCome(b)
  BY DEF ToCome
<1>3. IsFiniteSet(ToCome(b)) /\ Cardinality(ToCome(b)) \in Nat
  BY ThreadsFinite DEF ToCome
<1>4. Cardinality(ToCome(b) \ {t}) = Cardinality(ToCome(b)) - 1
  BY <1>2, <1>3, FS_RemoveElement
<1>5. IsFiniteSet(ToCome(b) \ {t})
  BY <1>3, FS_RemoveElement
<1>6. Cardinality(ToCome(b) \ {t}) \in Nat
  BY <1>5, FS_CardinalityType
<1>7. QED
  BY <1>1, <1>3, <1>4, <1>6 DEF IInv, CountInv

\* Counts and barriers unchanged, and nobody's place with respect to them: what
\* is said about barriers stays true.
LEMMA CountFrame ==
  ASSUME IInv, UNCHANGED <<mode, count>>,
         mode # "plain" => \A b \in Barriers :
           /\ ToCome(b)' = ToCome(b)
           /\ \A t \in Threads : pc'[t] \in Past(b) => pc[t] \in Past(b) \/ count[b] = 0
  PROVE  CountInv' /\ PastInv'
<1>1. CountInv'
  BY DEF IInv, CountInv
<1>2. PastInv'
  BY DEF IInv, PastInv, Past
<1>3. QED
  BY <1>1, <1>2

------------------------------------------------------------------------------
(***************************************************************************)
(* Each step                                                               *)
(***************************************************************************)
\* Steps that only concern the clock or main, or nothing.
LEMMA OthersPreserve ==
  ASSUME IInv, main' \in {"create", "loop", "outall", "exited"}, clock' \in Clocks,
         UNCHANGED <<config, created, pc, barrier, times>>
  PROVE  IInv'
<1>1. TypeOK' /\ InsideInv' /\ BornInv' /\ PlainInv' /\ ClockInv' /\ NowInv'
  BY DEF IInv, TypeOK, InsideInv, Inside, BornInv, PlainInv, ClockInv, NowInv, Shift,
     config, barrier, times
<1>2. CountInv' /\ PastInv'
  BY DEF IInv, CountInv, PastInv, ToCome, Inside, Before, Past, config, barrier, times
<1>3. QED
  BY <1>1, <1>2 DEF IInv

LEMMA CreatePreserves ==
  ASSUME IInv, Create
  PROVE  IInv'
<1> USE DEF IInv, TypeOK, config, barrier, times
<1> DEFINE to == IF mode = "plain" THEN "now" ELSE "globalt_barr"
<1>1. created \in Threads /\ pc' = [pc EXCEPT ![created] = to] /\ pc[created] = "unborn"
  BY DEF Create, Goto, BornInv
<1>2. created \notin Inside("globalt_barr") /\ created \notin Inside("align_barr")
  BY <1>1 DEF InsideInv
<1>3. UNCHANGED <<mode, offset, main, clock, globalt, readAt, now, count, asleep, awake>>
  BY DEF Create
<1>4. pc' \in [Threads -> Labels] /\ created' \in 0..N
  BY <1>1 DEF Create
<1>5. TypeOK'
  BY <1>3, <1>4
<1>6. InsideInv' /\ BornInv' /\ PlainInv'
  <2>1. InsideInv'
    BY <1>1, <1>2, <1>3 DEF InsideInv, Inside
  <2>2. BornInv'
    BY <1>1 DEF Create, BornInv
  <2>3. PlainInv'
    BY <1>1, <1>3 DEF PlainInv
  <2>4. QED
    BY <2>1, <2>2, <2>3
<1>7. CountInv' /\ PastInv'
  <2>1. ASSUME mode # "plain", NEW b \in Barriers
        PROVE  /\ ToCome(b)' = ToCome(b)
               /\ \A t \in Threads : pc'[t] \in Past(b) => pc[t] \in Past(b)
    <3>1. /\ pc' = [pc EXCEPT ![created] = "globalt_barr"]
          /\ Inside(b)' = Inside(b) /\ created \notin Inside(b)
      BY <1>1, <1>2, <1>3, <2>1 DEF Inside
    <3>2. \A t \in Threads : pc'[t] \in Past(b) => pc[t] \in Past(b)
      BY <3>1 DEF Past
    <3>3. ToCome(b)' = ToCome(b)
      BY <1>1, <3>1 DEF ToCome, Before
    <3>4. QED
      BY <3>2, <3>3
  <2>2. QED
    BY <1>3, <2>1, CountFrame
<1>8. ClockInv'
  BY <1>1, <1>3 DEF ClockInv
<1>9. NowInv'
  <2>1. \A t \in Threads : pc'[t] = "loop" <=> pc[t] = "loop"
    BY <1>1
  <2>2. QED
    BY <1>3, <2>1 DEF NowInv, Shift
<1>10. QED
  BY <1>5, <1>6, <1>7, <1>8, <1>9

\* Where a thread goes from a barrier.
LEMMA EnterPreserves ==
  ASSUME IInv, NEW b \in Barriers, NEW t \in Threads, Enter(b, t)
  PROVE  IInv'
<1> USE DEF IInv, TypeOK, config, barrier, times
<1>1. /\ pc[t] = b /\ t \notin Inside(b) /\ mode # "plain"
      /\ Cardinality(ToCome(b) \ {t}) = count[b] - 1
  BY ArrivalCounts DEF Enter
<1>2. /\ count[b] \in 1..N /\ count' = [count EXCEPT ![b] = @ - 1]
      /\ awake' = [awake EXCEPT ![b] = @ \cup asleep[b]]
  BY DEF Enter
<1>3. UNCHANGED <<mode, offset, main, created, clock, globalt, readAt, now>>
  BY DEF Enter
<1>4. \/ count[b] > 1 /\ asleep' = [asleep EXCEPT ![b] = {t}] /\ UNCHANGED pc
      \/ /\ count[b] = 1 /\ asleep' = [asleep EXCEPT ![b] = {}]
         /\ pc' = [pc EXCEPT ![t] = After(b, t)]
  BY <1>2 DEF Enter, Goto
<1>5. After(b, t) \in Labels
  BY DEF After
<1>6. TypeOK'
  <2>1. /\ pc' \in [Threads -> Labels] /\ asleep' \in [Barriers -> SUBSET Threads]
    BY <1>4, <1>5
  <2>2. count' \in [Barriers -> 0..N] /\ awake' \in [Barriers -> SUBSET Threads]
    BY <1>2
  <2>3. QED
    BY <1>3, <2>1, <2>2
<1>7. InsideInv'
  BY <1>1, <1>2, <1>4 DEF InsideInv, Inside
<1>8. BornInv' /\ PlainInv'
  BY <1>1, <1>3, <1>4, <1>5 DEF BornInv, PlainInv, After
<1>9. CountInv'
  <2>1. ToCome(b)' = ToCome(b) \ {t}
    <3>1. b \notin Before(b) /\ After(b, t) \notin Before(b) \cup {b}
      BY DEF Before, After
    <3>2. CASE count[b] > 1
      <4>1. Inside(b)' = Inside(b) \cup {t} /\ UNCHANGED pc
        BY <1>2, <1>4, <3>2 DEF Inside
      <4>2. QED
        BY <1>1, <3>1, <4>1 DEF ToCome, Before
    <3>3. CASE count[b] = 1
      <4>1. Inside(b)' = Inside(b) /\ pc' = [pc EXCEPT ![t] = After(b, t)]
        BY <1>2, <1>4, <3>3 DEF Inside
      <4>2. QED
        BY <1>1, <3>1, <4>1 DEF ToCome, Before
    <3>4. QED
      BY <1>2, <3>2, <3>3
  <2>2. ASSUME NEW c \in Barriers, c # b PROVE ToCome(c)' = ToCome(c)
    BY <1>1, <1>2, <1>4, <2>2 DEF ToCome, Before, Inside, After, InsideInv
  <2>3. QED
    BY <1>1, <1>2, <1>3, <2>1, <2>2 DEF CountInv
<1>10. PastInv'
  <2>1. ASSUME NEW c \in Barriers, NEW s \in Threads, pc'[s] \in Past(c)
        PROVE  count'[c] = 0
    <3>1. CASE pc[s] \in Past(c)
      BY <1>1, <1>2, <3>1 DEF PastInv
    <3>2. CASE pc[s] \notin Past(c)
      BY <1>1, <1>2, <1>4, <2>1, <3>2 DEF After, Past
    <3>3. QED
      BY <3>1, <3>2
  <2>2. QED
    BY <2>1 DEF PastInv, Past
<1>11. ClockInv' /\ NowInv'
  BY <1>1, <1>3, <1>4 DEF ClockInv, NowInv, After, Shift
<1>12. QED
  BY <1>6, <1>7, <1>8, <1>9, <1>10, <1>11

LEMMA RecheckPreserves ==
  ASSUME IInv, NEW b \in Barriers, NEW t \in Threads, Recheck(b, t)
  PROVE  IInv'
<1> USE DEF IInv, TypeOK, config, barrier, times
<1>1. pc[t] = b /\ t \in awake[b] /\ mode # "plain"
  BY DEF Recheck, PlainInv
<1>2. UNCHANGED <<mode, offset, main, created, clock, globalt, readAt, now, count>>
  BY DEF Recheck
<1>3. awake' = [awake EXCEPT ![b] = @ \ {t}]
  BY DEF Recheck
<1>4. \/ asleep' = [asleep EXCEPT ![b] = @ \cup {t}] /\ UNCHANGED pc
      \/ /\ count[b] = 0 /\ UNCHANGED asleep
         /\ pc' = [pc EXCEPT ![t] = After(b, t)]
  BY DEF Recheck, Goto
<1>5. CASE asleep' = [asleep EXCEPT ![b] = @ \cup {t}] /\ UNCHANGED pc
  <2>1. \A c \in Barriers : Inside(c)' = Inside(c)
    BY <1>1, <1>3, <1>5 DEF Inside
  <2>2. TypeOK'
    BY <1>2, <1>3, <1>5
  <2>3. BornInv' /\ PlainInv' /\ ClockInv' /\ NowInv'
    BY <1>2, <1>5 DEF BornInv, PlainInv, ClockInv, NowInv, Shift
  <2>7. InsideInv'
    <3>1. \A c \in Barriers : asleep'[c] \cap awake'[c] = {}
      BY <1>1, <1>3, <1>5 DEF InsideInv
    <3>2. QED
      BY <1>5, <2>1, <3>1 DEF InsideInv
  <2>4. \A c \in Barriers : ToCome(c)' = ToCome(c)
    BY <1>5, <2>1 DEF ToCome, Before
  <2>5. CountInv' /\ PastInv'
    BY <1>2, <1>5, <2>4, CountFrame
  <2>6. QED
    BY <2>2, <2>3, <2>5, <2>7
<1>6. CASE /\ count[b] = 0 /\ UNCHANGED asleep
           /\ pc' = [pc EXCEPT ![t] = After(b, t)]
  <2>1. After(b, t) \in Labels \ {b, "unborn", "loop"}
    BY DEF After
  <2>2. /\ Inside(b)' \subseteq Inside(b)
        /\ \A s \in Threads \ {t} : s \in Inside(b)' <=> s \in Inside(b)
        /\ \A c \in Barriers : c # b => Inside(c)' = Inside(c)
    BY <1>3, <1>6 DEF Inside
  <2>3. TypeOK'
    BY <1>2, <1>3, <1>6, <2>1
  <2>4. InsideInv'
    <3>1. t \notin Inside(b)'
      BY <1>1, <1>3, <1>6 DEF InsideInv, Inside
    <3>2. \A c \in Barriers : asleep'[c] \cap awake'[c] = {}
      BY <1>3, <1>6 DEF InsideInv
    <3>3. ASSUME NEW c \in Barriers, NEW s \in Inside(c)' PROVE pc'[s] = c
      <4>1. s \in Inside(c) /\ s \in Threads
        BY <2>2, <2>3, <3>3 DEF Inside
      <4>2. pc[s] = c
        BY <4>1 DEF InsideInv
      <4>3. s # t
        BY <1>1, <3>1, <3>3, <4>2
      <4>4. QED
        BY <1>6, <4>1, <4>2, <4>3
    <3>4. QED
      BY <3>2, <3>3 DEF InsideInv
  <2>5. BornInv' /\ PlainInv'
    BY <1>1, <1>2, <1>6, <2>1 DEF BornInv, PlainInv
  <2>6. ClockInv' /\ NowInv'
    BY <1>1, <1>2, <1>6 DEF ClockInv, NowInv, After, Shift
  <2>7. ToCome(b)' = ToCome(b)
    <3>1. t \notin ToCome(b) /\ t \notin ToCome(b)'
      BY <1>1, <1>6 DEF ToCome, Before, After, Inside
    <3>2. ASSUME NEW s \in Threads \ {t} PROVE s \in ToCome(b) <=> s \in ToCome(b)'
      BY <1>6, <2>2 DEF ToCome, Before
    <3>3. QED
      BY <3>1, <3>2 DEF ToCome
  <2>8. ASSUME NEW c \in Barriers, c # b PROVE ToCome(c)' = ToCome(c)
    BY <1>1, <1>6, <2>2, <2>8 DEF ToCome, Before, After, Inside, InsideInv
  <2>9. ASSUME NEW c \in Barriers, NEW s \in Threads, pc'[s] \in Past(c)
        PROVE  pc[s] \in Past(c) \/ count[c] = 0
    BY <1>1, <1>6, <2>9 DEF Past, After
  <2>10. CountInv' /\ PastInv'
    BY <1>2, <2>7, <2>8, <2>9, CountFrame
  <2>11. QED
    BY <2>3, <2>4, <2>5, <2>6, <2>10
<1>7. QED
  BY <1>4, <1>5, <1>6

LEMMA ReadClockPreserves ==
  ASSUME IInv, ReadClock
  PROVE  IInv'
<1> USE DEF IInv, TypeOK, config, barrier, times
<1>1. 0 \in Threads /\ pc[0] = "clock" /\ pc' = [pc EXCEPT ![0] = "align_barr"]
  BY DEF ReadClock, Goto
<1>2. mode # "plain"
  BY <1>1 DEF PlainInv
<1>3. UNCHANGED <<mode, offset, main, created, clock, now, count, asleep, awake>>
  BY DEF ReadClock
<1>4. FullSecond(clock) \in Nat /\ clock \in Nat
  <2>1. clock \in Nat
    OBVIOUS
  <2>2. QED
    BY <2>1, FullSecondInTime
<1>5. /\ readAt' = clock
      /\ globalt' = IF mode = "secaligned" THEN FullSecond(readAt') ELSE readAt'
  BY DEF ReadClock
<1>6. TypeOK'
  BY <1>1, <1>3, <1>4, <1>5
<1>7. 0 \notin Inside("globalt_barr") /\ 0 \notin Inside("align_barr")
  BY <1>1 DEF InsideInv
<1>8. InsideInv'
  BY <1>1, <1>3, <1>7 DEF InsideInv, Inside
<1>9. BornInv' /\ PlainInv'
  BY <1>1, <1>2, <1>3 DEF BornInv, PlainInv
<1>10. CountInv' /\ PastInv'
  <2>1. ASSUME NEW b \in Barriers
        PROVE  /\ ToCome(b)' = ToCome(b)
               /\ \A t \in Threads : pc'[t] \in Past(b) => pc[t] \in Past(b)
    BY <1>1, <1>3, <1>7 DEF ToCome, Before, Inside, Past
  <2>2. QED
    BY <1>3, <2>1, CountFrame
<1>11. ClockInv'
  BY <1>1, <1>3, <1>4, <1>5 DEF ClockInv
<1>12. \A t \in Threads : now[t] = NoTime
  <2>1. 0 \in ToCome("align_barr")
    BY <1>1 DEF ToCome, Before
  <2>2. \A t \in Threads : pc[t] # "loop"
    BY <1>2, <2>1, PastMeansAll DEF Past
  <2>3. QED
    BY <2>2 DEF NowInv
<1>13. NowInv'
  BY <1>1, <1>3, <1>12 DEF NowInv
<1>14. QED
  BY <1>6, <1>8, <1>9, <1>10, <1>11, <1>13

LEMMA TakeNowPreserves ==
  ASSUME IInv, NEW t \in Threads, TakeNow(t)
  PROVE  IInv'
<1> USE DEF IInv, TypeOK, config, barrier, times
<1> DEFINE start == IF mode = "plain" THEN clock ELSE globalt + Shift(t)
<1>1. pc[t] = "now" /\ pc' = [pc EXCEPT ![t] = "loop"] /\ now' = [now EXCEPT ![t] = start]
  BY DEF TakeNow, Goto
<1>2. UNCHANGED <<mode, offset, main, created, clock, globalt, readAt, count, asleep, awake>>
  BY DEF TakeNow
<1>3. offset \in Int /\ offset * t \in Int
  <2>1. offset \in Int /\ t \in Int
    BY OffsetIsInt
  <2>2. QED
    BY <2>1
<1>4. start \in Int
  <2>1. Shift(t) \in Int
    <3>1. AsInt(offset * t) \in Int
      BY <1>3, AsIntIsInt, HalfAssumption DEF Ints
    <3>2. QED
      BY <1>3, <3>1 DEF Shift
  <2>2. mode # "plain" => globalt \in Nat
    BY <1>1, PastHasTime
  <2>3. clock \in Nat
    OBVIOUS
  <2>4. QED
    BY <2>1, <2>2, <2>3
<1>5. start # NoTime
  BY <1>4
<1> HIDE DEF start
<1>6. TypeOK'
  BY <1>1, <1>2, <1>4
<1>7. t \notin Inside("globalt_barr") /\ t \notin Inside("align_barr")
  BY <1>1 DEF InsideInv
<1>8. InsideInv'
  BY <1>1, <1>2, <1>7 DEF InsideInv, Inside
<1>9. BornInv' /\ PlainInv'
  BY <1>1, <1>2 DEF BornInv, PlainInv
<1>10. CountInv' /\ PastInv'
  <2>1. ASSUME NEW b \in Barriers
        PROVE  /\ ToCome(b)' = ToCome(b)
               /\ \A s \in Threads : pc'[s] \in Past(b) => pc[s] \in Past(b)
    BY <1>1, <1>2, <1>7 DEF ToCome, Before, Inside, Past
  <2>2. QED
    BY <1>2, <2>1, CountFrame
<1>11. ClockInv'
  BY <1>1, <1>2 DEF ClockInv
<1>12. NowInv'
  BY <1>1, <1>2, <1>5 DEF NowInv, Shift, start
<1>13. QED
  BY <1>6, <1>8, <1>9, <1>10, <1>11, <1>12

LEMMA StartPreserved == IInv /\ [Next]_vars => IInv'
<1> SUFFICES ASSUME IInv, [Next]_vars PROVE IInv'
  OBVIOUS
<1>1. ASSUME Tick PROVE IInv'
  <2>1. main' \in {"create", "loop", "outall", "exited"} /\ clock' \in Clocks
    BY <1>1 DEF Tick, IInv, TypeOK
  <2>2. QED
    BY <1>1, <2>1, OthersPreserve DEF Tick
<1>2. ASSUME AllCreated \/ CreateFails \/ Fatal PROVE IInv'
  <2>1. main' \in {"create", "loop", "outall", "exited"} /\ clock' \in Clocks
    BY <1>2 DEF AllCreated, CreateFails, Fatal, IInv, TypeOK
  <2>2. QED
    BY <1>2, <2>1, OthersPreserve DEF AllCreated, CreateFails, Fatal
<1>3. ASSUME NEW t \in Threads, Thread(t) PROVE IInv'
  BY <1>3, EnterPreserves, RecheckPreserves, ReadClockPreserves, TakeNowPreserves
     DEF Thread
<1>4. CASE UNCHANGED vars
  <2>1. main' \in {"create", "loop", "outall", "exited"} /\ clock' \in Clocks
    BY <1>4 DEF vars, IInv, TypeOK
  <2>2. QED
    BY <1>4, <2>1, OthersPreserve DEF vars
<1>5. QED
  BY <1>1, <1>2, <1>3, <1>4, CreatePreserves DEF Next, MainThread

------------------------------------------------------------------------------
(***************************************************************************)
(* Theorems                                                                *)
(***************************************************************************)
\* Every variable keeps its type, for every number of threads.
THEOREM StartTypeCorrect == Spec => []TypeOK
<1>1. IInv => TypeOK
  BY DEF IInv
<1>2. QED
  BY <1>1, StartInitially, StartPreserved, PTL DEF Spec

\* Nobody goes past the second barrier before the common time is there.
THEOREM StartNotTooEarly == Spec => []NoneTakesTooEarly
<1>1. IInv => NoneTakesTooEarly
  <2> SUFFICES ASSUME IInv, mode # "plain", NEW t \in Threads, pc[t] \in {"now", "loop"}
               PROVE  globalt # NoTime /\ readAt # NoTime
    BY DEF NoneTakesTooEarly
  <2>1. globalt \in Nat /\ readAt \in Nat
    BY PastHasTime
  <2>2. QED
    BY <2>1
<1>2. QED
  BY <1>1, StartInitially, StartPreserved, PTL DEF Spec

\* The common start is a full second that leaves time to get there, for every
\* resolution of the clock.
THEOREM StartInTime == Spec => []StartsInTime
<1>1. IInv => StartsInTime
  <2> SUFFICES ASSUME IInv, mode = "secaligned", globalt # NoTime
               PROVE  /\ globalt % Second = 0
                      /\ 10 * (globalt - readAt) >= Second
                      /\ 10 * (globalt - readAt) < 11 * Second
    BY DEF StartsInTime
  <2>1. 0 \in Threads /\ pc[0] \in Labels
    BY DEF IInv, TypeOK
  <2>2. globalt = FullSecond(readAt) /\ readAt \in Nat
    BY <2>1 DEF IInv, ClockInv
  <2>3. QED
    BY <2>2, FullSecondInTime
<1>2. QED
  BY <1>1, StartInitially, StartPreserved, PTL DEF Spec

\* Thread t starts t offsets after thread 0, if that distance is an int, or with it.
THEOREM StartAligned == Spec => []StartsAligned
<1>1. IInv => StartsAligned
  <2> SUFFICES ASSUME IInv, mode # "plain", NEW s \in Threads, NEW t \in Threads,
                      now[s] # NoTime, now[t] # NoTime
               PROVE  /\ mode = "aligned" /\ {offset * s, offset * t} \subseteq Ints =>
                           now[t] - now[s] = offset * (t - s)
                      /\ mode = "secaligned" => now[t] = now[s]
    BY DEF StartsAligned
  <2>1. now[s] = globalt + Shift(s) /\ now[t] = globalt + Shift(t) /\ globalt \in Nat
    BY PastHasTime DEF IInv, NowInv
  <2>2. offset \in Int /\ s \in Int /\ t \in Int
    BY OffsetIsInt DEF IInv, TypeOK
  <2>3. /\ offset * (t - s) = offset * t - offset * s
        /\ offset * t \in Int /\ offset * s \in Int
    BY <2>2
  <2>4. ASSUME {offset * s, offset * t} \subseteq Ints
        PROVE  AsInt(offset * s) = offset * s /\ AsInt(offset * t) = offset * t
    BY <2>3, <2>4, AsIntIsInt
  <2>5. QED
    BY <2>1, <2>3, <2>4 DEF Shift
<1>2. QED
  BY <1>1, StartInitially, StartPreserved, PTL DEF Spec

\* A thread that comes to a barrier finds its count above 0: the guard of Enter
\* leaves no behaviour of barrier_wait out.
THEOREM StartCountsArrivals ==
  Spec => [](\A b \in Barriers : \A t \in Threads :
               pc[t] = b /\ t \notin Inside(b) => count[b] > 0)
<1>1. IInv => \A b \in Barriers : \A t \in Threads :
                pc[t] = b /\ t \notin Inside(b) => count[b] > 0
  BY ArrivalCounts
<1>2. QED
  BY <1>1, StartInitially, StartPreserved, PTL DEF Spec

------------------------------------------------------------------------------
(***************************************************************************)
(* CyclicStart implements AlignedStart                                     *)
(***************************************************************************)
LEMMA PromiseInitially == Init => Promise!Init
<1> SUFFICES ASSUME Init PROVE Promise!Init
  OBVIOUS
<1>1. Arrived = {}
  BY DEF Init, Arrived
<1>2. QED
  BY <1>1 DEF Init, Promise!Init

\* Steps that leave the places of the threads and their times alone.
LEMMA PromiseFrame ==
  ASSUME UNCHANGED <<pc, globalt, now>>, Inside("globalt_barr")' = Inside("globalt_barr")
  PROVE  UNCHANGED Promise!vars
BY DEF Promise!vars, Arrived

LEMMA PromiseArrive ==
  ASSUME UNCHANGED <<globalt, now>>, NEW t \in Threads,
         t \notin Arrived, Arrived' = Arrived \cup {t}
  PROVE  Promise!Next
BY DEF Promise!Next, Promise!Arrive

LEMMA PromiseStep == IInv /\ [Next]_vars => [Promise!Next]_(Promise!vars)
<1> SUFFICES ASSUME IInv, [Next]_vars PROVE [Promise!Next]_(Promise!vars)
  OBVIOUS
<1> USE DEF IInv, TypeOK
<1>1. ASSUME Tick \/ AllCreated \/ CreateFails \/ Fatal \/ UNCHANGED vars
      PROVE  UNCHANGED Promise!vars
  <2>1. UNCHANGED <<pc, barrier, times>>
    BY <1>1 DEF Tick, AllCreated, CreateFails, Fatal, vars
  <2>2. QED
    BY <2>1, PromiseFrame DEF barrier, times, Inside
<1>2. ASSUME Create PROVE [Promise!Next]_(Promise!vars)
  <2>1. /\ created \in Threads /\ pc[created] = "unborn"
        /\ UNCHANGED <<asleep, awake, globalt, now>>
    BY <1>2 DEF Create, BornInv, barrier, times
  <2>2. CASE mode = "plain"
    <3>1. created \notin Arrived /\ Arrived' = Arrived \cup {created}
      BY <1>2, <2>1, <2>2 DEF Create, Goto, Arrived, Inside
    <3>2. QED
      BY <2>1, <3>1, PromiseArrive
  <2>3. CASE mode # "plain"
    <3>1. created \notin Inside("globalt_barr")
      BY <2>1 DEF InsideInv
    <3>2. Arrived' = Arrived
      BY <1>2, <2>1, <2>3, <3>1 DEF Create, Goto, Arrived, Inside
    <3>3. QED
      BY <2>1, <3>2 DEF Promise!vars
  <2>4. QED
    BY <2>2, <2>3
<1>3. ASSUME NEW b \in Barriers, NEW t \in Threads, Enter(b, t)
      PROVE  [Promise!Next]_(Promise!vars)
  <2>1. pc[t] = b /\ t \notin Inside(b) /\ UNCHANGED <<globalt, now>>
    BY <1>3 DEF Enter, times
  <2>2. /\ count[b] \in 1..N
        /\ \/ Inside(b)' = Inside(b) \cup {t} /\ UNCHANGED pc
           \/ Inside(b)' = Inside(b) /\ pc' = [pc EXCEPT ![t] = After(b, t)]
    BY <1>3 DEF Enter, Goto, Inside
  <2>3. CASE b = "globalt_barr"
    <3>1. t \notin Arrived
      BY <2>1, <2>3 DEF Arrived
    <3>2. Arrived' = Arrived \cup {t}
      BY <2>1, <2>2, <2>3 DEF Arrived, After
    <3>3. QED
      BY <2>1, <3>1, <3>2, PromiseArrive
  <2>4. CASE b = "align_barr"
    <3>1. Inside("globalt_barr")' = Inside("globalt_barr")
      BY <1>3, <2>4 DEF Enter, Inside
    <3>2. Arrived' = Arrived
      BY <2>1, <2>2, <2>4, <3>1 DEF Arrived, After
    <3>3. QED
      BY <2>1, <3>2 DEF Promise!vars
  <2>5. QED
    BY <2>3, <2>4
<1>4. ASSUME NEW b \in Barriers, NEW t \in Threads, Recheck(b, t)
      PROVE  UNCHANGED Promise!vars
  <2>1. pc[t] = b /\ t \in Inside(b) /\ UNCHANGED <<globalt, now>>
    BY <1>4 DEF Recheck, times, Inside
  <2>2. \/ UNCHANGED pc /\ Inside(b)' = Inside(b)
        \/ /\ pc' = [pc EXCEPT ![t] = After(b, t)]
           /\ \A s \in Threads \ {t} : s \in Inside(b)' <=> s \in Inside(b)
    BY <1>4 DEF Recheck, Goto, Inside
  <2>3. \A c \in Barriers : c # b => Inside(c)' = Inside(c)
    BY <1>4 DEF Recheck, Inside
  <2>4. ASSUME NEW s \in Threads PROVE s \in Arrived' <=> s \in Arrived
    BY <2>1, <2>2, <2>3 DEF Arrived, After
  <2>5. Arrived' = Arrived
    BY <2>4 DEF Arrived
  <2>6. QED
    BY <2>1, <2>5 DEF Promise!vars
<1>5. ASSUME ReadClock PROVE Promise!Agree
  <2>1. 0 \in Threads /\ pc[0] = "clock" /\ mode # "plain"
    BY <1>5 DEF ReadClock, PlainInv
  <2>2. Arrived = Threads
    <3>1. ToCome("globalt_barr") = {}
      BY <2>1, PastMeansAll DEF Past
    <3>2. QED
      BY <3>1 DEF ToCome, Before, Arrived
  <2>3. Arrived' = Arrived
    BY <1>5, <2>1 DEF ReadClock, Goto, Arrived, Inside, barrier
  <2>4. globalt = NoTime
    BY <2>1 DEF ClockInv
  <2>5. globalt' \in Nat
    <3>1. clock \in Nat
      OBVIOUS
    <3>2. QED
      BY <1>5, <3>1, FullSecondInTime DEF ReadClock
  <2>6. \A t \in Threads : now[t] = NoTime /\ now'[t] = NoTime
    <3>1. 0 \in ToCome("align_barr")
      BY <2>1 DEF ToCome, Before
    <3>2. \A t \in Threads : pc[t] # "loop"
      BY <2>1, <3>1, PastMeansAll DEF Past
    <3>3. QED
      BY <1>5, <3>2 DEF NowInv, ReadClock
  <2>7. QED
    BY <2>2, <2>3, <2>4, <2>5, <2>6 DEF Promise!Agree
<1>6. ASSUME NEW t \in Threads, TakeNow(t) PROVE [Promise!Next]_(Promise!vars)
  <2>1. /\ pc[t] = "now" /\ now[t] = NoTime
        /\ UNCHANGED <<asleep, awake, globalt, mode>>
    BY <1>6 DEF TakeNow, NowInv, barrier, config
  <2>2. Arrived' = Arrived
    BY <1>6, <2>1 DEF TakeNow, Goto, Arrived, Inside
  <2>3. CASE mode = "plain"
    BY <1>6, <2>1, <2>2, <2>3 DEF TakeNow, PlainInv, Promise!vars
  <2>4. CASE mode # "plain"
    <3>1. globalt \in Nat /\ globalt # NoTime
      BY <2>1, <2>4, PastHasTime
    <3>2. now'[t] # NoTime /\ \A s \in Threads \ {t} : now'[s] = now[s]
      <4>1. IInv'
        BY <1>6, TakeNowPreserves
      <4>2. pc'[t] = "loop"
        BY <1>6 DEF TakeNow, Goto
      <4>3. now'[t] # NoTime
        BY <4>1, <4>2 DEF NowInv
      <4>4. QED
        BY <1>6, <4>3 DEF TakeNow
    <3>3. Promise!Take(t)
      BY <2>1, <2>2, <3>1, <3>2 DEF Promise!Take
    <3>4. QED
      BY <3>3 DEF Promise!Next
  <2>5. QED
    BY <2>3, <2>4
<1>7. QED
  BY <1>1, <1>2, <1>3, <1>4, <1>5, <1>6 DEF Next, MainThread, Thread, Promise!Next

\* The start keeps what AlignedStart promises: one base time, agreed on once and
\* only when every thread has arrived.
THEOREM StartImplementsPromise == Spec => PromiseSpec
BY StartInitially, StartPreserved, PromiseInitially, PromiseStep, PTL
   DEF Spec, PromiseSpec, Promise!Spec
==============================================================================
