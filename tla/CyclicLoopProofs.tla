-------------------------- MODULE CyclicLoopProofs --------------------------
(***************************************************************************)
(* The statistics of CyclicStats are right for every sequence of latencies *)
(* and every size of the histogram, the ring and the word.  The measuring  *)
(* loop keeps its statistics as CyclicStats does, so what is proved of     *)
(* them is true of it, in each mode and for every interval.                *)
(* Sleeping measures no negative latency, and absolute sleeping keeps to   *)
(* the grid: both follow from where next is with respect to the clock at   *)
(* each place of the loop, which is what SleepInv and GridInv say.         *)
(***************************************************************************)
EXTENDS CyclicLoop, FiniteSetTheorems, TLAPS

\* A latency that is recorded and not yet counted is the last of samples.
CountInv == cycles = IF stored THEN Len(samples) - 1 ELSE Len(samples)

\* The numbers min and max stand for, while nothing has wrapped around.
ExtremesInv == ExtremesExact /\ (NoneWrapped => min >= 0 /\ max >= 0 /\ min <= MinInit)

\* Value v, of cycle c unless it is 0, is the largest of the latencies s of the cycles in G.
Shows(s, G, v, c) ==
  /\ G \subseteq 0..Len(s) - 1
  /\ \A g \in G : AsLong(s[g + 1]) <= v
  /\ v # 0 => c \in G /\ AsLong(s[c + 1]) = v

\* What main has not read yet is in the ring; what it has read and not printed is what
\* redmax and cycleofmax stand for, and the lines before are complete.
Started == cyclesread - reduce..cyclesread - 1

ReportInv ==
  /\ cyclesread <= cycles /\ cyclesread = Len(out) * Reduction + reduce
  /\ ~ lapped =>
       /\ Len(samples) - cyclesread <= Ring
       /\ \A c \in cyclesread..Len(samples) - 1 : values[c % Ring] = AsLong(samples[c + 1])
       /\ Shows(samples, Started, redmax, cycleofmax)
       /\ \A k \in 1..Len(out) : Shows(samples, Group(k), out[k].value, out[k].cycle)

IInv == StatsTypeOK /\ CountInv /\ HistogramExact /\ ExtremesInv /\ ReportInv

\* The conversion to uint64_t keeps what is in its range, and reaches no further.
LEMMA SmallIsItself ==
  ASSUME NEW l \in Nat, l < Word
  PROVE  AsUnsigned(l) = l
BY WordAssumption DEF AsUnsigned

LEMMA UnsignedRange ==
  ASSUME NEW l \in Int
  PROVE  AsUnsigned(l) \in Unsigned
BY WordAssumption DEF AsUnsigned, Unsigned

(***************************************************************************)
(* One more latency                                                        *)
(***************************************************************************)
LEMMA CyclesFinite ==
  ASSUME samples \in Seq(Unsigned), NEW D
  PROVE  IsFiniteSet(CyclesIn(D)) /\ Cardinality(CyclesIn(D)) \in Nat
<1>1. Len(samples) \in Nat
  OBVIOUS
<1>2. IsFiniteSet(0..Len(samples) - 1)
  BY <1>1, FS_Interval
<1>3. CyclesIn(D) \subseteq 0..Len(samples) - 1
  BY DEF CyclesIn
<1>4. QED
  BY <1>2, <1>3, FS_Subset, FS_CardinalityType

\* A recorded latency adds its cycle to the sets it belongs to, and no other.
LEMMA CyclesGrow ==
  ASSUME samples \in Seq(Unsigned), NEW diff \in Unsigned, NEW D,
         samples' = Append(samples, diff)
  PROVE  /\ CyclesIn(D)' = IF diff \in D THEN CyclesIn(D) \cup {Len(samples)}
                           ELSE CyclesIn(D)
         /\ \A c \in CyclesIn(D) : c \in Nat /\ c < Len(samples)
         /\ Cardinality(CyclesIn(D)') =
              Cardinality(CyclesIn(D)) + IF diff \in D THEN 1 ELSE 0
<1> DEFINE n == Len(samples)
<1>1. n \in Nat /\ Len(samples') = n + 1 /\ samples'[n + 1] = diff
  OBVIOUS
<1>2. \A c \in 0..n - 1 : samples'[c + 1] = samples[c + 1]
  <2> SUFFICES ASSUME NEW c \in 0..n - 1 PROVE samples'[c + 1] = samples[c + 1]
    OBVIOUS
  <2>1. c + 1 \in 1..Len(samples)
    BY <1>1
  <2>2. QED
    BY <2>1
<1>3. 0..Len(samples') - 1 = (0..n - 1) \cup {n}
  BY <1>1
<1>4. CyclesIn(D)' = IF diff \in D THEN CyclesIn(D) \cup {n} ELSE CyclesIn(D)
  BY <1>1, <1>2, <1>3 DEF CyclesIn
<1>5. \A c \in CyclesIn(D) : c \in Nat /\ c < n
  BY <1>1 DEF CyclesIn
<1>6. Cardinality(CyclesIn(D) \cup {n}) = Cardinality(CyclesIn(D)) + 1
  <2>1. n \notin CyclesIn(D)
    BY <1>1, <1>5
  <2>2. QED
    BY <2>1, CyclesFinite, FS_AddElement
<1>7. QED
  BY <1>4, <1>5, <1>6, CyclesFinite

(***************************************************************************)
(* The inductive invariant of the statistics                               *)
(***************************************************************************)
LEMMA StatsInitially == StatsInit => IInv
<1> SUFFICES ASSUME StatsInit PROVE IInv
  OBVIOUS
<1> USE WordAssumption, MinAssumption, SizesAssumption
<1>1. StatsTypeOK
  <2>1. stored \in BOOLEAN /\ lapped \in BOOLEAN
    BY Zenon DEF StatsInit
  <2>2. min \in Long /\ max \in Long /\ act \in Long /\ redmax \in Long
    BY DEF StatsInit, Long
  <2>3. values \in [Slots -> Long] /\ hist_array \in [Cells -> Nat]
    BY DEF StatsInit, Long
  <2>4. reduce \in 0..Reduction - 1
    BY DEF StatsInit
  <2>5. outliers \in Seq(Nat) /\ samples \in Seq(Unsigned)
        /\ out \in Seq([cycle : Nat, value : Long])
    BY DEF StatsInit
  <2>6. QED
    BY <2>1, <2>2, <2>3, <2>4, <2>5 DEF StatsInit, StatsTypeOK
<1>2. \A D : Cardinality(CyclesIn(D)) = 0
  <2> SUFFICES ASSUME NEW D PROVE Cardinality(CyclesIn(D)) = 0
    OBVIOUS
  <2>1. CyclesIn(D) = {}
    BY DEF StatsInit, CyclesIn
  <2>2. QED
    BY <2>1, FS_EmptySet
<1>3. HistogramExact
  BY <1>2 DEF StatsInit, HistogramExact, CellsExact, OverflowExact, OutliersExact,
     Overflows
<1>4. ExtremesInv
  BY DEF StatsInit, ExtremesInv, ExtremesExact, NoneWrapped
<1>5. ReportInv
  <2>1. /\ cyclesread = 0 /\ reduce = 0 /\ redmax = 0 /\ Len(out) = 0 /\ Len(samples) = 0
        /\ cycles = 0
    BY DEF StatsInit
  <2>2. Started = {} /\ 0..Len(samples) - 1 = {}
    BY <2>1 DEF Started
  <2>3. Shows(samples, Started, redmax, cycleofmax)
    BY <2>1, <2>2 DEF Shows
  <2>4. QED
    BY <2>1, <2>3 DEF ReportInv
<1>6. QED
  BY <1>1, <1>3, <1>4, <1>5 DEF StatsInit, IInv, CountInv

LEMMA StoreType ==
  ASSUME StatsTypeOK, NEW diff \in Unsigned, Store(diff)
  PROVE  StatsTypeOK'
<1> USE WordAssumption, SizesAssumption DEF StatsTypeOK, reader
<1>1. AsLong(diff) \in Long
  BY DEF AsLong, Unsigned, Long
<1>2. min' \in Long /\ max' \in Long /\ act' \in Long /\ avg' \in Nat
  BY <1>1 DEF Store, Extremes, Unsigned
<1>3. values' \in [Slots -> Long]
  BY <1>1 DEF Store
<1>4. hist_array' \in [Cells -> Nat] /\ hist_overflow' \in Nat /\ outliers' \in Seq(Nat)
  <2>1. CASE diff >= Histogram
    <3>1. hist_overflow' = hist_overflow + 1 /\ UNCHANGED hist_array
      BY <2>1, Zenon DEF Store, CountInHistogram
    <3>2. outliers' = outliers \/ outliers' = Append(outliers, cycles)
      BY <2>1, Zenon DEF Store, CountInHistogram
    <3>3. Append(outliers, cycles) \in Seq(Nat)
      OBVIOUS
    <3>4. outliers' \in Seq(Nat)
      BY <3>2, <3>3, Zenon DEF StatsTypeOK
    <3>5. hist_array' \in [Cells -> Nat] /\ hist_overflow' \in Nat
      BY <3>1
    <3>6. QED
      BY <3>4, <3>5
  <2>2. CASE ~ (diff >= Histogram)
    <3>1. /\ hist_array' = [hist_array EXCEPT ![diff] = @ + 1]
          /\ UNCHANGED <<hist_overflow, outliers>>
      BY <2>2 DEF Store, CountInHistogram
    <3>2. \A d \in Cells : hist_array[d] + 1 \in Nat
      OBVIOUS
    <3>3. QED
      BY <3>1, <3>2
  <2>3. QED
    BY <2>1, <2>2
<1>5. stored' \in BOOLEAN /\ lapped' \in BOOLEAN
  BY Zenon DEF Store
<1>6. samples' \in Seq(Unsigned)
  BY DEF Store
<1>7. UNCHANGED <<cycles, reader>>
  BY DEF Store
<1>8. QED
  BY <1>2, <1>3, <1>4, <1>5, <1>6, <1>7

LEMMA StoreHistogram ==
  ASSUME IInv, NEW diff \in Unsigned, Store(diff)
  PROVE  HistogramExact'
<1> USE DEF IInv, StatsTypeOK
<1> DEFINE n == Len(samples)
           Over == {d \in Unsigned : d >= Histogram}
<1>1. samples \in Seq(Unsigned) /\ samples' = Append(samples, diff) /\ n \in Nat
  BY DEF Store
<1>2. cycles = n
  BY DEF Store, CountInv
<1>3. Histogram \in Nat /\ Histogram > 0 /\ diff \in Nat
  BY WordAssumption, SizesAssumption DEF Unsigned
<1>4. CellsExact'
  <2> SUFFICES ASSUME NEW d \in Cells
               PROVE  hist_array'[d] = Cardinality(CyclesIn({d})')
    BY DEF CellsExact
  <2>1. Cardinality(CyclesIn({d})') =
          Cardinality(CyclesIn({d})) + IF diff \in {d} THEN 1 ELSE 0
    BY <1>1, CyclesGrow
  <2>2. hist_array[d] = Cardinality(CyclesIn({d})) /\ hist_array[d] \in Nat
    BY DEF HistogramExact, CellsExact
  <2>3. hist_array'[d] = hist_array[d] + IF diff = d THEN 1 ELSE 0
    BY <1>3, <2>2, SMTT(30) DEF Store, CountInHistogram, Cells
  <2>4. QED
    BY <2>1, <2>2, <2>3
<1>5. OverflowExact'
  <2>1. Cardinality(CyclesIn(Over)') =
          Cardinality(CyclesIn(Over)) + IF diff \in Over THEN 1 ELSE 0
    BY <1>1, CyclesGrow
  <2>2. hist_overflow = Cardinality(CyclesIn(Over))
    BY DEF HistogramExact, OverflowExact, Overflows
  <2>3. hist_overflow' = hist_overflow + IF diff \in Over THEN 1 ELSE 0
    BY <1>3 DEF Store, CountInHistogram
  <2>4. QED
    BY <2>1, <2>2, <2>3 DEF OverflowExact, Overflows
<1>6. OutliersExact'
  <2>1. /\ Overflows' = IF diff \in Over THEN Overflows \cup {n} ELSE Overflows
        /\ \A c \in Overflows : c \in Nat /\ c < n
    BY <1>1, CyclesGrow DEF Overflows
  <2>2. /\ hist_overflow = Cardinality(Overflows) /\ hist_overflow \in Nat
        /\ Len(outliers) = IF hist_overflow < Histogram THEN hist_overflow ELSE Histogram
        /\ \A k \in 1..Len(outliers) :
             /\ outliers[k] \in Overflows
             /\ Cardinality({c \in Overflows : c < outliers[k]}) = k - 1
    BY DEF HistogramExact, OverflowExact, OutliersExact
  <2>3. \A k \in 1..Len(outliers) :
          {c \in Overflows' : c < outliers[k]} = {c \in Overflows : c < outliers[k]}
    <3> SUFFICES ASSUME NEW k \in 1..Len(outliers)
                 PROVE  {c \in Overflows' : c < outliers[k]}
                          = {c \in Overflows : c < outliers[k]}
      OBVIOUS
    <3>1. outliers[k] \in Nat /\ outliers[k] < n
      BY <2>1, <2>2
    <3>2. QED
      BY <1>1, <2>1, <3>1
  <2>4. CASE diff \in Over /\ Len(outliers) < Histogram
    <3>1. /\ outliers' = Append(outliers, n) /\ hist_overflow' = hist_overflow + 1
          /\ Overflows' = Overflows \cup {n}
      BY <1>2, <2>1, <2>4 DEF Store, CountInHistogram
    <3>2. Len(outliers) = hist_overflow /\ outliers \in Seq(Nat)
      BY <2>2, <2>4
    <3>3. /\ Len(outliers') = hist_overflow + 1 /\ outliers'[hist_overflow + 1] = n
          /\ \A k \in 1..Len(outliers) : outliers'[k] = outliers[k]
      BY <1>1, <3>1, <3>2
    <3>4. {c \in Overflows' : c < n} = Overflows
      BY <1>1, <2>1, <3>1
    <3>5. \A k \in 1..Len(outliers') : k \in 1..Len(outliers) \/ k = hist_overflow + 1
      BY <2>2, <3>2, <3>3
    <3>6. \A k \in 1..Len(outliers') :
            /\ outliers'[k] \in Overflows'
            /\ Cardinality({c \in Overflows' : c < outliers'[k]}) = k - 1
      <4> SUFFICES ASSUME NEW k \in 1..Len(outliers')
                   PROVE  /\ outliers'[k] \in Overflows'
                          /\ Cardinality({c \in Overflows' : c < outliers'[k]}) = k - 1
        OBVIOUS
      <4>1. CASE k \in 1..Len(outliers)
        BY <2>2, <2>3, <3>1, <3>3, <4>1
      <4>2. CASE k = hist_overflow + 1
        <5>1. outliers'[k] = n /\ n \in Overflows'
          BY <3>1, <3>3, <4>2
        <5>2. {c \in Overflows' : c < outliers'[k]} = Overflows
          BY <3>4, <5>1
        <5>3. Cardinality({c \in Overflows' : c < outliers'[k]}) = hist_overflow
          BY <2>2, <5>2
        <5>4. hist_overflow = k - 1
          BY <2>2, <4>2
        <5>5. QED
          BY <5>1, <5>3, <5>4
      <4>3. QED
        BY <3>5, <4>1, <4>2
    <3>7. Len(outliers') = IF hist_overflow' < Histogram THEN hist_overflow' ELSE Histogram
      BY <1>3, <2>2, <2>4, <3>1, <3>2, <3>3
    <3>8. QED
      BY <3>6, <3>7 DEF OutliersExact
  <2>5. CASE ~ (diff \in Over /\ Len(outliers) < Histogram)
    <3>1. outliers' = outliers
      BY <1>3, <2>5 DEF Store, CountInHistogram
    <3>2. hist_overflow' = hist_overflow + IF diff \in Over THEN 1 ELSE 0
      BY <1>3 DEF Store, CountInHistogram
    <3>3. Len(outliers') = IF hist_overflow' < Histogram THEN hist_overflow' ELSE Histogram
      BY <1>3, <2>2, <2>5, <3>1, <3>2
    <3>4. \A k \in 1..Len(outliers') :
            /\ outliers'[k] \in Overflows'
            /\ Cardinality({c \in Overflows' : c < outliers'[k]}) = k - 1
      BY <2>1, <2>2, <2>3, <3>1
    <3>5. QED
      BY <3>3, <3>4 DEF OutliersExact
  <2>6. QED
    BY <2>4, <2>5
<1>7. QED
  BY <1>4, <1>5, <1>6 DEF HistogramExact

LEMMA StoreExtremes ==
  ASSUME IInv, NEW diff \in Unsigned, Store(diff)
  PROVE  ExtremesInv'
<1> USE WordAssumption, MinAssumption DEF IInv, StatsTypeOK
<1> SUFFICES ASSUME NoneWrapped' PROVE ExtremesInv'
  BY DEF ExtremesInv, ExtremesExact
<1> DEFINE n == Len(samples)
<1>1. /\ samples \in Seq(Unsigned) /\ samples' = Append(samples, diff)
      /\ n \in Nat /\ Len(samples') = n + 1 /\ samples'[n + 1] = diff
      /\ \A i \in 1..n : samples'[i] = samples[i] /\ samples[i] \in Nat
  BY DEF Store, Unsigned
<1>2. \A i \in 1..n + 1 : i \in 1..n \/ i = n + 1
  BY <1>1
<1>3. 1..n \subseteq 1..n + 1 /\ n + 1 \in 1..n + 1
  BY <1>1
<1>4. 2 * diff < Word /\ diff \in Nat /\ NoneWrapped
  BY <1>1, <1>3 DEF NoneWrapped, Unsigned
<1>5. /\ min \in Nat /\ max \in Nat /\ min <= MinInit
      /\ \A i \in 1..n : min <= samples[i] /\ samples[i] <= max
      /\ min = MinInit \/ \E i \in 1..n : min = samples[i]
      /\ max = 0 \/ \E i \in 1..n : max = samples[i]
  BY <1>4 DEF ExtremesInv, ExtremesExact, Long
<1>6. /\ min' = IF diff < min THEN diff ELSE min
      /\ max' = IF diff > max THEN diff ELSE max
  <2>1. min < Word /\ max < Word
    BY <1>5 DEF Long
  <2>2. AsUnsigned(min) = min /\ AsUnsigned(max) = max
    BY <1>5, <2>1, SmallIsItself
  <2>3. QED
    BY <1>4, <2>2 DEF Store, Extremes, AsLong
<1>7. \A i \in 1..n + 1 : min' <= samples'[i] /\ samples'[i] <= max'
  BY <1>1, <1>2, <1>4, <1>5, <1>6
<1>8. min' = MinInit \/ \E i \in 1..n + 1 : min' = samples'[i]
  BY <1>1, <1>3, <1>5, <1>6
<1>9. max' = 0 \/ \E i \in 1..n + 1 : max' = samples'[i]
  BY <1>1, <1>3, <1>5, <1>6
<1> HIDE DEF IInv, StatsTypeOK
<1>10. min' >= 0 /\ max' >= 0 /\ min' <= MinInit
  BY <1>4, <1>5, <1>6
<1>11. QED
  BY <1>1, <1>7, <1>8, <1>9, <1>10 DEF ExtremesInv, ExtremesExact

(***************************************************************************)
(* The lines main prints                                                   *)
(***************************************************************************)
\* A latency that is recorded changes nothing of those before it.
LEMMA ShowsKept ==
  ASSUME samples \in Seq(Unsigned), NEW diff \in Unsigned,
         samples' = Append(samples, diff), NEW G, NEW v, NEW c, Shows(samples, G, v, c)
  PROVE  Shows(samples', G, v, c)
<1>1. Len(samples) \in Nat /\ Len(samples') = Len(samples) + 1
  OBVIOUS
<1>2. \A g \in 0..Len(samples) - 1 : samples'[g + 1] = samples[g + 1]
  <2> TAKE g \in 0..Len(samples) - 1
  <2>1. g + 1 \in 1..Len(samples)
    BY <1>1
  <2>2. QED
    BY <2>1
<1>3. 0..Len(samples) - 1 \subseteq 0..Len(samples') - 1
  BY <1>1
<1>4. QED
  BY <1>2, <1>3 DEF Shows

\* Cycles less than a ring apart have different slots.
LEMMA SlotsDiffer ==
  ASSUME NEW a \in Nat, NEW b \in Nat, a < b, b - a < Ring
  PROVE  a % Ring # b % Ring
<1> SUFFICES ASSUME a % Ring = b % Ring PROVE FALSE
  OBVIOUS
<1> DEFINE p == a \div Ring  q == b \div Ring  r == a % Ring
<1>1. Ring \in Nat /\ Ring > 0
  BY SizesAssumption
<1>2. /\ p \in Int /\ q \in Int /\ r \in Int
      /\ a = Ring * p + r /\ b = Ring * q + r
  BY <1>1
<1> HIDE DEF p, q, r
<1>3. b - a = Ring * (q - p)
  BY <1>1, <1>2
<1>4. q - p > 0
  <2>1. CASE q - p <= 0
    <3>1. Ring * (q - p) <= 0
      BY <1>1, <1>2, <2>1
    <3>2. QED
      BY <1>2, <1>3, <3>1
  <2>2. QED
    BY <1>2, <2>1
<1>5. Ring * (q - p) >= Ring
  BY <1>1, <1>2, <1>4
<1>6. QED
  BY <1>1, <1>3, <1>5

LEMMA StoreReport ==
  ASSUME IInv, NEW diff \in Unsigned, Store(diff)
  PROVE  ReportInv'
<1> USE DEF IInv, StatsTypeOK
<1> DEFINE n == Len(samples)
<1>1. /\ samples \in Seq(Unsigned) /\ samples' = Append(samples, diff) /\ n \in Nat
      /\ cycles = n /\ UNCHANGED <<cycles, reader>>
      /\ values' = [values EXCEPT ![n % Ring] = AsLong(diff)]
      /\ lapped' = (lapped \/ n - cyclesread >= Ring)
  BY DEF Store, CountInv
<1>2. /\ Len(samples') = n + 1 /\ samples'[n + 1] = diff
      /\ \A c \in 0..n - 1 : samples'[c + 1] = samples[c + 1]
  <2>1. \A c \in 0..n - 1 : c + 1 \in 1..Len(samples)
    BY <1>1
  <2>2. QED
    BY <1>1, <2>1
<1>3. cyclesread <= cycles /\ cyclesread = Len(out) * Reduction + reduce
  BY DEF ReportInv
<1> SUFFICES ASSUME ~ lapped'
             PROVE  /\ Len(samples') - cyclesread <= Ring
                    /\ \A c \in cyclesread..Len(samples') - 1 :
                         values'[c % Ring] = AsLong(samples'[c + 1])
                    /\ Shows(samples', Started', redmax', cycleofmax')
                    /\ \A k \in 1..Len(out) : Shows(samples', Group(k), out'[k].value, out'[k].cycle)
  <2>1. UNCHANGED <<cycles, cyclesread, reduce, out>>
    BY <1>1 DEF reader
  <2>2. QED
    BY <1>3, <2>1 DEF ReportInv
<1>4. ~ lapped /\ n - cyclesread < Ring
  <2>1. ~ lapped /\ ~ (n - cyclesread >= Ring)
    BY <1>1
  <2>2. QED
    BY <1>1, <2>1, SizesAssumption
<1>5. ASSUME NEW c \in cyclesread..n
      PROVE  values'[c % Ring] = AsLong(samples'[c + 1])
  <2>0. n % Ring \in Slots /\ c % Ring \in Slots /\ c \in Nat
    BY <1>1, SizesAssumption DEF Slots
  <2>1. CASE c = n
    BY <1>1, <1>2, <2>0, <2>1
  <2>2. CASE c < n
    <3>1. n - c < Ring
      BY <1>1, <1>4, SizesAssumption
    <3>2. c % Ring # n % Ring
      BY <1>1, <2>0, <2>2, <3>1, SlotsDiffer
    <3>3. values'[c % Ring] = values[c % Ring]
      BY <1>1, <2>0, <3>2
    <3>4. c \in cyclesread..n - 1 /\ c \in 0..n - 1
      BY <1>1, <2>0, <2>2
    <3>5. QED
      BY <1>2, <1>4, <3>3, <3>4 DEF ReportInv
  <2>3. QED
    BY <1>1, <2>1, <2>2
<1>6. Shows(samples', Started', redmax', cycleofmax')
  <2>1. Shows(samples, Started, redmax, cycleofmax)
    BY <1>4 DEF ReportInv
  <2>2. UNCHANGED <<Started, redmax, cycleofmax>>
    BY <1>1 DEF reader, Started
  <2>3. QED
    BY <1>1, <2>1, <2>2, ShowsKept
<1>7. \A k \in 1..Len(out) : Shows(samples', Group(k), out'[k].value, out'[k].cycle)
  <2>1. \A k \in 1..Len(out) : Shows(samples, Group(k), out[k].value, out[k].cycle)
    BY <1>4 DEF ReportInv
  <2>2. UNCHANGED out
    BY <1>1 DEF reader
  <2>3. QED
    BY <1>1, <2>1, <2>2, ShowsKept
<1>8. Len(samples') - 1 = n /\ Len(samples') - cyclesread <= Ring
  BY <1>1, <1>2, <1>4, SizesAssumption
<1>9. UNCHANGED out
  BY <1>1 DEF reader
<1>10. QED
  BY <1>5, <1>6, <1>7, <1>8, <1>9

LEMMA PrintReport ==
  ASSUME IInv, PrintStat
  PROVE  ReportInv'
<1>0. /\ CountInv /\ ReportInv /\ cycles \in Nat /\ cyclesread \in Nat
      /\ reduce \in 0..Reduction - 1 /\ redmax \in Int /\ samples \in Seq(Unsigned)
      /\ out \in Seq([cycle : Nat, value : Long]) /\ stored \in BOOLEAN
  <2>1. Reduction \in Nat /\ redmax \in Long
    BY SizesAssumption DEF IInv, StatsTypeOK
  <2>2. redmax \in Int
    BY <2>1, WordAssumption DEF Long
  <2>3. QED
    BY <2>2, Zenon DEF IInv, StatsTypeOK
<1> DEFINE line == [cycle |-> cycleofmax', value |-> Top]
           read == cyclesread
<1>1. /\ cycles # cyclesread /\ cyclesread' = cyclesread + 1
      /\ UNCHANGED <<cycles, values, samples, lapped>>
      /\ cycleofmax' = IF ValueRead > redmax THEN cyclesread ELSE cycleofmax
  BY DEF PrintStat
<1>2. /\ read \in Nat /\ read < cycles /\ read <= Len(samples) - 1
      /\ read = Len(out) * Reduction + reduce /\ reduce \in Nat
      /\ Len(out) \in Nat /\ Len(samples) \in Nat
  <2>1. Reduction \in Nat /\ read <= cycles
    BY <1>0, SizesAssumption DEF ReportInv
  <2>2. cycles <= Len(samples) /\ Len(samples) \in Nat
    BY <1>0 DEF CountInv
  <2>3. read < cycles
    BY <1>0, <1>1, <2>1
  <2>4. QED
    BY <1>0, <2>1, <2>2, <2>3 DEF ReportInv
<1>3. ASSUME ~ lapped
      PROVE  Shows(samples, read - reduce..read, Top, cycleofmax')
  <2>1. ValueRead = AsLong(samples[read + 1])
    <3>1. \A c \in read..Len(samples) - 1 : values[c % Ring] = AsLong(samples[c + 1])
      BY <1>0, <1>3 DEF ReportInv
    <3>2. read \in read..Len(samples) - 1
      BY <1>2
    <3>3. QED
      BY <3>1, <3>2, Zenon DEF ValueRead
  <2>2. Shows(samples, Started, redmax, cycleofmax)
    BY <1>0, <1>3 DEF ReportInv
  <2>3. read - reduce..read = Started \cup {read}
    BY <1>2 DEF Started
  <2>4. read \in 0..Len(samples) - 1
    BY <1>2
  <2>5. \A g \in Started : AsLong(samples[g + 1]) \in Int
    <3>1. \A g \in 0..Len(samples) - 1 : samples[g + 1] \in Unsigned
      <4> TAKE g \in 0..Len(samples) - 1
      <4>1. g + 1 \in 1..Len(samples)
        BY <1>2
      <4>2. QED
        BY <1>0, <4>1
    <3>2. \A u \in Unsigned : AsLong(u) \in Int
      BY WordAssumption DEF Unsigned, AsLong
    <3>3. QED
      BY <2>2, <3>1, <3>2 DEF Shows
  <2>6. ValueRead \in Int /\ redmax \in Int
    <3>1. samples[read + 1] \in Unsigned
      <4>1. read + 1 \in 1..Len(samples)
        BY <1>2
      <4>2. QED
        BY <1>0, <4>1
    <3>2. QED
      BY <1>0, <2>1, <3>1, WordAssumption DEF Unsigned, AsLong
  <2>7. /\ Top >= ValueRead /\ Top >= redmax
        /\ \/ Top = ValueRead /\ cycleofmax' = read
           \/ Top = redmax /\ cycleofmax' = cycleofmax
    BY <1>1, <2>6 DEF Top
  <2> DEFINE G == read - reduce..read
             top == Top
  <2>8. G \subseteq 0..Len(samples) - 1
    BY <2>2, <2>3, <2>4 DEF Shows
  <2>9. \A g \in G : AsLong(samples[g + 1]) <= top
    <3> TAKE g \in G
    <3> HIDE DEF top
    <3>1. top \in Int /\ top >= ValueRead /\ top >= redmax
      BY <2>6, <2>7 DEF top
    <3>2. CASE g = read
      BY <2>1, <3>1, <3>2, <2>6
    <3>3. CASE g \in Started
      <4>1. AsLong(samples[g + 1]) \in Int /\ AsLong(samples[g + 1]) <= redmax
        BY <2>2, <2>5, <3>3 DEF Shows
      <4>2. QED
        BY <2>6, <3>1, <4>1
    <3>4. QED
      BY <2>3, <3>2, <3>3
  <2>10. top # 0 => cycleofmax' \in G /\ AsLong(samples[cycleofmax' + 1]) = top
    <3>1. CASE top = ValueRead /\ cycleofmax' = read
      BY <2>1, <2>3, <3>1
    <3>2. CASE top = redmax /\ cycleofmax' = cycleofmax
      BY <2>2, <2>3, <3>2 DEF Shows
    <3>3. QED
      BY <2>7, <3>1, <3>2
  <2>11. QED
    BY <2>8, <2>9, <2>10 DEF Shows
<1>5. ASSUME ~ lapped'
      PROVE  /\ Len(samples') - cyclesread' <= Ring
             /\ \A c \in cyclesread'..Len(samples') - 1 :
                  values'[c % Ring] = AsLong(samples'[c + 1])
  <2>1. /\ Len(samples) - read <= Ring
        /\ \A c \in read..Len(samples) - 1 : values[c % Ring] = AsLong(samples[c + 1])
    BY <1>0, <1>1, <1>5 DEF ReportInv
  <2>2. read + 1..Len(samples) - 1 \subseteq read..Len(samples) - 1
    BY <1>2
  <2>3. Ring \in Nat
    BY SizesAssumption
  <2>4. Len(samples) - (read + 1) <= Ring
    BY <1>2, <2>1, <2>3
  <2>5. QED
    BY <1>1, <2>1, <2>2, <2>4
<1>7. CASE reduce + 1 = Reduction
  <2>1. out' = Append(out, line) /\ reduce' = 0 /\ redmax' = 0
    BY <1>7 DEF PrintStat, ResetMax
  <2> HIDE DEF line
  <2>2. /\ Len(out') = Len(out) + 1 /\ out'[Len(out) + 1] = line
        /\ \A k \in 1..Len(out) : out'[k] = out[k]
    BY <1>2, <2>1
  <2>3. line.value = Top /\ line.cycle = cycleofmax'
    BY DEF line
  <2>4. Group(Len(out) + 1) = read - reduce..read
    <3>1. Reduction \in Nat /\ Len(out) * Reduction \in Nat
      BY <1>2, SizesAssumption
    <3>2. /\ Len(out) + 1 - 1 = Len(out)
          /\ (Len(out) + 1) * Reduction = Len(out) * Reduction + Reduction
      BY <1>2, <3>1
    <3> DEFINE printed == Len(out) * Reduction
    <3>3. read = printed + reduce /\ printed \in Nat
      BY <1>2, <3>1
    <3> HIDE DEF printed
    <3>4. printed = read - reduce /\ printed + Reduction - 1 = read
      BY <1>2, <1>7, <3>1, <3>3
    <3>5. Group(Len(out) + 1) = printed..printed + Reduction - 1
      <4> DEFINE low == (Len(out) + 1 - 1) * Reduction
                 high == (Len(out) + 1) * Reduction
      <4>1. low = printed /\ high = printed + Reduction
        BY <3>2, Zenon DEF printed
      <4>2. Group(Len(out) + 1) = low..high - 1
        BY DEF Group
      <4> HIDE DEF low, high
      <4>3. QED
        BY <3>1, <3>3, <4>1, <4>2
    <3>6. QED
      BY <3>4, <3>5
  <2>5. cyclesread' <= cycles' /\ cyclesread' = Len(out') * Reduction + reduce'
    <3>1. Reduction \in Nat
      BY SizesAssumption
    <3>2. (Len(out) + 1) * Reduction = Len(out) * Reduction + Reduction
      BY <1>2, <3>1
    <3>3. QED
      BY <1>0, <1>1, <1>2, <1>7, <2>1, <2>2, <3>1, <3>2
  <2>6. Started' = {}
    BY <1>1, <1>2, <2>1 DEF Started
  <2>7. Shows(samples', Started', redmax', cycleofmax')
    BY <2>1, <2>6 DEF Shows
  <2>8. ASSUME ~ lapped', NEW k \in 1..Len(out')
        PROVE  Shows(samples', Group(k), out'[k].value, out'[k].cycle)
    <3>0. ~ lapped
      BY <1>1, <2>8
    <3>1. CASE k \in 1..Len(out)
      <4>1. Shows(samples, Group(k), out[k].value, out[k].cycle)
        BY <1>0, <3>0, <3>1 DEF ReportInv
      <4>2. out'[k] = out[k]
        BY <2>2, <3>1
      <4>3. QED
        BY <1>1, <4>1, <4>2 DEF Shows, Group
    <3>2. CASE k = Len(out) + 1
      <4>1. Shows(samples, Group(k), line.value, line.cycle)
        BY <1>3, <2>3, <2>4, <3>0, <3>2
      <4>2. out'[k] = line
        BY <2>2, <3>2
      <4>3. QED
        BY <1>1, <4>1, <4>2 DEF Shows, Group
    <3>3. QED
      BY <1>2, <2>2, <3>1, <3>2
  <2>9. QED
    BY <1>5, <2>5, <2>7, <2>8 DEF ReportInv
<1>8. CASE reduce + 1 # Reduction
  <2>1. reduce' = reduce + 1 /\ redmax' = Top /\ UNCHANGED out
    BY <1>8 DEF PrintStat
  <2>2. Started' = read - reduce..read
    <3>1. cyclesread' - reduce' = read - reduce /\ cyclesread' - 1 = read
      BY <1>1, <1>2, <2>1
    <3>2. QED
      BY <3>1 DEF Started
  <2>3. ~ lapped' => Shows(samples', Started', redmax', cycleofmax')
    BY <1>1, <1>3, <2>1, <2>2 DEF Shows
  <2>4. ASSUME ~ lapped', NEW k \in 1..Len(out')
        PROVE  Shows(samples', Group(k), out'[k].value, out'[k].cycle)
    <3>1. Shows(samples, Group(k), out[k].value, out[k].cycle)
      BY <1>0, <1>1, <2>1, <2>4 DEF ReportInv
    <3>2. QED
      BY <1>1, <2>1, <3>1 DEF Shows, Group
  <2>5. cyclesread' <= cycles' /\ cyclesread' = Len(out') * Reduction + reduce'
    <3>1. Reduction \in Nat /\ Len(out) * Reduction \in Nat
      BY <1>2, SizesAssumption
    <3>2. QED
      BY <1>0, <1>1, <1>2, <2>1, <3>1
  <2>6. QED
    BY <1>5, <2>3, <2>4, <2>5 DEF ReportInv
<1>9. QED
  BY <1>7, <1>8

LEMMA StatsPreserved == IInv /\ [StatsNext]_stats => IInv'
<1> SUFFICES ASSUME IInv, [StatsNext]_stats PROVE IInv'
  OBVIOUS
<1>1. ASSUME NEW diff \in Unsigned, Store(diff) PROVE IInv'
  <2>1. CountInv'
    <3>1. ~ stored /\ stored' = TRUE /\ cycles' = cycles /\ samples' = Append(samples, diff)
      BY <1>1 DEF Store
    <3>2. Len(samples) \in Nat /\ Len(samples') = Len(samples) + 1
      BY <3>1 DEF IInv, StatsTypeOK
    <3>3. QED
      BY <3>1, <3>2 DEF IInv, CountInv
  <2>2. QED
    BY <1>1, <2>1, StoreType, StoreHistogram, StoreExtremes, StoreReport DEF IInv
<1>2. ASSUME UNCHANGED <<min, max, histo, samples>>
      PROVE  HistogramExact' /\ ExtremesInv'
  BY <1>2 DEF IInv, HistogramExact, CellsExact, OverflowExact, OutliersExact, Overflows,
     CyclesIn, ExtremesInv, ExtremesExact, NoneWrapped, histo
<1>3. ASSUME CountCycle PROVE IInv'
  <2> stored' \in BOOLEAN
    BY <1>3, Zenon DEF CountCycle
  <2>1. StatsTypeOK' /\ CountInv'
    BY <1>3 DEF IInv, StatsTypeOK, CountInv, CountCycle, extremes, histo, reader
  <2>2. ReportInv'
    <3>1. cycles' = cycles + 1 /\ UNCHANGED <<values, reader, samples, lapped>>
      BY <1>3 DEF CountCycle
    <3>2. cyclesread <= cycles + 1
      BY DEF IInv, StatsTypeOK, ReportInv
    <3>3. QED
      BY <3>1, <3>2 DEF IInv, ReportInv, Shows, Started, Group, reader
  <2>3. QED
    BY <1>2, <1>3, <2>1, <2>2 DEF IInv, CountCycle, extremes, histo
<1>4. ASSUME PrintStat PROVE IInv'
  <2> USE DEF IInv, StatsTypeOK
  <2>1. ValueRead \in Long
    <3>1. cyclesread % Ring \in Slots
      BY SizesAssumption DEF Slots
    <3>2. QED
      BY <3>1 DEF ValueRead
  <2>2. Top \in Long /\ 0 \in Long
    BY <2>1, WordAssumption DEF Top, Long
  <2>3. cyclesread' \in Nat /\ cycleofmax' \in Nat
    BY <1>4 DEF PrintStat
  <2>4. redmax' \in Long /\ reduce' \in 0..Reduction - 1
    BY <1>4, <2>2, SizesAssumption DEF PrintStat, ResetMax
  <2>5. out' \in Seq([cycle : Nat, value : Long])
    <3> DEFINE Line == [cycle : Nat, value : Long]
               line == [cycle |-> cycleofmax', value |-> Top]
    <3>1. line \in Line
      BY <2>2, <2>3
    <3>2. out' = out \/ out' = Append(out, line)
      BY <1>4, Zenon DEF PrintStat
    <3>3. out \in Seq(Line)
      OBVIOUS
    <3> HIDE DEF Line, line
    <3>4. Append(out, line) \in Seq(Line)
      BY <3>1, <3>3
    <3>5. out' \in Seq(Line)
      BY <3>2, <3>3, <3>4, Zenon
    <3>6. QED
      BY <3>5 DEF Line
  <2>6. UNCHANGED <<cycles, extremes, histo, values, stored, samples, lapped>>
    BY <1>4 DEF PrintStat
  <2>7. StatsTypeOK' /\ CountInv'
    BY <2>3, <2>4, <2>5, <2>6 DEF CountInv, extremes, histo
  <2>8. QED
    BY <1>2, <1>4, <2>6, <2>7, PrintReport DEF extremes
<1>5. CASE UNCHANGED stats
  <2>1. StatsTypeOK' /\ CountInv'
    BY <1>5 DEF IInv, StatsTypeOK, CountInv, stats, extremes, histo, reader
  <2>2. ReportInv'
    BY <1>5 DEF IInv, ReportInv, Shows, Started, Group, stats, reader
  <2>3. QED
    BY <1>2, <1>5, <2>1, <2>2 DEF IInv, stats, extremes
<1>6. QED
  BY <1>1, <1>3, <1>4, <1>5 DEF StatsNext

(***************************************************************************)
(* Theorems about the statistics alone                                     *)
(***************************************************************************)
\* The histogram, its overflows and the outliers are exact at every moment, for
\* every size of the histogram and every sequence of latencies.
THEOREM StatsHistogramExact == StatsSpec => []HistogramExact
<1>1. IInv => HistogramExact
  BY DEF IInv
<1>2. QED
  BY <1>1, StatsInitially, StatsPreserved, PTL DEF StatsSpec

\* While no latency wraps around, min and max are the extremes of the latencies
\* recorded, for every width of the word and every first value of min.
THEOREM StatsExtremesExact == StatsSpec => []ExtremesExact
<1>1. IInv => ExtremesExact
  BY DEF IInv, ExtremesInv
<1>2. QED
  BY <1>1, StatsInitially, StatsPreserved, PTL DEF StatsSpec

\* Unless the ring was lapped, the lines printed so far are the maxima of the groups of
\* latencies they stand for, for every size of the ring and every reduction.
THEOREM StatsReportsMaxima == StatsSpec => []ReportsAreMaxima
<1>1. IInv => ReportsAreMaxima
  <2> SUFFICES ASSUME IInv, ~ lapped, NEW k \in 1..Len(out)
               PROVE  /\ Group(k) \subseteq 0..Len(samples) - 1
                      /\ \A c \in Group(k) : AsLong(samples[c + 1]) <= out[k].value
                      /\ out[k].value # 0 =>
                           /\ out[k].cycle \in Group(k)
                           /\ AsLong(samples[out[k].cycle + 1]) = out[k].value
    BY DEF ReportsAreMaxima
  <2>1. Shows(samples, Group(k), out[k].value, out[k].cycle)
    BY DEF IInv, ReportInv
  <2>2. QED
    BY <2>1, Zenon DEF Shows
<1>2. QED
  BY <1>1, StatsInitially, StatsPreserved, PTL DEF StatsSpec


------------------------------------------------------------------------------
(***************************************************************************)
(* The loop: its inductive invariant                                       *)
(***************************************************************************)
Places == {"start", "arm", "loop", "sigwait", "relsleep", "sleep", "read",
           "record", "count", "out", "done"}

LoopType ==
  /\ mode \in Modes /\ abstime \in BOOLEAN /\ aligned \in BOOLEAN
  /\ max_cycles \in Nat /\ duration \in Nat
  /\ now \in Nat /\ next \in Nat /\ stop \in Nat \cup {None}
  /\ shutdown \in BOOLEAN /\ break_value \in Unsigned \cup {None}
  /\ pc \in Places
  /\ wake \in Nat /\ clock \in Nat /\ clock >= Late /\ waited \in 0..Late
  /\ expiry \in Nat \cup {None} /\ pending \in BOOLEAN
  /\ overruns \in Nat /\ overrun_count \in Nat

Absolute == mode = "clock_nanosleep" /\ abstime

\* How far the clock is behind or ahead of next, and of the end of the sleep.
SleepInv ==
  ~ HasTimer =>
    /\ pc # "sigwait"
    /\ pc \in {"record", "count"} => now = clock
    /\ pc = "arm" => clock + Interval <= next + Late + waited
    /\ Absolute =>
         /\ pc # "relsleep"
         /\ pc = "loop" => clock <= next + 2 * Late + waited
         /\ pc = "sleep" => wake = next /\ clock <= next + 3 * Late + waited
    /\ ~ Absolute =>
         /\ pc = "relsleep" => clock = now + waited
         /\ pc = "sleep" => /\ now + Interval <= wake /\ wake <= now + Interval + Late
                            /\ clock <= now + Interval + Late + waited
    /\ pc = "read" => next <= clock /\ clock <= next + 4 * Late + waited
    /\ pc \in {"record", "count"} => next <= now /\ now <= next + 5 * Late

OnGrid(n) == (n - stop + duration) % Interval = 0

GridInv ==
  Absolute =>
    /\ pc \in {"start", "arm"} => cycles = 0
    /\ pc # "start" /\ stop # None => OnGrid(next)
    /\ pc = "count" /\ now = next => act = 0
    /\ pc = "loop" /\ cycles > 0 => now <= next /\ next <= now + Interval
    /\ pc = "loop" /\ cycles > 0 /\ next = now + Interval => act = 0

LoopInv == LoopType /\ IInv /\ SleepInv /\ GridInv /\ (~ HasTimer => NoneWrapped)

USE IntervalAssumption, LateAssumption, LimitAssumption
    DEF options, locals, breaks, timer, time, Goto

------------------------------------------------------------------------------
(***************************************************************************)
(* Arithmetic                                                              *)
(***************************************************************************)
LEMMA DiffRange ==
  ASSUME now \in Int, next \in Int
  PROVE  Diff \in Unsigned
<1>1. now - next \in Int
  OBVIOUS
<1>2. QED
  BY <1>1, UnsignedRange DEF Diff

\* The first period that is not before now, a whole number of intervals on.
LEMMA CatchUpFirst ==
  ASSUME now \in Nat, NEW t \in Nat
  PROVE  /\ CatchUp(t) \in Nat /\ t <= CatchUp(t) /\ now <= CatchUp(t)
         /\ now <= t => CatchUp(t) = t
         /\ now > t => CatchUp(t) < now + Interval
         /\ \E k \in Nat : CatchUp(t) = t + k * Interval
<1>1. CASE now <= t
  <2>1. CatchUp(t) = t
    BY <1>1 DEF CatchUp
  <2>2. t = t + 0 * Interval
    OBVIOUS
  <2>3. QED
    BY <1>1, <2>1, <2>2
<1>2. CASE now > t
  <2> DEFINE q == (now - t - 1) \div Interval
             r == (now - t - 1) % Interval
  <2>1. now - t - 1 \in Nat
    BY <1>2
  <2>2. q \in Nat /\ r \in 0..Interval - 1 /\ now - t - 1 = q * Interval + r
    BY <2>1
  <2>3. CatchUp(t) = t + (q + 1) * Interval
    BY <1>2 DEF CatchUp
  <2> HIDE DEF q, r
  <2>4. (q + 1) * Interval = q * Interval + Interval /\ q * Interval \in Nat /\ q + 1 \in Nat
    BY <2>2
  <2>5. QED
    BY <1>2, <2>2, <2>3, <2>4
<1>3. QED
  BY <1>1, <1>2

\* Whole intervals do not leave the grid.
LEMMA GridStep ==
  ASSUME NEW n \in Int, NEW k \in Int, stop \in Int, duration \in Int, OnGrid(n)
  PROVE  OnGrid(n + k * Interval)
<1> DEFINE x == n - stop + duration
<1>1. x \in Int /\ x % Interval = 0
  BY DEF OnGrid
<1>2. PICK j \in Int : x = j * Interval
  BY <1>1
<1>3. k * Interval \in Int
  OBVIOUS
<1>4. n + k * Interval - stop + duration = (j + k) * Interval
  BY <1>2, <1>3
<1>5. \A i \in Int : (i * Interval) % Interval = 0
  OBVIOUS
<1>6. QED
  BY <1>4, <1>5 DEF OnGrid

------------------------------------------------------------------------------
(***************************************************************************)
(* The loop implements the statistics                                      *)
(***************************************************************************)
LEMMA LoopStepsStats ==
  ASSUME LoopType, [Next]_vars
  PROVE  [StatsNext]_stats
<1>1. ASSUME Tick \/ Shutdown \/ Terminated \/ UNCHANGED vars PROVE UNCHANGED stats
  BY <1>1 DEF Tick, Shutdown, Terminated, vars
<1>2. ASSUME Thread PROVE [StatsNext]_stats
  <2>1. ASSUME Record PROVE StatsNext
    <3>1. Diff \in Unsigned
      BY DiffRange DEF LoopType
    <3>2. QED
      BY <2>1, <3>1 DEF Record, StatsNext
  <2>2. ASSUME Count PROVE StatsNext
    BY <2>2 DEF Count, StatsNext
  <2>3. ASSUME GetStart \/ Arm \/ Loop \/ RelSleep \/ SigWait \/ Wake \/ Interrupted
               \/ ReadClock \/ Out
        PROVE  UNCHANGED stats
    BY <2>3, Zenon DEF GetStart, Arm, Loop, RelSleep, SigWait, Wake, Interrupted, ReadClock, Out
  <2>4. QED
    BY <1>2, <2>1, <2>2, <2>3 DEF Thread
<1>3. ASSUME Display PROVE StatsNext
  BY <1>3 DEF Display, StatsNext
<1>4. QED
  BY <1>1, <1>2, <1>3 DEF Next

------------------------------------------------------------------------------
(***************************************************************************)
(* Each step                                                               *)
(***************************************************************************)
LEMMA LoopInitially == Init => LoopInv
<1> SUFFICES ASSUME Init PROVE LoopInv
  OBVIOUS
<1>1. LoopType
  <2>1. PICK o \in Options : /\ mode = o.mode /\ abstime = o.abstime /\ aligned = o.aligned
                             /\ max_cycles = o.max_cycles /\ duration = o.duration
    BY Zenon DEF Init
  <2>2. o \in [mode : Modes, abstime : BOOLEAN, aligned : BOOLEAN, max_cycles : Nat,
               duration : Nat]
    BY OptionsAssumption
  <2>3. /\ o.mode \in Modes /\ o.abstime \in BOOLEAN /\ o.aligned \in BOOLEAN
        /\ o.max_cycles \in Nat /\ o.duration \in Nat
    BY <2>2, Zenon
  <2>4. /\ mode \in Modes /\ abstime \in BOOLEAN /\ aligned \in BOOLEAN
        /\ max_cycles \in Nat /\ duration \in Nat
    BY <2>1, <2>3, Zenon
  <2>5. shutdown \in BOOLEAN /\ pending \in BOOLEAN
    BY Zenon DEF Init
  <2>6. /\ clock = Late /\ waited = 0
        /\ now = 0 /\ next = 0 /\ stop = None /\ break_value = None /\ wake = 0
        /\ pc = "start" /\ expiry = None /\ overruns = 0 /\ overrun_count = 0
    BY DEF Init
  <2>7. QED
    BY <2>4, <2>5, <2>6 DEF LoopType, Places
<1>2. IInv
  BY StatsInitially DEF Init
<1>3. SleepInv /\ GridInv
  BY DEF Init, SleepInv, GridInv, StatsInit, HasTimer, Absolute
<1>4. NoneWrapped
  BY DEF Init, StatsInit, NoneWrapped
<1>5. QED
  BY <1>1, <1>2, <1>3, <1>4 DEF LoopInv

\* What the steps below have to show: the rest of LoopInv is about the statistics.
Moves == LoopType' /\ SleepInv' /\ GridInv'

LEMMA TickMoves ==
  ASSUME LoopInv, Tick
  PROVE  Moves
<1> USE DEF LoopInv, LoopType
<1>1. /\ clock' = clock + 1
      /\ UNCHANGED <<mode, abstime, aligned, max_cycles, duration, now, next, stop, shutdown,
                     break_value, pc, wake, overrun_count, cycles, act>>
  BY DEF Tick, stats, extremes
<1>2. \/ Sleeping /\ waited' = 0
      \/ ~ Sleeping /\ waited < Late /\ waited' = waited + 1
  BY DEF Tick
<1>3. expiry' \in Nat \cup {None} /\ pending' \in BOOLEAN /\ overruns' \in Nat
  <2>1. pending' = TRUE \/ pending' = pending
    BY Zenon DEF Tick
  <2>2. pending' \in BOOLEAN
    BY <2>1, Zenon
  <2>3. \/ expiry' = expiry + Interval /\ expiry = clock + 1
        \/ expiry' = expiry
    BY DEF Tick, NextExpiry
  <2>4. overruns' \in Nat
    BY DEF Tick
  <2>5. QED
    BY <2>2, <2>3, <2>4
<1>4. LoopType'
  BY <1>1, <1>2, <1>3
<1>5. SleepInv'
  <2>1. ~ HasTimer /\ Sleeping => pc = "sleep" /\ clock < wake
    BY DEF Sleeping, SleepInv
  <2>2. pc \notin {"record", "count"}
    BY DEF Tick
  <2>3. CASE Absolute
    BY <1>1, <1>2, <2>1, <2>2, <2>3 DEF SleepInv, HasTimer, Absolute, Sleeping
  <2>4. CASE ~ Absolute
    BY <1>1, <1>2, <2>1, <2>2, <2>4 DEF SleepInv, HasTimer, Absolute, Sleeping
  <2>5. QED
    BY <2>3, <2>4
<1>6. GridInv'
  BY <1>1 DEF GridInv, Absolute, OnGrid
<1>7. QED
  BY <1>4, <1>5, <1>6 DEF Moves

LEMMA GetStartMoves ==
  ASSUME LoopInv, GetStart
  PROVE  Moves
<1> USE DEF LoopInv, LoopType
<1>1. /\ pc = "start" /\ pc' = "arm" /\ waited' = 0
      /\ next' = now' + Interval
      /\ stop' = (IF duration # 0 THEN now' + duration ELSE None)
      /\ UNCHANGED <<mode, abstime, aligned, max_cycles, duration, shutdown, break_value, wake,
                     expiry, pending, overruns, overrun_count, clock, cycles, act>>
  BY DEF GetStart, stats, extremes
<1>2. now' \in Nat /\ clock <= now' + Late
  <2>1. PICK d \in Shifts \cup {0} : now' = clock + d
    BY DEF GetStart
  <2>2. d \in Int /\ d >= -Late
    BY ShiftAssumption
  <2>3. QED
    BY <2>1, <2>2
<1> DEFINE n == now'
<1>3. /\ n \in Nat /\ clock <= n + Late
      /\ now' = n /\ next' = n + Interval
      /\ stop' = (IF duration # 0 THEN n + duration ELSE None)
  BY <1>1, <1>2
<1> HIDE DEF n
<1>4. LoopType'
  <2>1. next' \in Nat
    BY <1>3
  <2>2. stop' \in Nat \cup {None}
    BY <1>3
  <2>3. now' \in Nat
    BY <1>3
  <2>4. shutdown' \in BOOLEAN /\ pending' \in BOOLEAN /\ abstime' \in BOOLEAN
        /\ aligned' \in BOOLEAN
    BY <1>1, Zenon
  <2>5. /\ mode' \in Modes /\ max_cycles' \in Nat /\ duration' \in Nat
        /\ break_value' \in Unsigned \cup {None} /\ wake' \in Nat
        /\ clock' \in Nat /\ clock' >= Late /\ waited' \in 0..Late
        /\ expiry' \in Nat \cup {None} /\ overruns' \in Nat /\ overrun_count' \in Nat
    BY <1>1
  <2>6. pc' \in Places
    BY <1>1 DEF Places
  <2>7. QED
    BY <2>1, <2>2, <2>3, <2>4, <2>5, <2>6
<1>5. SleepInv'
  <2>1. clock' + Interval <= next' + Late + waited'
    BY <1>1, <1>3
  <2>2. QED
    BY <1>1, <2>1 DEF SleepInv, HasTimer, Absolute
<1>6. GridInv'
  <2>1. ASSUME stop' # None PROVE (next' - stop' + duration') % Interval = 0
    <3>1. /\ stop' = n + duration /\ next' = n + Interval /\ duration' = duration
          /\ n \in Nat /\ duration \in Nat
      BY <1>1, <1>3, <2>1
    <3>2. n + Interval - (n + duration) + duration = Interval
      BY <1>3
    <3>3. Interval % Interval = 0
      OBVIOUS
    <3>4. next' - stop' + duration' = Interval
      BY <3>1, <3>2
    <3>5. QED
      BY <3>3, <3>4
  <2>2. QED
    BY <1>1, <2>1 DEF GridInv, Absolute, OnGrid
<1>7. QED
  BY <1>4, <1>5, <1>6 DEF Moves

LEMMA ArmMoves ==
  ASSUME LoopInv, Arm
  PROVE  Moves
<1> USE DEF LoopInv, LoopType
<1> DEFINE first == IF mode = "cyclic" /\ abstime THEN next ELSE clock + Interval
           missed == (clock - first) \div Interval
<1>1. /\ pc = "arm" /\ pc' = "loop" /\ waited' = 0
      /\ UNCHANGED <<mode, abstime, aligned, max_cycles, duration, now, next, stop, shutdown,
                     break_value, wake, overrun_count, clock, cycles, act>>
  BY DEF Arm, stats, extremes
<1>2. expiry' \in Nat \cup {None} /\ pending' \in BOOLEAN /\ overruns' \in Nat
  <2>1. first \in Nat
    OBVIOUS
  <2>2. \/ UNCHANGED <<expiry, overruns>>
        \/ expiry' = first /\ UNCHANGED overruns
        \/ /\ first <= clock /\ overruns' = missed
           /\ expiry' = first + (missed + 1) * Interval
    BY DEF Arm
  <2>6. pending' = TRUE \/ pending' = pending
    BY Zenon DEF Arm
  <2>7. pending' \in BOOLEAN
    BY <2>6, Zenon
  <2>3. first <= clock => missed \in Nat
    BY <2>1
  <2>4. first <= clock => (missed + 1) * Interval \in Nat
    BY <2>3
  <2> HIDE DEF first, missed
  <2>5. QED
    BY <2>1, <2>2, <2>3, <2>4, <2>7
<1>3. LoopType'
  BY <1>1, <1>2 DEF Places
<1>4. SleepInv'
  BY <1>1 DEF SleepInv, HasTimer, Absolute
<1>5. GridInv'
  BY <1>1 DEF GridInv, Absolute, OnGrid
<1>6. QED
  BY <1>3, <1>4, <1>5 DEF Moves

LEMMA LoopMoves ==
  ASSUME LoopInv, Loop
  PROVE  Moves
<1> USE DEF LoopInv, LoopType
<1>1. /\ pc = "loop" /\ waited' = 0
      /\ UNCHANGED <<mode, abstime, aligned, max_cycles, duration, next, stop, shutdown, break_value,
                     expiry, pending, overruns, overrun_count, clock, cycles, act>>
  BY DEF Loop, stats, extremes
<1>2. \/ pc' = "out" /\ UNCHANGED <<now, wake>>
      \/ HasTimer /\ pc' = "sigwait" /\ UNCHANGED <<now, wake>>
      \/ Absolute /\ pc' = "sleep" /\ wake' = next /\ UNCHANGED now
      \/ ~ HasTimer /\ ~ Absolute /\ pc' = "relsleep" /\ now' = clock /\ UNCHANGED wake
  BY DEF Loop, Absolute
<1>3. LoopType' /\ SleepInv'
  BY <1>1, <1>2 DEF SleepInv, HasTimer, Absolute, Places
<1>4. GridInv'
  BY <1>1, <1>2 DEF GridInv, HasTimer, Absolute, OnGrid
<1>5. QED
  BY <1>3, <1>4 DEF Moves

LEMMA SleepMoves ==
  ASSUME LoopInv, RelSleep \/ SigWait \/ Wake
  PROVE  Moves
<1> USE DEF LoopInv, LoopType
<1>1. /\ waited' = 0
      /\ UNCHANGED <<mode, abstime, aligned, max_cycles, duration, now, stop, shutdown, break_value,
                     expiry, clock, cycles, act>>
  BY DEF RelSleep, SigWait, Wake, stats, extremes
<1>2. \/ /\ pc = "relsleep" /\ pc' = "sleep" /\ wake' = clock + Interval
         /\ UNCHANGED <<next, overruns, overrun_count>>
      \/ /\ pc = "sigwait" /\ pc' = "read" /\ overruns' = 0
         /\ overrun_count' = (IF mode = "cyclic" THEN overruns ELSE 0)
         /\ UNCHANGED <<next, wake>>
      \/ /\ pc = "sleep" /\ wake <= clock /\ pc' = "read"
         /\ next' = (IF Absolute THEN next ELSE now + Interval)
         /\ UNCHANGED <<wake, overruns, overrun_count>>
  BY DEF RelSleep, SigWait, Wake, SleepIsOver, Absolute
<1>3. LoopType'
  <2>1. pending' = FALSE \/ pending' = pending
    BY Zenon DEF RelSleep, SigWait, Wake
  <2>2. pending' \in BOOLEAN
    BY <2>1, Zenon
  <2>3. QED
    BY <1>1, <1>2, <2>2 DEF Places
<1>4. SleepInv'
  BY <1>1, <1>2 DEF SleepInv, HasTimer, Absolute
<1>5. GridInv'
  BY <1>1, <1>2 DEF GridInv, Absolute, OnGrid
<1>6. QED
  BY <1>3, <1>4, <1>5 DEF Moves

LEMMA LeaveMoves ==
  ASSUME LoopInv, Interrupted \/ Out
  PROVE  Moves
<1> USE DEF LoopInv, LoopType
<1>1. /\ waited' = 0 /\ pc' \in {"out", "done"} /\ pc \notin {"start", "arm"}
      /\ expiry' \in Nat \cup {None} /\ pending' \in BOOLEAN
      /\ UNCHANGED <<mode, abstime, aligned, max_cycles, duration, now, next, stop, shutdown,
                     break_value, wake, overruns, overrun_count, clock, cycles, act>>
  BY DEF Interrupted, Out, stats, extremes
<1>2. LoopType' /\ SleepInv' /\ GridInv'
  BY <1>1 DEF SleepInv, HasTimer, GridInv, Absolute, OnGrid, Places
<1>3. QED
  BY <1>2 DEF Moves

LEMMA ReadClockMoves ==
  ASSUME LoopInv, ReadClock
  PROVE  Moves
<1> USE DEF LoopInv, LoopType
<1>1. /\ pc = "read" /\ pc' = "record" /\ waited' = 0 /\ now' = clock
      /\ UNCHANGED <<mode, abstime, aligned, max_cycles, duration, next, stop, shutdown, break_value,
                     wake, expiry, pending, overruns, overrun_count, clock, cycles, act>>
  BY DEF ReadClock, stats, extremes
<1>2. LoopType' /\ SleepInv' /\ GridInv'
  BY <1>1 DEF SleepInv, HasTimer, GridInv, Absolute, OnGrid, Places
<1>3. QED
  BY <1>2 DEF Moves

LEMMA RecordMoves ==
  ASSUME LoopInv, Record
  PROVE  Moves /\ (~ HasTimer => NoneWrapped)'
<1> USE DEF LoopInv, LoopType
<1>1. /\ pc = "record" /\ pc' = "count" /\ waited' = 0
      /\ UNCHANGED <<mode, abstime, aligned, max_cycles, duration, now, next, stop, wake,
                     expiry, pending, overruns, overrun_count, clock, cycles>>
  BY DEF Record, Store
<1>2. Diff \in Unsigned /\ act' = AsLong(Diff) /\ samples' = Append(samples, Diff)
  BY DiffRange DEF Record, Store, Extremes
<1>3. LoopType'
  <2>1. shutdown' \in BOOLEAN
    BY Zenon DEF Record
  <2>2. break_value' \in Unsigned \cup {None}
    BY <1>2, Zenon DEF Record
  <2>3. QED
    BY <1>1, <2>1, <2>2 DEF Places
<1>4. SleepInv'
  BY <1>1 DEF SleepInv, HasTimer, Absolute
<1>5. GridInv'
  <2>1. now = next => AsLong(Diff) = 0
    <3>1. ASSUME now = next PROVE AsLong(Diff) = 0
      <4>1. now - next = 0
        BY <3>1
      <4>2. Diff = 0
        BY <4>1, WordAssumption, SmallIsItself DEF Diff
      <4>3. QED
        BY <4>2, WordAssumption DEF AsLong
    <3>2. QED
      BY <3>1
  <2>2. QED
    BY <1>1, <1>2, <2>1 DEF GridInv, Absolute, OnGrid
<1>6. ASSUME ~ HasTimer PROVE NoneWrapped'
  <2>1. next <= now /\ now <= next + 5 * Late
    BY <1>1, <1>6 DEF SleepInv
  <2>2. now - next \in Nat /\ 2 * (now - next) < Word
    <3>1. now - next \in Nat /\ now - next <= 5 * Late
      BY <2>1
    <3>2. Word \in Nat
      BY WordAssumption
    <3>3. QED
      BY <3>1, <3>2
  <2>3. Diff = now - next
    BY <2>2, SmallIsItself, WordAssumption DEF Diff
  <2>4. samples \in Seq(Unsigned) /\ NoneWrapped
    BY <1>6 DEF IInv, StatsTypeOK
  <2>5. Len(samples) \in Nat /\ Len(samples') = Len(samples) + 1
    BY <1>2, <2>4
  <2>6. ASSUME NEW i \in 1..Len(samples') PROVE 2 * samples'[i] < Word
    <3>1. CASE i = Len(samples) + 1
      <4>1. samples'[i] = Diff
        BY <1>2, <2>4, <3>1
      <4>2. QED
        BY <2>2, <2>3, <4>1
    <3>2. CASE i \in 1..Len(samples)
      <4>1. samples'[i] = samples[i]
        BY <1>2, <2>4, <3>2
      <4>2. QED
        BY <2>4, <3>2, <4>1 DEF NoneWrapped
    <3>3. QED
      BY <2>5, <3>1, <3>2
  <2>7. QED
    BY <2>6 DEF NoneWrapped
<1>7. QED
  BY <1>1, <1>3, <1>4, <1>5, <1>6 DEF Moves, HasTimer

LEMMA CountMoves ==
  ASSUME LoopInv, Count
  PROVE  Moves
<1> USE DEF LoopInv, LoopType
<1> DEFINE extra == IF mode = "cyclic" THEN overrun_count * Interval ELSE 0
           period == next + Interval + extra
<1>1. /\ pc = "count" /\ pc' \in {"out", "loop"} /\ waited' = 0
      /\ UNCHANGED <<mode, abstime, aligned, max_cycles, duration, now, stop, shutdown, break_value,
                     wake, expiry, pending, overruns, overrun_count, clock, act>>
  BY DEF Count, CountCycle, extremes
<1>2. next' = CatchUp(period)
  BY DEF Count
<1>3. period \in Nat
  <2>1. overrun_count * Interval \in Nat
    OBVIOUS
  <2>2. QED
    BY <2>1
<1> HIDE DEF period
<1>4. /\ next' \in Nat /\ now <= next'
      /\ now <= period => next' = period
      /\ now > period => next' < now + Interval
      /\ \E k \in Nat : next' = period + k * Interval
  BY <1>2, <1>3, CatchUpFirst
<1>5. LoopType'
  BY <1>1, <1>4 DEF Places
<1>6. SleepInv'
  BY <1>1, <1>4 DEF SleepInv, HasTimer, Absolute
<1>7. GridInv'
  <2>1. SUFFICES ASSUME Absolute PROVE GridInv'
    BY <1>1 DEF GridInv, Absolute
  <2>2. period = next + Interval
    BY <2>1 DEF period, Absolute
  <2>3. next <= now => next' <= now + Interval /\ (next' = now + Interval => now = next)
    BY <1>4, <2>2
  <2>4. ASSUME stop # None PROVE OnGrid(next')
    <3>1. PICK k \in Nat : next' = period + k * Interval
      BY <1>4
    <3>2. next' = next + (1 + k) * Interval
      <4>1. (1 + k) * Interval = Interval + k * Interval /\ k * Interval \in Nat
        OBVIOUS
      <4>2. QED
        BY <2>2, <3>1, <4>1
    <3>3. OnGrid(next) /\ stop \in Int /\ duration \in Int /\ next \in Int
      BY <1>1, <2>1, <2>4 DEF GridInv
    <3>4. OnGrid(next + (1 + k) * Interval)
      <4>1. 1 + k \in Int
        OBVIOUS
      <4>2. QED
        BY <3>3, <4>1, GridStep
    <3>5. QED
      BY <3>2, <3>4
  <2>5. next <= now
    BY <1>1, <2>1 DEF SleepInv, HasTimer, Absolute
  <2>6. now = next => act' = 0
    BY <1>1, <2>1 DEF GridInv
  <2>7. QED
    BY <1>1, <1>4, <2>3, <2>4, <2>5, <2>6 DEF GridInv, Absolute, OnGrid
<1>8. QED
  BY <1>5, <1>6, <1>7 DEF Moves

LEMMA OthersMove ==
  ASSUME LoopInv, Shutdown \/ Display \/ UNCHANGED vars
  PROVE  Moves
<1> USE DEF LoopInv, LoopType
<1>1. /\ UNCHANGED <<mode, abstime, aligned, max_cycles, duration, now, next, stop, break_value, pc,
                     wake, expiry, pending, overruns, overrun_count, clock, waited>>
      /\ UNCHANGED <<cycles, act>>
  BY DEF Shutdown, Display, PrintStat, vars, stats, extremes
<1>2. shutdown' = TRUE \/ shutdown' = shutdown
  BY Zenon DEF Shutdown, Display, vars
<1>3. shutdown' \in BOOLEAN
  BY <1>2, Zenon
<1>4. LoopType'
  BY <1>1, <1>3
<1>5. SleepInv' /\ GridInv'
  BY <1>1 DEF SleepInv, HasTimer, GridInv, Absolute, OnGrid
<1>6. QED
  BY <1>4, <1>5 DEF Moves

LEMMA LoopPreserved == LoopInv /\ [Next]_vars => LoopInv'
<1> SUFFICES ASSUME LoopInv, [Next]_vars PROVE LoopInv'
  OBVIOUS
<1>1. Moves
  <2>1. ASSUME Thread PROVE Moves
    BY <2>1, GetStartMoves, ArmMoves, LoopMoves, SleepMoves, LeaveMoves, ReadClockMoves,
       RecordMoves, CountMoves DEF Thread
  <2>2. QED
    BY <2>1, TickMoves, OthersMove DEF Next, Terminated
<1>2. IInv'
  BY LoopStepsStats, StatsPreserved DEF LoopInv
<1>3. (~ HasTimer => NoneWrapped)'
  <2>1. CASE Record
    BY <2>1, RecordMoves
  <2>2. CASE ~ Record
    <3>1. UNCHANGED samples
      BY <2>2 DEF Next, Thread, Tick, Shutdown, Terminated, vars, GetStart, Arm, Loop,
         RelSleep, SigWait, Wake, Interrupted, ReadClock, Count, CountCycle, Out, Display,
         PrintStat, stats
    <3>2. UNCHANGED mode
      BY <2>2 DEF Next, Thread, Tick, Shutdown, Terminated, vars, GetStart, Arm, Loop,
         RelSleep, SigWait, Wake, Interrupted, ReadClock, Count, Out, Display
    <3>3. QED
      BY <3>1, <3>2 DEF LoopInv, HasTimer, NoneWrapped
  <2>3. QED
    BY <2>1, <2>2
<1>4. QED
  BY <1>1, <1>2, <1>3 DEF LoopInv, Moves

------------------------------------------------------------------------------
(***************************************************************************)
(* Theorems                                                                *)
(***************************************************************************)
\* Every variable keeps its type, for every interval and every delay.
THEOREM LoopTypeCorrect == Spec => []TypeOK
<1>1. LoopInv => TypeOK
  BY DEF LoopInv, LoopType, IInv, TypeOK, Places
<1>2. QED
  BY <1>1, LoopInitially, LoopPreserved, PTL DEF Spec

\* The loop implements the statistics of CyclicStats, on which it has no
\* other effect than to record a latency and to count it.
THEOREM LoopImplementsStats == Spec => StatsSpec
<1>1. Init => StatsInit
  BY DEF Init
<1>2. LoopInv /\ [Next]_vars => [StatsNext]_stats
  BY LoopStepsStats DEF LoopInv
<1>3. QED
  BY <1>1, <1>2, LoopInitially, LoopPreserved, PTL DEF Spec, StatsSpec

\* The histogram of a run is exact at every moment, in every mode.
THEOREM LoopHistogramExact == Spec => []HistogramExact
BY LoopImplementsStats, StatsHistogramExact, PTL

\* min and max are the extremes of a run's latencies as long as none wraps.
THEOREM LoopExtremesExact == Spec => []ExtremesExact
BY LoopImplementsStats, StatsExtremesExact, PTL

\* The lines main prints of a run are the maxima of their groups unless the ring was
\* lapped, wherever main's display meets the thread.
THEOREM LoopReportsMaxima == Spec => []ReportsAreMaxima
BY LoopImplementsStats, StatsReportsMaxima, PTL

\* Sleeping never measures a negative latency, for every interval and every
\* delay that is small against the range of the word.
THEOREM LoopNeverEarly == Spec => []NanosleepNeverEarly
<1>1. LoopInv => NanosleepNeverEarly
  BY DEF LoopInv, NanosleepNeverEarly
<1>2. QED
  BY <1>1, LoopInitially, LoopPreserved, PTL DEF Spec

\* With absolute clock_nanosleep the thread keeps to the grid it started on and
\* leaves out only periods that are over.
THEOREM LoopKeepsGrid == Spec => []GridKept
<1>1. LoopInv => GridKept
  BY DEF LoopInv, GridInv, GridKept, Absolute, OnGrid
<1>2. QED
  BY <1>1, LoopInitially, LoopPreserved, PTL DEF Spec
=============================================================================
