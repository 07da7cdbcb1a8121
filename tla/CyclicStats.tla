----------------------------- MODULE CyclicStats -----------------------------
(***************************************************************************)
(* struct thread_stat of examples/posix/cyclictest/cyclictest.c: the       *)
(* statistics one timer thread keeps of its latencies, and the verbose     *)
(* output main makes of them while the thread runs.                        *)
(*                                                                         *)
(* The thread records a latency in two steps, everything else before the   *)
(* increment of cycles, because main looks at cycles to see what it may    *)
(* read from the ring of values.  There is no lock; the two threads'       *)
(* accesses are taken in program order.  Both options, --histogram and     *)
(* --verbose, are on: without one its fields are not touched.              *)
(*                                                                         *)
(* The latency is a uint64_t, the fields are longs: Word is the number of  *)
(* values of either.  The variable samples is not in the program: it is    *)
(* every latency recorded so far, what the statistics are statistics of.   *)
(***************************************************************************)
EXTENDS Integers, Sequences, FiniteSets

CONSTANTS
  Word,       \* 2^64
  MinInit,    \* the first value of min: 1000000
  Histogram,  \* histogram, the number of its cells
  Ring,       \* VALBUF_SIZE, the number of values kept
  Reduction   \* oscope_reduction, the samples in a line of output

ASSUME WordAssumption  == Word \in Nat /\ Word > 0 /\ Word % 2 = 0
ASSUME MinAssumption   == MinInit \in Nat /\ 2 * MinInit < Word
ASSUME SizesAssumption ==
  Histogram \in Nat \ {0} /\ Ring \in Nat \ {0} /\ Reduction \in Nat \ {0}

VARIABLES
  cycles, min, max, act, avg, \* stat->cycles and so on; avg is the sum
  hist_array, hist_overflow,
  outliers,     \* stat->outliers[0 .. num_outliers - 1]
  values,       \* the ring
  stored,       \* the thread has recorded a latency and not yet counted it
  cyclesread, reduce, redmax, cycleofmax, \* the fields print_stat works with
  out,          \* the lines printed: the cycle and the value of each
  samples,      \* every latency recorded
  lapped        \* a value was overwritten before it was read

extremes == <<min, max, act, avg>>
histo    == <<hist_array, hist_overflow, outliers>>
reader   == <<cyclesread, reduce, redmax, cycleofmax, out>>
stats    == <<cycles, extremes, histo, values, stored, reader, samples, lapped>>

Unsigned == 0..Word - 1
Long     == -(Word \div 2)..(Word \div 2 - 1)

AsLongKept(u) == u                                                \* a mutant

\* The conversions C makes between the two when it stores or compares them.
AsLong(u) == IF 2 * u < Word THEN u ELSE u - Word
AsUnsigned(l) == l % Word

Cells == 0..Histogram - 1
Slots == 0..Ring - 1
------------------------------------------------------------------------------
StatsInit ==
  /\ cycles = 0 /\ min = MinInit /\ max = 0 /\ act = 0 /\ avg = 0
  /\ hist_array = [d \in Cells |-> 0] /\ hist_overflow = 0 /\ outliers = <<>>
  /\ values = [s \in Slots |-> 0]
  /\ stored = FALSE
  /\ cyclesread = 0 /\ reduce = 0 /\ redmax = 0 /\ cycleofmax = 0 /\ out = <<>>
  /\ samples = <<>> /\ lapped = FALSE

(***************************************************************************)
(* timerthread                                                             *)
(***************************************************************************)
ExtremesElse(diff) ==       \* a mutant: a new minimum cannot be a new maximum
  /\ min' = IF diff < AsUnsigned(min) THEN AsLong(diff) ELSE min
  /\ max' = IF diff >= AsUnsigned(min) /\ diff > AsUnsigned(max)
            THEN AsLong(diff) ELSE max
  /\ avg' = avg + diff
  /\ act' = AsLong(diff)

Extremes(diff) ==
  /\ min' = IF diff < AsUnsigned(min) THEN AsLong(diff) ELSE min
  /\ max' = IF diff > AsUnsigned(max) THEN AsLong(diff) ELSE max
  /\ avg' = avg + diff
  /\ act' = AsLong(diff)

\* A mutant: a latency of exactly the histogram's size has a cell.
CountInHistogramInclusive(diff) ==
  IF diff > Histogram
  THEN /\ hist_overflow' = hist_overflow + 1
       /\ outliers' = IF Len(outliers) < Histogram THEN Append(outliers, cycles)
                      ELSE outliers
       /\ UNCHANGED hist_array
  ELSE /\ hist_array' = [hist_array EXCEPT ![diff] = @ + 1]
       /\ UNCHANGED <<hist_overflow, outliers>>

\* A latency that has no cell is counted, and its cycle noted while there is room.
CountInHistogram(diff) ==
  IF diff >= Histogram
  THEN /\ hist_overflow' = hist_overflow + 1
       /\ outliers' = IF Len(outliers) < Histogram THEN Append(outliers, cycles)
                      ELSE outliers
       /\ UNCHANGED hist_array
  ELSE /\ hist_array' = [hist_array EXCEPT ![diff] = @ + 1]
       /\ UNCHANGED <<hist_overflow, outliers>>

Store(diff) ==
  /\ ~ stored
  /\ stored' = TRUE
  /\ Extremes(diff)
  /\ values' = [values EXCEPT ![cycles % Ring] = AsLong(diff)]
  /\ CountInHistogram(diff)
  /\ samples' = Append(samples, diff)
  /\ lapped' = (lapped \/ cycles - cyclesread >= Ring)
  /\ UNCHANGED <<cycles, reader>>

CountCycle ==
  /\ stored
  /\ stored' = FALSE
  /\ cycles' = cycles + 1
  /\ UNCHANGED <<extremes, histo, values, reader, samples, lapped>>

(***************************************************************************)
(* print_stat with verbose, one turn of its loop                           *)
(***************************************************************************)
ValueRead == values[cyclesread % Ring]

Top == IF ValueRead > redmax THEN ValueRead ELSE redmax

KeptMax == Top                                                    \* a mutant
ResetMax == 0

PrintStat ==
  /\ cycles # cyclesread
  /\ cyclesread' = cyclesread + 1
  /\ cycleofmax' = IF ValueRead > redmax THEN cyclesread ELSE cycleofmax
  /\ IF reduce + 1 = Reduction
     THEN /\ out' = Append(out, [cycle |-> cycleofmax', value |-> Top])
          /\ reduce' = 0 /\ redmax' = ResetMax
     ELSE /\ reduce' = reduce + 1 /\ redmax' = Top
          /\ UNCHANGED out
  /\ UNCHANGED <<cycles, extremes, histo, values, stored, samples, lapped>>

StatsNext == CountCycle \/ PrintStat \/ \E diff \in Unsigned : Store(diff)

StatsSpec == StatsInit /\ [][StatsNext]_stats
------------------------------------------------------------------------------
StatsTypeOK ==
  /\ cycles \in Nat /\ min \in Long /\ max \in Long /\ act \in Long /\ avg \in Nat
  /\ hist_array \in [Cells -> Nat] /\ hist_overflow \in Nat
  /\ outliers \in Seq(Nat)
  /\ values \in [Slots -> Long]
  /\ stored \in BOOLEAN /\ lapped \in BOOLEAN
  /\ cyclesread \in Nat /\ reduce \in 0..Reduction - 1 /\ redmax \in Long
  /\ cycleofmax \in Nat
  /\ out \in Seq([cycle : Nat, value : Long])
  /\ samples \in Seq(Unsigned)

\* The cycles whose latency is in D, counted from 0 as the code does.
CyclesIn(D) == {c \in 0..Len(samples) - 1 : samples[c + 1] \in D}
Overflows   == CyclesIn({d \in Unsigned : d >= Histogram})

\* The histogram loses and invents nothing: each cell counts the latencies of
\* its value, all others are counted as overflows, and the outliers are the
\* cycles of the first of these, in their order.
CellsExact == \A d \in Cells : hist_array[d] = Cardinality(CyclesIn({d}))

OverflowExact == hist_overflow = Cardinality(Overflows)

OutliersExact ==
  /\ Len(outliers) = IF hist_overflow < Histogram THEN hist_overflow ELSE Histogram
  /\ \A k \in 1..Len(outliers) :
       /\ outliers[k] \in Overflows
       /\ Cardinality({c \in Overflows : c < outliers[k]}) = k - 1

HistogramExact == CellsExact /\ OverflowExact /\ OutliersExact

\* While no latency has wrapped around, max is the largest latency, and min is
\* the smallest unless all are larger than min was at first.
NoneWrapped == \A i \in 1..Len(samples) : 2 * samples[i] < Word

ExtremesExact ==
  NoneWrapped =>
    /\ \A i \in 1..Len(samples) : min <= samples[i] /\ samples[i] <= max
    /\ min = MinInit \/ \E i \in 1..Len(samples) : min = samples[i]
    /\ max = 0 \/ \E i \in 1..Len(samples) : max = samples[i]

\* "output values on stdout for statistics", reduced: as long as the ring was
\* not lapped, line k stands for the k-th group of samples and shows the
\* largest of them, with the cycle it is from unless all are 0.
Group(k) == (k - 1) * Reduction..k * Reduction - 1

ReportsAreMaxima ==
  ~ lapped =>
    \A k \in 1..Len(out) :
      /\ Group(k) \subseteq 0..Len(samples) - 1
      /\ \A c \in Group(k) : AsLong(samples[c + 1]) <= out[k].value
      /\ out[k].value # 0 =>
           /\ out[k].cycle \in Group(k)
           /\ AsLong(samples[out[k].cycle + 1]) = out[k].value
==============================================================================
