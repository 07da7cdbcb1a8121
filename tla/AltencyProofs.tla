--------------------------- MODULE AltencyProofs ---------------------------
(***************************************************************************)
(* Safety of the latency test for every period, every histogram and every  *)
(* delay: each release of the timer is accounted for, and what the display *)
(* task shows, the summary says and the histograms hold is what was        *)
(* measured, though no lock protects the globals.                          *)
(***************************************************************************)
EXTENDS Altency, FiniteSetTheorems, WellFoundedInduction, TLAPS

(***************************************************************************)
(* The inductive invariant                                                 *)
(***************************************************************************)
Fields == ToSet(Stores)

\* Periods since the warm-up whose store to f is done.
Done(f) ==
  IF warmup THEN 0
  ELSE IF smp = "loop" \/ (smp = "store" /\ f \notin ToSet(todo)) THEN test_loops
  ELSE test_loops - 1

\* No task runs before main has started it.
StartInv ==
  /\ main \in {"alloc", "display"} => dsp = "unborn"
  /\ main \in {"alloc", "display", "sampling"} => smp = "unborn"

\* Where the sampler stands in its period, and how many samples that makes.
PlaceInv ==
  /\ warmup => dts = <<>> /\ smp \notin {"add", "check_extremes", "add_extremes", "store"}
  /\ warmup => test_loops = IF smp \in {"unborn", "start", "loop", "ended"} THEN 0 ELSE 1
  /\ ~ warmup => smp \notin {"unborn", "start", "warm", "ended"}
  /\ ~ warmup =>
       IF smp = "loop" THEN Len(dts) = test_loops * nsamples
       ELSE test_loops >= 1 /\ Len(dts) = (test_loops - 1) * nsamples + local.count
  /\ smp = "wait" => local.count < nsamples
  /\ local.old_relaxed <= sampling_relaxed
  /\ smp \in {"freeze", "check", "add"} => local.count > 0
  /\ smp \in {"warm", "check_extremes", "add_extremes", "store"} => local.count = nsamples
  /\ smp = "add_extremes" => todo = Stores
  /\ smp = "store" => \E k \in 1..Len(Stores) : todo = SubSeq(Stores, k, Len(Stores))

\* What the display task has still to copy.
ReadInv ==
  /\ dsp \in {"unborn", "create", "pend"} => toread = <<>>
  /\ dsp = "read" => \E k \in 1..Len(Reads) : toread = SubSeq(Reads, k, Len(Reads))

\* The sampler and the kernel agree on the next release, and every release since
\* the warm-up is a sample or an overrun, stored or still to store.
Overruns == g.goverrun + IF Done("goverrun") = test_loops THEN 0 ELSE local.overrun

ReleaseInv ==
  /\ local.expected_ns = release
  /\ warmup => g.goverrun = 0
  /\ ~ warmup => release = origin + period_ns * (Len(dts) + Overruns)

\* The clock is not far ahead of the next release.
LateInv == clock <= release \/ \E c \in Delays : clock - release < c[2] - c[1]

\* What holds however late the sampler comes.
AnyTimeInv == TypeOK /\ StartInv /\ PlaceInv /\ ReadInv /\ ReleaseInv

\* m is the minimum, or the maximum, of T and the value the program starts with.
Lowest(m, T)  == m \in T \cup {TEN_MILLIONS} /\ \A x \in T \cup {TEN_MILLIONS} : m <= x
Highest(m, T) == m \in T \cup {-TEN_MILLIONS} /\ \A x \in T \cup {-TEN_MILLIONS} : m >= x

\* The first m latencies, and those of a period.
First(m) == {dts[i] : i \in 1..m}
Of(j)    == {dts[i] : i \in (j - 1) * nsamples + 1..j * nsamples}

\* The period at hand.
Begun   == (test_loops - 1) * nsamples
Current == SubSeq(dts, Begun + 1, Len(dts))

\* What the sampler keeps in variables of its own is right for the period at hand.
PeriodInv ==
  /\ \A i \in 1..Len(dts) : dts[i] < Half
  /\ ~ warmup /\ smp # "loop" =>
       /\ Lowest(local.minj, {dts[i] : i \in Begun + 1..Len(dts)})
       /\ Highest(local.maxj, {dts[i] : i \in Begun + 1..Len(dts)})
       /\ Modest => /\ local.sumj = Total(Current)
                    /\ 0 <= local.sumj /\ local.sumj <= local.count * (2 * period_ns)
  /\ ~ warmup /\ smp \in {"freeze", "check", "add"} => local.dt = dts[Len(dts)]

\* Each global is right for the last period that stored to it.  The maximum over all
\* periods may hold samples of the period at hand, and with -f holds all of them.
MinInv  == Done("minjitter") > 0 => Lowest(g.minjitter, Of(Done("minjitter")))
MaxInv  == Done("maxjitter") > 0 => Highest(g.maxjitter, Of(Done("maxjitter")))
AvgInv  == Done("avgjitter") > 0 /\ Modest => g.avgjitter = AvgOf(Period(Done("avgjitter")))
BestInv == Lowest(g.gminjitter, First(Done("gminjitter") * nsamples))
Worst(w) ==
  /\ w \in Done("gmaxjitter") * nsamples..Len(dts)
  /\ Highest(g.gmaxjitter, First(w))
  /\ freeze_max /\ ~ finished /\ ~ warmup =>
       w = IF smp = "freeze" THEN Len(dts) - 1 ELSE Len(dts)
WorstInv == \E w \in Nat : Worst(w)

GlobalsInv ==
  /\ smp = "freeze" => freeze_max
  /\ MinInv /\ MaxInv /\ AvgInv /\ BestInv /\ WorstInv

\* What the display task has copied is not older than the period it was told of.
Copied(f) == pended > 0 /\ f \notin ToSet(toread)

SnapMin  == Copied("minjitter") => \E j \in pended..Measured : Lowest(snap.minjitter, Of(j))
SnapMax  == Copied("maxjitter") => \E j \in pended..Measured : Highest(snap.maxjitter, Of(j))
SnapAvg  ==
  Copied("avgjitter") /\ Modest => \E j \in pended..Measured : snap.avgjitter = AvgOf(Period(j))
SnapBest ==
  Copied("gminjitter") => \E j \in pended..Measured : Lowest(snap.gminjitter, First(j * nsamples))
SnapWorst ==
  Copied("gmaxjitter") =>
    \E w \in pended * nsamples..Len(dts) : Highest(snap.gmaxjitter, First(w))

SnapInv ==
  /\ pended + posts <= Done("post")
  /\ SnapMin /\ SnapMax /\ SnapAvg /\ SnapBest /\ SnapWorst

\* The sum of the averages, the number main divides it by, and the summary.
Averages(k) == Total([j \in 1..k |-> AvgOf(Period(j))])
MeanOf(k)   == IF k = 0 THEN 0 ELSE Averages(k) \div k
Summing == {"alloc", "display", "sampling", "sigwait", "cleanup", "loops", "divide"}
Reporting == {"dump", "free", "exit"}
Counted == {"divide", "copy", "dump", "free", "exit", "exited", "crashed"}

SumInv ==
  main \in Summing /\ Modest => g.gavgjitter = Averages(Done("gavgjitter"))
CutInv ==
  /\ main \notin Counted => cut = -1
  /\ cut # -1 => cut \in 0..Done("gavgjitter") /\ divisor = IF cut = 0 THEN 1 ELSE cut
MeanInv ==
  main \in Reporting \cup {"copy"} /\ cut = Done("gavgjitter") /\ Modest =>
    g.gavgjitter = MeanOf(cut)
ToldInv ==
  main \in Reporting /\ cut = Done("gavgjitter") =>
    /\ Modest => summary.gavg = MeanOf(cut)
    /\ \E m \in cut * nsamples..Len(dts) : Lowest(summary.gmin, First(m))
    /\ \E m \in cut * nsamples..Len(dts) : Highest(summary.gmax, First(m))

SummaryInv == SumInv /\ CutInv /\ MeanInv /\ ToldInv

\* The histograms: a sample, or the extremes of a period, not yet in them are those
\* the sampler is at.
Maxima(k)  == [j \in 1..k |-> MaxOf(Period(j))]
Minima(k)  == [j \in 1..k |-> MinOf(Period(j))]
Held(h, s) == s \in Seq(Nat) /\ h = Counts(s) /\ Hits(h) = Len(s)

SamplesHeld(m) ==
  /\ m <= Len(dts) /\ Held(histogram.avg, Until(m))
  /\ need_histo /\ ~ finished /\ ~ warmup =>
       m = IF smp \in {"freeze", "check", "add"} THEN Len(dts) - 1 ELSE Len(dts)
  /\ smp = "add" => m = Len(dts) - 1
PeriodsHeld(k) ==
  /\ k <= Measured /\ Held(histogram.max, Maxima(k)) /\ Held(histogram.min, Minima(k))
  /\ need_histo /\ ~ finished /\ ~ warmup =>
       k = IF smp \in {"loop", "store"} THEN test_loops ELSE test_loops - 1
  /\ smp = "add_extremes" => k = test_loops - 1

HistogramInv == (\E m \in Nat : SamplesHeld(m)) /\ (\E k \in Nat : PeriodsHeld(k))

\* What holds when every sample is in time.
InTimeInv == AnyTimeInv /\ LateInv /\ PeriodInv /\ GlobalsInv /\ SnapInv

(***************************************************************************)
(* Types, by the groups of variables the actions leave unchanged           *)
(***************************************************************************)
OptionsType ==
  /\ test_mode \in {"user", "kernel"}
  /\ freeze_max \in BOOLEAN /\ stop_upon_switch \in BOOLEAN /\ need_histo \in BOOLEAN
  /\ MaxPeriods \in Nat
MainType ==
  /\ main \in {"alloc", "display", "sampling", "sigwait", "cleanup", "loops", "divide", "copy",
               "dump", "free", "exit", "exited", "crashed"}
  /\ finished \in BOOLEAN /\ divisor \in Nat \ {0}
  /\ summary \in [gmin: Int, gmax: Int, gavg: Int] /\ cut \in Int
DisplayType ==
  /\ dsp \in {"unborn", "create", "pend", "read", "ended"}
  /\ snap \in [ToSet(Reads) -> Int] /\ toread \in Seq(ToSet(Reads)) /\ pended \in Nat
Int32 == -Half..Half - 1
LocalType ==
  local \in [count: 0..nsamples, minj: Int32, maxj: Int32, sumj: Int32, dt: Int32, overrun: Nat,
             expected_ns: Nat, old_relaxed: Nat]
SamplerType ==
  /\ smp \in {"unborn", "start", "loop", "wait", "freeze", "check", "add", "check_extremes",
              "add_extremes", "store", "warm", "ended"}
  /\ LocalType /\ todo \in Seq(Fields) /\ warmup \in BOOLEAN /\ test_loops \in Nat
  /\ dts \in Seq(Nat) /\ origin \in Nat
GlobalsType == g \in [Globals -> Int]
RelaxedType == sampling_relaxed \in Nat /\ max_relaxed \in Nat
SemType     == sem \in {"none", "live", "deleted"} /\ posts \in Nat
HistoType ==
  /\ histogram \in [{"avg", "min", "max"} -> [0..histogram_size - 1 -> Nat]]
  /\ mem \in {"none", "allocated", "freed"}
BenchType == bench \in {"idle", "running", "stopped"}
TimerType == release \in Nat /\ clock \in Nat

LEMMA TypeParts ==
  TypeOK <=> /\ OptionsType /\ MainType /\ DisplayType /\ SamplerType /\ GlobalsType
             /\ RelaxedType /\ SemType /\ HistoType /\ BenchType /\ TimerType
BY Zenon DEF TypeOK, OptionsType, MainType, DisplayType, SamplerType, LocalType, GlobalsType,
             RelaxedType, SemType, HistoType, BenchType, TimerType, Int32, Fields

LEMMA TypePartsNext ==
  ASSUME OptionsType', MainType', DisplayType', SamplerType', GlobalsType', RelaxedType',
         SemType', HistoType', BenchType', TimerType'
  PROVE  TypeOK'
BY Zenon DEF TypeOK, OptionsType, MainType, DisplayType, SamplerType, LocalType, GlobalsType,
             RelaxedType, SemType, HistoType, BenchType, TimerType, Int32, Fields

LEMMA TypesKept ==
  /\ OptionsType /\ UNCHANGED options => OptionsType'
  /\ MainType /\ UNCHANGED mainv => MainType'
  /\ DisplayType /\ UNCHANGED dspv => DisplayType'
  /\ SamplerType /\ UNCHANGED smpv => SamplerType'
  /\ GlobalsType /\ UNCHANGED g => GlobalsType'
  /\ RelaxedType /\ UNCHANGED relaxed => RelaxedType'
  /\ SemType /\ UNCHANGED semv => SemType'
  /\ HistoType /\ UNCHANGED histov => HistoType'
  /\ BenchType /\ UNCHANGED bench => BenchType'
  /\ TimerType /\ UNCHANGED timer => TimerType'
<1>1. OptionsType /\ UNCHANGED options => OptionsType'
  BY Zenon DEF OptionsType, options
<1>2. MainType /\ UNCHANGED mainv => MainType'
  BY Zenon DEF MainType, mainv
<1>3. DisplayType /\ UNCHANGED dspv => DisplayType'
  BY Zenon DEF DisplayType, dspv
<1>4. SamplerType /\ UNCHANGED smpv => SamplerType'
  BY Zenon DEF SamplerType, LocalType, smpv
<1>5. GlobalsType /\ UNCHANGED g => GlobalsType'
  BY Zenon DEF GlobalsType
<1>6. RelaxedType /\ UNCHANGED relaxed => RelaxedType'
  BY Zenon DEF RelaxedType, relaxed
<1>7. SemType /\ UNCHANGED semv => SemType'
  BY Zenon DEF SemType, semv
<1>8. HistoType /\ UNCHANGED histov => HistoType'
  BY Zenon DEF HistoType, histov
<1>9. BenchType /\ UNCHANGED bench => BenchType'
  BY Zenon DEF BenchType
<1>10. TimerType /\ UNCHANGED timer => TimerType'
  BY Zenon DEF TimerType, timer
<1>11. QED
  BY <1>1, <1>2, <1>3, <1>4, <1>5, <1>6, <1>7, <1>8, <1>9, <1>10

\* A second's worth of samples.
LEMMA SamplesPerPeriod ==
  /\ period_ns \in Nat \ {0} /\ nsamples \in Nat \ {0}
  /\ nsamples * period_ns \in Nat /\ nsamples * period_ns <= ONE_BILLION
BY PeriodAssumption DEF nsamples

\* C's conversion and division.
LEMMA Conversions ==
  /\ \A v \in Int : AsInt(v) \in Int32
  /\ \A v \in 0..Half - 1 : AsInt(v) = v
  /\ \A a \in Int, b \in Nat \ {0} : Quot(a, b) \in Int
  /\ \A a \in Nat, b \in Nat \ {0} : Quot(a, b) = a \div b
<1>1. Half \in Nat /\ Half > 0
  BY WordAssumption
<1> DEFINE word == 2 * Half
<1>2. word \in Nat /\ word > 0 /\ word = Half + Half
  BY <1>1
<1> HIDE DEF word
<1>3. ASSUME NEW v \in Int PROVE AsInt(v) \in Int32
  <2>1. (v + Half) % word \in 0..word - 1
    BY <1>1, <1>2
  <2>2. QED
    BY <1>1, <1>2, <2>1 DEF AsInt, Int32, word
<1>4. ASSUME NEW v \in 0..Half - 1 PROVE AsInt(v) = v
  <2>1. (v + Half) % word = v + Half
    BY <1>1, <1>2
  <2>2. QED
    BY <1>1, <2>1 DEF AsInt, word
<1>5. QED
  BY <1>3, <1>4 DEF Quot

(***************************************************************************)
(* What is still to store, or to copy                                      *)
(***************************************************************************)
LEMMA SameSequence ==
  ASSUME NEW S, NEW s \in Seq(S), NEW t \in Seq(S), Len(s) = Len(t),
         \A i \in 1..Len(s) : s[i] = t[i]
  PROVE  s = t
BY SMTT(30)

LEMMA Rest ==
  ASSUME NEW S, NEW s \in Seq(S), NEW k \in 1..Len(s)
  PROVE  LET t == SubSeq(s, k, Len(s)) IN
         /\ t \in Seq(S) /\ t # <<>> /\ Head(t) = s[k]
         /\ ToSet(t) = {s[i] : i \in k..Len(s)}
         /\ Tail(t) = SubSeq(s, k + 1, Len(s)) /\ ToSet(Tail(t)) = {s[i] : i \in k + 1..Len(s)}
         /\ Tail(t) = <<>> <=> k = Len(s)
<1> DEFINE L == Len(s)
           t == SubSeq(s, k, L)
           u == SubSeq(s, k + 1, L)
<1>1. L \in Nat /\ k \in 1..L
  OBVIOUS
<1>2. /\ t \in Seq(S) /\ Len(t) = L - k + 1 /\ \A i \in 1..L - k + 1 : t[i] = s[k + i - 1]
      /\ u \in Seq(S) /\ Len(u) = L - k /\ \A i \in 1..L - k : u[i] = s[k + i]
  BY <1>1
<1> HIDE DEF L, t, u
<1>3. t # <<>> /\ Head(t) = s[k]
  BY <1>1, <1>2
<1>4. Tail(t) = u
  <2>1. Tail(t) \in Seq(S) /\ Len(Tail(t)) = L - k /\ \A i \in 1..L - k : Tail(t)[i] = t[i + 1]
    BY <1>1, <1>2
  <2>2. ASSUME NEW i \in 1..L - k PROVE Tail(t)[i] = u[i]
    <3>1. i + 1 \in 1..L - k + 1 /\ k + (i + 1) - 1 = k + i
      BY <1>1
    <3>2. Tail(t)[i] = t[i + 1] /\ t[i + 1] = s[k + (i + 1) - 1] /\ u[i] = s[k + i]
      BY <1>2, <2>1, <3>1
    <3>3. QED
      BY <3>1, <3>2
  <2> DEFINE w == Tail(t)
  <2>3. w \in Seq(S) /\ Len(w) = Len(u) /\ \A i \in 1..Len(u) : w[i] = u[i]
    BY <1>2, <2>1, <2>2
  <2> HIDE DEF w
  <2>4. w = u
    BY <1>2, <2>3, SMTT(30)
  <2>5. QED
    BY <2>4 DEF w
<1>5. ToSet(t) = {s[i] : i \in k..L}
  <2>1. ASSUME NEW x \in ToSet(t) PROVE x \in {s[i] : i \in k..L}
    <3>1. PICK j \in 1..L - k + 1 : x = t[j]
      BY <1>1, <1>2 DEF ToSet
    <3>2. x = s[k + j - 1] /\ k + j - 1 \in k..L
      BY <1>1, <1>2, <3>1
    <3>3. QED
      BY <3>2
  <2>2. ASSUME NEW i \in k..L PROVE s[i] \in ToSet(t)
    <3>1. i - k + 1 \in 1..L - k + 1 /\ k + (i - k + 1) - 1 = i
      BY <1>1
    <3>2. s[i] = t[i - k + 1] /\ i - k + 1 \in DOMAIN t
      BY <1>1, <1>2, <3>1
    <3>3. QED
      BY <3>2 DEF ToSet
  <2>3. QED
    BY <2>1, <2>2
<1>6. ToSet(u) = {s[i] : i \in k + 1..L}
  <2>1. ASSUME NEW x \in ToSet(u) PROVE x \in {s[i] : i \in k + 1..L}
    <3>1. PICK j \in 1..L - k : x = u[j]
      BY <1>1, <1>2 DEF ToSet
    <3>2. x = s[k + j] /\ k + j \in k + 1..L
      BY <1>1, <1>2, <3>1
    <3>3. QED
      BY <3>2
  <2>2. ASSUME NEW i \in k + 1..L PROVE s[i] \in ToSet(u)
    <3>1. i - k \in 1..L - k /\ k + (i - k) = i
      BY <1>1
    <3>2. s[i] = u[i - k] /\ i - k \in DOMAIN u
      BY <1>1, <1>2, <3>1
    <3>3. QED
      BY <3>2 DEF ToSet
  <2>3. QED
    BY <2>1, <2>2
<1>7. u = <<>> <=> k = L
  BY <1>1, <1>2
<1>8. QED
  BY <1>2, <1>3, <1>4, <1>5, <1>6, <1>7 DEF t, u, L

LEMMA Lists ==
  /\ Stores \in Seq(Fields) /\ Len(Stores) = 8 /\ Stores[8] = "post"
  /\ \A i, j \in 1..8 : Stores[i] = Stores[j] => i = j
  /\ Stores[2] = "gminjitter" /\ Stores[4] = "gmaxjitter" /\ Stores[6] = "gavgjitter"
  /\ Fields = {"minjitter", "gminjitter", "maxjitter", "gmaxjitter", "avgjitter", "gavgjitter",
               "goverrun", "post"}
  /\ Globals = {"minjitter", "gminjitter", "maxjitter", "gmaxjitter", "avgjitter", "gavgjitter",
                "goverrun"}
  /\ Reads \in Seq(ToSet(Reads)) /\ Len(Reads) = 5
  /\ \A i, j \in 1..5 : Reads[i] = Reads[j] => i = j
  /\ ToSet(Reads) = {"minjitter", "gminjitter", "avgjitter", "maxjitter", "gmaxjitter"}
  /\ ToSet(<<>>) = {}
<1>1. /\ Len(Stores) = 8 /\ Stores[8] = "post" /\ \A i, j \in 1..8 : Stores[i] = Stores[j] => i = j
      /\ Stores[2] = "gminjitter" /\ Stores[4] = "gmaxjitter" /\ Stores[6] = "gavgjitter"
  BY DEF Stores
<1>2. Fields = {"minjitter", "gminjitter", "maxjitter", "gmaxjitter", "avgjitter", "gavgjitter",
                "goverrun", "post"}
  <2>1. \A i \in 1..8 : i = 1 \/ i = 2 \/ i = 3 \/ i = 4 \/ i = 5 \/ i = 6 \/ i = 7 \/ i = 8
    OBVIOUS
  <2>2. DOMAIN Stores = 1..8
    BY DEF Stores
  <2>3. QED
    BY <2>1, <2>2 DEF Fields, ToSet, Stores
<1>3. Stores \in Seq(Fields)
  BY <1>2 DEF Stores
<1>4. Globals = {"minjitter", "gminjitter", "maxjitter", "gmaxjitter", "avgjitter", "gavgjitter",
                 "goverrun"}
  BY <1>2 DEF Globals, Fields
<1>5. Len(Reads) = 5 /\ \A i, j \in 1..5 : Reads[i] = Reads[j] => i = j
  BY DEF Reads
<1>6. ToSet(Reads) = {"minjitter", "gminjitter", "avgjitter", "maxjitter", "gmaxjitter"}
  <2>1. \A i \in 1..5 : i = 1 \/ i = 2 \/ i = 3 \/ i = 4 \/ i = 5
    OBVIOUS
  <2>2. DOMAIN Reads = 1..5
    BY DEF Reads
  <2>3. QED
    BY <2>1, <2>2 DEF ToSet, Reads
<1>7. Reads \in Seq(ToSet(Reads))
  <2> DEFINE S == {"minjitter", "gminjitter", "avgjitter", "maxjitter", "gmaxjitter"}
  <2>1. Reads \in Seq(S)
    BY DEF Reads
  <2>2. QED
    BY <1>6, <2>1
<1>8. ToSet(<<>>) = {}
  BY DEF ToSet
<1>9. QED
  BY <1>1, <1>2, <1>3, <1>4, <1>5, <1>6, <1>7, <1>8

LEMMA StoresRest ==
  ASSUME NEW k \in 1..8, NEW t, t = SubSeq(Stores, k, 8)
  PROVE  /\ t \in Seq(Fields) /\ t # <<>> /\ Head(t) = Stores[k]
         /\ ToSet(t) = {Stores[i] : i \in k..8}
         /\ Tail(t) = SubSeq(Stores, k + 1, 8) /\ ToSet(Tail(t)) = {Stores[i] : i \in k + 1..8}
         /\ Tail(t) = <<>> <=> k = 8
<1> DEFINE s == Stores
<1>1. s \in Seq(Fields) /\ Len(s) = 8
  BY Lists
<1> HIDE DEF s
<1>2. k \in 1..Len(s)
  BY <1>1
<1>3. /\ SubSeq(s, k, Len(s)) \in Seq(Fields) /\ SubSeq(s, k, Len(s)) # <<>>
      /\ Head(SubSeq(s, k, Len(s))) = s[k]
      /\ ToSet(SubSeq(s, k, Len(s))) = {s[i] : i \in k..Len(s)}
      /\ Tail(SubSeq(s, k, Len(s))) = SubSeq(s, k + 1, Len(s))
      /\ ToSet(Tail(SubSeq(s, k, Len(s)))) = {s[i] : i \in k + 1..Len(s)}
      /\ Tail(SubSeq(s, k, Len(s))) = <<>> <=> k = Len(s)
  BY <1>1, <1>2, Rest, ZenonT(30)
<1>4. QED
  BY <1>1, <1>3 DEF s

LEMMA StoresWhole == Stores = SubSeq(Stores, 1, Len(Stores))
<1> DEFINE s == Stores
<1>1. s \in Seq(Fields)
  BY Lists
<1> HIDE DEF s
<1>2. s = SubSeq(s, 1, Len(s))
  BY <1>1
<1>3. QED
  BY <1>2 DEF s

LEMMA ReadsWhole == Reads = SubSeq(Reads, 1, Len(Reads))
<1> DEFINE s == Reads
<1>1. s \in Seq(ToSet(Reads))
  BY Lists
<1> HIDE DEF s
<1>2. s = SubSeq(s, 1, Len(s))
  BY <1>1
<1>3. QED
  BY <1>2 DEF s

LEMMA ReadsRest ==
  ASSUME NEW k \in 1..5, NEW t, t = SubSeq(Reads, k, 5)
  PROVE  /\ t \in Seq(ToSet(Reads)) /\ t # <<>> /\ Head(t) = Reads[k]
         /\ ToSet(t) = {Reads[i] : i \in k..5}
         /\ Tail(t) = SubSeq(Reads, k + 1, 5) /\ ToSet(Tail(t)) = {Reads[i] : i \in k + 1..5}
         /\ Tail(t) = <<>> <=> k = 5
<1> DEFINE s == Reads
           S == ToSet(Reads)
<1>1. s \in Seq(S) /\ Len(s) = 5
  BY Lists
<1> HIDE DEF s, S
<1>2. k \in 1..Len(s)
  BY <1>1
<1>3. /\ SubSeq(s, k, Len(s)) \in Seq(S) /\ SubSeq(s, k, Len(s)) # <<>>
      /\ Head(SubSeq(s, k, Len(s))) = s[k]
      /\ ToSet(SubSeq(s, k, Len(s))) = {s[i] : i \in k..Len(s)}
      /\ Tail(SubSeq(s, k, Len(s))) = SubSeq(s, k + 1, Len(s))
      /\ ToSet(Tail(SubSeq(s, k, Len(s)))) = {s[i] : i \in k + 1..Len(s)}
      /\ Tail(SubSeq(s, k, Len(s))) = <<>> <=> k = Len(s)
  BY <1>1, <1>2, Rest, ZenonT(30)
<1>4. QED
  BY <1>1, <1>3 DEF s, S

(***************************************************************************)
(* The types are kept                                                      *)
(***************************************************************************)
LEMMA MinMax ==
  ASSUME NEW a \in Int, NEW b \in Int
  PROVE  /\ Min({a, b}) = IF a <= b THEN a ELSE b
         /\ Max({a, b}) = IF a >= b THEN a ELSE b
BY DEF Min, Max

\* A turn of the sampling loop: the sampler looks at the clock at ready, is woken
\* d[1] later, when ov releases have gone by, and reads the clock d[2] after ready.
Turn(d, ready, ov) ==
  /\ release <= ready /\ clock <= ready /\ (ready = release \/ ready = clock)
  /\ period_ns * ov <= (ready + d[1]) - release /\ (ready + d[1]) - release < period_ns * (ov + 1)
  /\ clock' = ready + d[2] /\ release' = release + period_ns * (ov + 1)
  /\ LET dt == AsInt((ready + d[2]) - local.expected_ns) IN
     local' = [local EXCEPT
       !.dt = dt, !.maxj = IF local.maxj >= dt THEN local.maxj ELSE dt,
       !.minj = IF local.minj <= dt THEN local.minj ELSE dt, !.count = local.count + 1,
       !.sumj = AsInt(local.sumj + dt), !.overrun = local.overrun + ov,
       !.expected_ns = local.expected_ns + period_ns * (ov + 1), !.old_relaxed = sampling_relaxed]
  /\ dts' = IF warmup THEN dts ELSE Append(dts, (ready + d[2]) - release)

LEMMA DelayType ==
  ASSUME NEW d \in Delays PROVE d[1] \in Nat /\ d[2] \in Nat /\ d[1] <= d[2]
BY DelaysAssumption

LEMMA SampleIs ==
  ASSUME LocalType, TimerType, Sample
  PROVE  \E d \in Delays, ready \in Nat, ov \in Nat : Turn(d, ready, ov)
<1>1. release \in Nat /\ clock \in Nat /\ local.expected_ns \in Nat /\ local.maxj \in Int32
      /\ local.minj \in Int32 /\ Half \in Nat
  BY WordAssumption DEF LocalType, TimerType
<1> DEFINE ready   == Max({release, clock})
           late(e) == ready + e[1] - release
           dt_(e)  == AsInt((ready + e[2]) - local.expected_ns)
<1>2. PICK d \in Delays : TakeSample(ready + d[2], late(d) \div period_ns, dt_(d))
  BY DEF Sample
<1> DEFINE ov == late(d) \div period_ns
           dt == dt_(d)
<1>3. TakeSample(ready + d[2], ov, dt)
  BY <1>2
<1>12. /\ ready \in Nat /\ release <= ready /\ clock <= ready
      /\ (ready = release \/ ready = clock)
  <2>1. ready = IF release >= clock THEN release ELSE clock
    <3>1. release \in Int /\ clock \in Int
      BY <1>1
    <3>2. QED
      BY <3>1, MinMax
  <2> HIDE DEF ready
  <2>2. QED
    BY <1>1, <2>1
<1> HIDE DEF ready
<1>4. d[1] \in Nat /\ d[2] \in Nat /\ late(d) \in Nat /\ period_ns \in Nat \ {0}
  BY <1>1, <1>12, DelayType, SamplesPerPeriod
<1> HIDE DEF late
<1>5. ov \in Nat /\ period_ns * ov <= late(d) /\ late(d) < period_ns * (ov + 1)
  BY <1>4
<1>6. Advance(ov) = period_ns * (ov + 1)
  BY <1>4, <1>5 DEF Advance
<1>7. dt \in Int32
  <2>1. (ready + d[2]) - local.expected_ns \in Int
    BY <1>1, <1>12, <1>4
  <2>2. QED
    BY <2>1, Conversions
<1> HIDE DEF ov, dt, dt_
<1>8. /\ Max({local.maxj, dt}) = IF local.maxj >= dt THEN local.maxj ELSE dt
      /\ Min({local.minj, dt}) = IF local.minj <= dt THEN local.minj ELSE dt
  <2>1. local.maxj \in Int /\ local.minj \in Int /\ dt \in Int
    BY <1>1, <1>7 DEF Int32
  <2>2. QED
    BY <2>1, MinMax
<1>9. local' = [local EXCEPT
        !.dt = dt, !.maxj = IF local.maxj >= dt THEN local.maxj ELSE dt,
        !.minj = IF local.minj <= dt THEN local.minj ELSE dt, !.count = local.count + 1,
        !.sumj = AsInt(local.sumj + dt), !.overrun = local.overrun + ov,
        !.expected_ns = local.expected_ns + period_ns * (ov + 1),
        !.old_relaxed = sampling_relaxed]
  <2> HIDE DEF ov, dt
  <2>1. local' = [local EXCEPT
             !.dt = dt, !.maxj = Max({@, dt}), !.minj = Min({@, dt}),
             !.count = @ + 1, !.sumj = AsInt(@ + dt), !.overrun = @ + ov,
             !.expected_ns = @ + Advance(ov), !.old_relaxed = sampling_relaxed]
    BY <1>3 DEF TakeSample
  <2>2. QED
    BY <1>6, <1>8, <2>1
<1>10. Turn(d, ready, ov)
  <2>1. /\ clock' = ready + d[2] /\ release' = release + period_ns * (ov + 1)
        /\ dts' = IF warmup THEN dts ELSE Append(dts, (ready + d[2]) - release)
    BY <1>3, Zenon DEF TakeSample
  <2>2. dt = AsInt((ready + d[2]) - local.expected_ns)
    BY DEF dt, dt_
  <2>3. late(d) = (ready + d[1]) - release
    BY <1>1, <1>4, <1>12 DEF late
  <2>4. QED
    BY <1>12, <1>5, <1>9, <2>1, <2>2, <2>3 DEF Turn
<1>11. QED
  BY <1>12, <1>5, <1>10

LEMMA SampleTypes ==
  ASSUME TypeOK, local.count < nsamples, local.old_relaxed <= sampling_relaxed, Sample
  PROVE  TypeOK'
<1>1. /\ OptionsType /\ MainType /\ DisplayType /\ SamplerType /\ GlobalsType
      /\ RelaxedType /\ SemType /\ HistoType /\ BenchType /\ TimerType
  BY TypeParts
<1>2. PICK d \in Delays, ready \in Nat, ov \in Nat : Turn(d, ready, ov)
  BY <1>1, SampleIs DEF SamplerType
<1>3. /\ smp' = (IF freeze_max THEN "freeze" ELSE "check")
      /\ UNCHANGED options /\ UNCHANGED mainv /\ UNCHANGED dspv /\ UNCHANGED g
      /\ UNCHANGED semv /\ UNCHANGED histov /\ UNCHANGED bench
      /\ UNCHANGED <<todo, warmup, test_loops, origin, sampling_relaxed>>
      /\ \/ max_relaxed' = max_relaxed + sampling_relaxed - local.old_relaxed
         \/ max_relaxed' = max_relaxed
  BY Zenon DEF Sample, TakeSample
<1>4. TimerType'
  <2>1. period_ns * (ov + 1) \in Nat /\ d[2] \in Nat
    BY DelayType, SamplesPerPeriod
  <2>2. QED
    BY <1>1, <1>2, <2>1 DEF TimerType, Turn
<1>5. LocalType'
  <2> DEFINE dt == AsInt((ready + d[2]) - local.expected_ns)
             sum == AsInt(local.sumj + dt)
             further == local.expected_ns + period_ns * (ov + 1)
  <2>1. /\ local.count \in 0..nsamples /\ local.maxj \in Int32 /\ local.minj \in Int32
        /\ local.sumj \in Int32 /\ local.overrun \in Nat /\ local.expected_ns \in Nat
    BY <1>1 DEF SamplerType, LocalType
  <2>2. dt \in Int32
    <3>1. (ready + d[2]) - local.expected_ns \in Int
      BY <2>1, DelayType
    <3>2. QED
      BY <3>1, Conversions
  <2> HIDE DEF dt
  <2>3. sum \in Int32
    <3>1. local.sumj + dt \in Int
      BY <2>1, <2>2, WordAssumption DEF Int32
    <3>2. QED
      BY <3>1, Conversions
  <2>4. further \in Nat
    BY <2>1, SamplesPerPeriod
  <2>5. local.count + 1 \in 0..nsamples /\ local.overrun + ov \in Nat
    BY <2>1, SamplesPerPeriod
  <2>6. sampling_relaxed \in Nat
    BY <1>1 DEF RelaxedType
  <2>7. local' = [local EXCEPT
          !.dt = dt, !.maxj = IF local.maxj >= dt THEN local.maxj ELSE dt,
          !.minj = IF local.minj <= dt THEN local.minj ELSE dt, !.count = local.count + 1,
          !.sumj = sum, !.overrun = local.overrun + ov,
          !.expected_ns = further, !.old_relaxed = sampling_relaxed]
    BY <1>2 DEF Turn, dt
  <2> HIDE DEF sum, further
  <2>8. QED
    BY <1>1, <2>1, <2>2, <2>3, <2>4, <2>5, <2>6, <2>7 DEF SamplerType, LocalType
<1>6. SamplerType'
  <2>1. (ready + d[2]) - release \in Nat
    BY <1>1, <1>2, DelayType DEF Turn, TimerType
  <2>2. dts' \in Seq(Nat)
    BY <1>1, <1>2, <2>1 DEF Turn, SamplerType
  <2>3. warmup' \in BOOLEAN /\ UNCHANGED <<todo, test_loops, origin>>
    BY <1>1, <1>3, Zenon DEF SamplerType
  <2>4. smp' \in {"freeze", "check"}
    BY <1>3
  <2>5. QED
    BY <1>1, <1>5, <2>2, <2>3, <2>4 DEF SamplerType
<1>7. RelaxedType'
  <2>1. /\ sampling_relaxed \in Nat /\ max_relaxed \in Nat /\ local.old_relaxed \in Nat
        /\ local.old_relaxed <= sampling_relaxed
    BY <1>1 DEF RelaxedType, SamplerType, LocalType
  <2>2. QED
    BY <1>3, <2>1 DEF RelaxedType
<1>8. QED
  <2>1. OptionsType' /\ MainType' /\ DisplayType'
    BY <1>1, <1>3, TypesKept, Zenon
  <2>2. GlobalsType' /\ SemType' /\ HistoType' /\ BenchType'
    BY <1>1, <1>3, TypesKept, Zenon
  <2>3. QED
    BY <1>4, <1>6, <1>7, <2>1, <2>2, TypePartsNext, Zenon

\* Cells of the histograms.
LEMMA CellType ==
  ASSUME NEW v \in Int
  PROVE  Cell(v) \in 0..histogram_size - 1
<1> DEFINE a     == IF v >= 0 THEN v ELSE -v
           inabs == a \div bucketsize
<1>1. a \in Nat /\ bucketsize \in Nat \ {0} /\ histogram_size \in Nat \ {0}
  BY HistogramAssumption
<1> HIDE DEF a
<1>2. inabs \in Nat
  BY <1>1
<1>3. Cell(v) = IF inabs < histogram_size THEN inabs ELSE histogram_size - 1
  BY DEF Cell, a
<1> HIDE DEF inabs
<1>4. QED
  BY <1>1, <1>2, <1>3

LEMMA StoreTypes == ASSUME TypeOK, PlaceInv, Store PROVE TypeOK'
<1>1. /\ OptionsType /\ MainType /\ DisplayType /\ SamplerType /\ GlobalsType
      /\ RelaxedType /\ SemType /\ HistoType /\ BenchType /\ TimerType
  BY TypeParts
<1>2. /\ smp = "store" /\ todo' = Tail(todo) /\ smp' = IF todo' = <<>> THEN "loop" ELSE "store"
      /\ \/ Head(todo) = "post" /\ UNCHANGED g
            /\ posts' = IF sem = "live" THEN posts + 1 ELSE posts
         \/ /\ Head(todo) # "post" /\ g' = [g EXCEPT ![Head(todo)] = Stored[Head(todo)]]
            /\ UNCHANGED posts
      /\ UNCHANGED options /\ UNCHANGED mainv /\ UNCHANGED dspv /\ UNCHANGED relaxed
      /\ UNCHANGED histov /\ UNCHANGED bench /\ UNCHANGED timer
      /\ UNCHANGED <<local, warmup, test_loops, dts, origin, sem>>
  BY Zenon DEF Store
<1>3. PICK k \in 1..8 : todo = SubSeq(Stores, k, 8)
  BY <1>2, Lists DEF PlaceInv
<1>4. Head(todo) \in Fields /\ Tail(todo) \in Seq(Fields)
  <2>1. todo \in Seq(Fields) /\ todo # <<>>
    BY <1>3, StoresRest
  <2>2. QED
    BY <2>1
<1>5. SamplerType'
  <2>1. warmup' \in BOOLEAN
    BY <1>1, <1>2, Zenon DEF SamplerType
  <2>2. LocalType'
    BY <1>1, <1>2, Zenon DEF SamplerType, LocalType
  <2>3. smp' \in {"loop", "store"}
    BY <1>2
  <2>4. QED
    BY <1>1, <1>2, <1>4, <2>1, <2>2, <2>3 DEF SamplerType
<1>6. GlobalsType'
  <2>1. Stored \in [Globals -> Int]
    <3>1. /\ local.minj \in Int /\ local.maxj \in Int /\ local.sumj \in Int /\ local.overrun \in Nat
      BY <1>1, WordAssumption DEF SamplerType, LocalType, Int32
    <3>2. /\ g["minjitter"] \in Int /\ g["maxjitter"] \in Int /\ g["avgjitter"] \in Int
          /\ g["gminjitter"] \in Int /\ g["gmaxjitter"] \in Int /\ g["gavgjitter"] \in Int
          /\ g["goverrun"] \in Int
      BY <1>1, Lists DEF GlobalsType
    <3>3. Min({g.gminjitter, local.minj}) \in Int /\ Max({g.gmaxjitter, local.maxj}) \in Int
      <4>1. Min({g.gminjitter, local.minj}) \in Int
        BY <3>1, <3>2, MinMax
      <4>2. Max({g.gmaxjitter, local.maxj}) \in Int
        BY <3>1, <3>2, MinMax
      <4>3. QED
        BY <4>1, <4>2
    <3>4. Quot(local.sumj, nsamples) \in Int
      BY <3>1, SamplesPerPeriod, Conversions
    <3>5. g.gavgjitter + g.avgjitter \in Int /\ g.goverrun + local.overrun \in Int
      BY <3>1, <3>2
    <3>6. DOMAIN Stored = Globals
      BY Lists DEF Stored
    <3>7. QED
      BY <3>1, <3>3, <3>4, <3>5, Lists DEF Stored
  <2>2. QED
    BY <1>1, <1>2, <1>4, <2>1 DEF GlobalsType, Globals, Fields
<1>7. SemType'
  BY <1>1, <1>2 DEF SemType
<1>8. OptionsType' /\ MainType' /\ DisplayType' /\ RelaxedType'
  BY <1>1, <1>2, TypesKept, Zenon
<1>9. HistoType' /\ BenchType' /\ TimerType'
  BY <1>1, <1>2, TypesKept, Zenon
<1>10. QED
  BY <1>5, <1>6, <1>7, <1>8, <1>9, TypePartsNext, Zenon

LEMMA LoopTopTypes == ASSUME TypeOK, LoopTop PROVE TypeOK'
<1>1. /\ OptionsType /\ MainType /\ DisplayType /\ SamplerType /\ GlobalsType
      /\ RelaxedType /\ SemType /\ HistoType /\ BenchType /\ TimerType
  BY TypeParts
<1>2. /\ smp' = "wait" /\ test_loops' = test_loops + 1
      /\ local' = [local EXCEPT !.minj = TEN_MILLIONS, !.maxj = -TEN_MILLIONS, !.overrun = 0,
                                !.count = 0, !.sumj = 0]
      /\ UNCHANGED options /\ UNCHANGED mainv /\ UNCHANGED dspv /\ UNCHANGED relaxed
      /\ UNCHANGED histov /\ UNCHANGED bench /\ UNCHANGED timer /\ UNCHANGED g /\ UNCHANGED semv
      /\ UNCHANGED <<todo, warmup, dts, origin>>
  BY Zenon DEF LoopTop
<1>3. SamplerType'
  <2>1. warmup' \in BOOLEAN
    BY <1>1, <1>2, Zenon DEF SamplerType
  <2>2. LocalType'
    <3>1. TEN_MILLIONS \in Int32 /\ -TEN_MILLIONS \in Int32 /\ 0 \in Int32 /\ 0 \in 0..nsamples
      BY WordAssumption, SamplesPerPeriod DEF Int32
    <3>2. QED
      BY <1>1, <1>2, <3>1 DEF SamplerType, LocalType
  <2>3. QED
    BY <1>1, <1>2, <2>1, <2>2 DEF SamplerType
<1>4. OptionsType' /\ MainType' /\ DisplayType' /\ RelaxedType' /\ GlobalsType'
  BY <1>1, <1>2, TypesKept, Zenon
<1>5. SemType' /\ HistoType' /\ BenchType' /\ TimerType'
  BY <1>1, <1>2, TypesKept, Zenon
<1>6. QED
  BY <1>3, <1>4, <1>5, TypePartsNext, Zenon

\* The other steps of the sampler.
LEMMA SamplerTypes ==
  ASSUME TypeOK, PlaceInv, Sampler
  PROVE  TypeOK'
<1>1. /\ OptionsType /\ MainType /\ DisplayType /\ SamplerType /\ GlobalsType
      /\ RelaxedType /\ SemType /\ HistoType /\ BenchType /\ TimerType
  BY TypeParts
<1>2. CASE Sample
  BY <1>2, SampleTypes DEF PlaceInv, Sample
<1>3. CASE Store
  BY <1>3, StoreTypes
<1>4. CASE LoopTop
  BY <1>4, LoopTopTypes
<1>5. ASSUME UNCHANGED options, UNCHANGED mainv, UNCHANGED dspv, UNCHANGED relaxed,
             UNCHANGED semv, UNCHANGED histov, UNCHANGED bench, UNCHANGED timer,
             SamplerType', GlobalsType'
      PROVE  TypeOK'
  BY <1>1, <1>5, TypesKept, TypePartsNext, Zenon
<1>6. CASE Start \/ CheckSample \/ CheckExtremes \/ WarmUpEnds \/ Freeze
  <2>1. /\ UNCHANGED options /\ UNCHANGED mainv /\ UNCHANGED dspv /\ UNCHANGED relaxed
        /\ UNCHANGED semv /\ UNCHANGED histov /\ UNCHANGED bench /\ UNCHANGED timer
        /\ UNCHANGED <<local, dts>>
    BY <1>6, Zenon DEF Start, CheckSample, CheckExtremes, WarmUpEnds, Freeze
  <2>2. GlobalsType'
    <3>1. UNCHANGED g \/ g' = [g EXCEPT !.gmaxjitter = local.dt]
      BY <1>6 DEF Start, CheckSample, CheckExtremes, WarmUpEnds, Freeze
    <3>2. local.dt \in Int
      BY <1>1, WordAssumption DEF SamplerType, LocalType, Int32
    <3>3. QED
      BY <1>1, <3>1, <3>2 DEF GlobalsType
  <2>3. SamplerType'
    <3>1. smp' \in {"loop", "ended", "add", "wait", "warm", "check_extremes", "add_extremes",
                    "store", "check"}
      BY <1>6 DEF Start, CheckSample, CheckExtremes, WarmUpEnds, Freeze, AfterSample
    <3>2. warmup' = FALSE \/ warmup' = warmup
      BY <1>6, Zenon DEF Start, CheckSample, CheckExtremes, WarmUpEnds, Freeze
    <3>3. warmup' \in BOOLEAN
      BY <1>1, <3>2, Zenon DEF SamplerType
    <3>4. todo' \in Seq(Fields)
      <4>1. todo' = Stores \/ todo' = todo
        BY <1>6, Zenon DEF Start, CheckSample, CheckExtremes, WarmUpEnds, Freeze
      <4>2. QED
        BY <1>1, <4>1, Lists, Zenon DEF SamplerType
    <3>5. test_loops' \in Nat /\ origin' \in Nat
      BY <1>1, <1>6 DEF Start, CheckSample, CheckExtremes, WarmUpEnds, Freeze, LoopsReset,
                        SamplerType, TimerType
    <3>6. LocalType' /\ dts' \in Seq(Nat)
      BY <1>1, <2>1, Zenon DEF SamplerType, LocalType
    <3>7. QED
      BY <3>1, <3>3, <3>4, <3>5, <3>6 DEF SamplerType
  <2>4. QED
    BY <1>5, <2>1, <2>2, <2>3
<1>7. CASE AddSample \/ AddExtremes
  <2>1. /\ UNCHANGED options /\ UNCHANGED mainv /\ UNCHANGED dspv /\ UNCHANGED relaxed
        /\ UNCHANGED semv /\ UNCHANGED g /\ UNCHANGED bench /\ UNCHANGED timer
        /\ UNCHANGED <<local, todo, warmup, test_loops, dts, origin, mem>>
    BY <1>7, Zenon DEF AddSample, AddExtremes
  <2>2. SamplerType'
    <3>1. smp' \in {"wait", "warm", "check_extremes", "store"}
      BY <1>7 DEF AddSample, AddExtremes, AfterSample
    <3>2. LocalType' /\ warmup' \in BOOLEAN
      BY <1>1, <2>1, Zenon DEF SamplerType, LocalType
    <3>3. QED
      BY <1>1, <2>1, <3>1, <3>2 DEF SamplerType
  <2>3. HistoType'
    <3>1. local.dt \in Int /\ local.maxj \in Int /\ local.minj \in Int
      BY <1>1, WordAssumption DEF SamplerType, LocalType, Int32
    <3>2. /\ Cell(local.dt) \in 0..histogram_size - 1 /\ Cell(local.maxj) \in 0..histogram_size - 1
          /\ Cell(local.minj) \in 0..histogram_size - 1
      BY <3>1, CellType
    <3>3. \/ histogram' = [histogram EXCEPT !.avg[Cell(local.dt)] = @ + 1]
          \/ histogram' = [histogram EXCEPT !.max[Cell(local.maxj)] = @ + 1,
                                            !.min[Cell(local.minj)] = @ + 1]
      BY <1>7 DEF AddSample, AddExtremes
    <3>4. histogram' \in [{"avg", "min", "max"} -> [0..histogram_size - 1 -> Nat]]
      <4>1. \A h \in [0..histogram_size - 1 -> Nat] : \A c \in 0..histogram_size - 1 :
              [h EXCEPT ![c] = @ + 1] \in [0..histogram_size - 1 -> Nat]
        OBVIOUS
      <4>7. /\ histogram.avg \in [0..histogram_size - 1 -> Nat]
            /\ histogram.max \in [0..histogram_size - 1 -> Nat]
            /\ histogram.min \in [0..histogram_size - 1 -> Nat]
        BY <1>1 DEF HistoType
      <4>2. /\ [histogram.avg EXCEPT ![Cell(local.dt)] = @ + 1] \in [0..histogram_size - 1 -> Nat]
            /\ [histogram.max EXCEPT ![Cell(local.maxj)] = @ + 1] \in [0..histogram_size - 1 -> Nat]
            /\ [histogram.min EXCEPT ![Cell(local.minj)] = @ + 1] \in [0..histogram_size - 1 -> Nat]
        BY <3>2, <4>1, <4>7
      <4>3. \/ histogram' = [histogram EXCEPT
                  !.avg = [histogram.avg EXCEPT ![Cell(local.dt)] = @ + 1]]
            \/ histogram' = [histogram EXCEPT
                  !.max = [histogram.max EXCEPT ![Cell(local.maxj)] = @ + 1],
                  !.min = [histogram.min EXCEPT ![Cell(local.minj)] = @ + 1]]
        BY <3>3
      <4> DEFINE F == [0..histogram_size - 1 -> Nat]
                 avg == [histogram.avg EXCEPT ![Cell(local.dt)] = @ + 1]
                 max == [histogram.max EXCEPT ![Cell(local.maxj)] = @ + 1]
                 min == [histogram.min EXCEPT ![Cell(local.minj)] = @ + 1]
      <4>4. /\ avg \in F /\ max \in F /\ min \in F /\ histogram \in [{"avg", "min", "max"} -> F]
            /\ \/ histogram' = [histogram EXCEPT !.avg = avg]
               \/ histogram' = [histogram EXCEPT !.max = max, !.min = min]
        BY <1>1, <4>2, <4>3 DEF HistoType
      <4> HIDE DEF F, avg, max, min
      <4>5. histogram' \in [{"avg", "min", "max"} -> F]
        BY <4>4
      <4>6. QED
        BY <4>5 DEF F
    <3>5. QED
      BY <1>1, <2>1, <3>4 DEF HistoType
  <2>4. OptionsType' /\ MainType' /\ DisplayType' /\ RelaxedType' /\ GlobalsType'
    BY <1>1, <2>1, TypesKept, Zenon
  <2>5. SemType' /\ BenchType' /\ TimerType'
    BY <1>1, <2>1, TypesKept, Zenon
  <2>6. QED
    BY <2>2, <2>3, <2>4, <2>5, TypePartsNext, Zenon
<1>8. CASE WaitFails \/ sigdebug
  <2>1. /\ UNCHANGED options /\ UNCHANGED smpv /\ UNCHANGED dspv /\ UNCHANGED g
        /\ UNCHANGED semv /\ UNCHANGED histov /\ UNCHANGED bench /\ UNCHANGED timer
        /\ UNCHANGED <<finished, divisor, summary, cut, max_relaxed>>
    BY <1>8, Zenon DEF WaitFails, sigdebug, relaxed
  <2>2. /\ main' = main \/ main' = "exited"
        /\ sampling_relaxed' = sampling_relaxed \/ sampling_relaxed' = sampling_relaxed + 1
    BY <1>8 DEF WaitFails, sigdebug, relaxed
  <2>3. MainType'
    <3>1. finished' \in BOOLEAN
      BY <1>1, <2>1, Zenon DEF MainType
    <3>2. QED
      BY <1>1, <2>1, <2>2, <3>1 DEF MainType
  <2>4. RelaxedType'
    BY <1>1, <2>1, <2>2 DEF RelaxedType
  <2>5. OptionsType' /\ SamplerType' /\ DisplayType' /\ GlobalsType'
    BY <1>1, <2>1, TypesKept, Zenon
  <2>6. SemType' /\ HistoType' /\ BenchType' /\ TimerType'
    BY <1>1, <2>1, TypesKept, Zenon
  <2>7. QED
    BY <2>3, <2>4, <2>5, <2>6, TypePartsNext, Zenon
<1>9. QED
  BY <1>2, <1>3, <1>4, <1>6, <1>7, <1>8 DEF Sampler

LEMMA DisplayTypes ==
  ASSUME TypeOK, ReadInv, Display
  PROVE  TypeOK'
<1>1. /\ OptionsType /\ MainType /\ DisplayType /\ SamplerType /\ GlobalsType
      /\ RelaxedType /\ SemType /\ HistoType /\ BenchType /\ TimerType
  BY TypeParts
<1>2. /\ UNCHANGED options /\ UNCHANGED mainv /\ UNCHANGED smpv /\ UNCHANGED g
      /\ UNCHANGED relaxed /\ UNCHANGED histov /\ UNCHANGED timer
  BY Zenon DEF Display, DisplayFails, CreateSem, StartBench, Pend, ReadGlobal, DisplayEnds
<1>3. SemType'
  <2>1. \/ UNCHANGED <<sem, posts>>
        \/ sem' = "live" /\ posts' = posts
        \/ posts > 0 /\ posts' = posts - 1 /\ sem' = sem
    BY DEF Display, DisplayFails, CreateSem, StartBench, Pend, ReadGlobal, DisplayEnds, semv
  <2>2. QED
    BY <1>1, <2>1 DEF SemType, semv
<1>4. BenchType'
  BY <1>1 DEF BenchType, Display, DisplayFails, CreateSem, StartBench, Pend, ReadGlobal, DisplayEnds
<1>5. DisplayType'
  <2>1. CASE ReadGlobal
    <3>1. PICK k \in 1..5 : toread = SubSeq(Reads, k, 5)
      BY <2>1, Lists DEF ReadInv, ReadGlobal
    <3>2. toread \in Seq(ToSet(Reads)) /\ toread # <<>> /\ Head(toread) = Reads[k]
      BY <3>1, ReadsRest
    <3>3. Head(toread) \in ToSet(Reads) /\ Tail(toread) \in Seq(ToSet(Reads))
      BY <3>2
    <3>4. Head(toread) \in Globals
      BY <3>3, Lists
    <3>5. g[Head(toread)] \in Int
      BY <1>1, <3>4 DEF GlobalsType
    <3>6. QED
      BY <1>1, <2>1, <3>3, <3>5 DEF ReadGlobal, DisplayType
  <2>2. CASE ~ ReadGlobal
    <3>1. /\ dsp' \in {"ended", "pend", "read"} /\ UNCHANGED snap
          /\ toread' = toread \/ toread' = Reads
          /\ pended' = pended \/ pended' = pended + 1
      BY <2>2 DEF Display, DisplayFails, CreateSem, StartBench, Pend, DisplayEnds
    <3>2. QED
      BY <1>1, <3>1, Lists, SMTT(30) DEF DisplayType
  <2>3. QED
    BY <2>1, <2>2
<1>6. OptionsType' /\ MainType' /\ SamplerType' /\ GlobalsType'
  BY <1>1, <1>2, TypesKept, Zenon
<1>7. RelaxedType' /\ HistoType' /\ TimerType'
  BY <1>1, <1>2, TypesKept, Zenon
<1>8. QED
  BY <1>3, <1>4, <1>5, <1>6, <1>7, TypePartsNext, Zenon

LEMMA MainKeepsOthers ==
  ASSUME Main
  PROVE  /\ UNCHANGED options /\ UNCHANGED <<snap, toread, pended>> /\ UNCHANGED relaxed
         /\ UNCHANGED timer /\ UNCHANGED <<local, todo, warmup, test_loops, dts, origin>>
         /\ UNCHANGED posts /\ UNCHANGED histogram
         /\ g' = g \/ Divide
BY Zenon DEF Main, Alloc, SetupFails, StartTasks, Sigwait, StopTest, CountLoops, Divide, Copy, Dump, Free,
       Exit, dspv, smpv, semv, histov

LEMMA MainTypes == ASSUME TypeOK, Main PROVE TypeOK'
<1>1. /\ OptionsType /\ MainType /\ DisplayType /\ SamplerType /\ GlobalsType
      /\ RelaxedType /\ SemType /\ HistoType /\ BenchType /\ TimerType
  BY TypeParts
<1>2. /\ UNCHANGED options /\ UNCHANGED <<snap, toread, pended>> /\ UNCHANGED relaxed
      /\ UNCHANGED timer /\ UNCHANGED <<local, todo, warmup, test_loops, dts, origin>>
      /\ UNCHANGED posts /\ UNCHANGED histogram
      /\ g' = g \/ Divide
  BY MainKeepsOthers
<1>3. DisplayType'
  <2>1. dsp' = dsp \/ dsp' = "create"
    BY DEF Main, Alloc, SetupFails, StartTasks, Sigwait, StopTest, CountLoops, Divide, Copy, Dump,
           Free, Exit, dspv
  <2>2. QED
    BY <1>1, <1>2, <2>1 DEF DisplayType
<1>4. SamplerType'
  <2>1. smp' = smp \/ smp' = "start"
    BY DEF Main, Alloc, SetupFails, StartTasks, Sigwait, StopTest, CountLoops, Divide, Copy, Dump,
           Free, Exit, smpv
  <2>2. LocalType' /\ warmup' \in BOOLEAN
    BY <1>1, <1>2, Zenon DEF SamplerType, LocalType
  <2>3. QED
    BY <1>1, <1>2, <2>1, <2>2 DEF SamplerType
<1>5. GlobalsType'
  <2>1. CASE g' = g
    BY <1>1, <2>1, Zenon DEF GlobalsType
  <2>2. CASE Divide
    <3>1. g["gavgjitter"] \in Int /\ divisor \in Nat \ {0}
      BY <1>1, Lists DEF GlobalsType, MainType
    <3>2. Quot(g.gavgjitter, divisor) \in Int
      BY <3>1, Conversions
    <3>3. g' = [g EXCEPT !.gavgjitter = Quot(g.gavgjitter, divisor)]
      BY <2>2 DEF Divide
    <3>4. QED
      BY <1>1, <3>2, <3>3 DEF GlobalsType
  <2>3. QED
    BY <1>2, <2>1, <2>2
<1>6. SemType' /\ HistoType' /\ BenchType'
  <2>1. sem' = sem \/ sem' = "deleted"
    BY DEF Main, Alloc, SetupFails, StartTasks, Sigwait, StopTest, CountLoops, Divide, Copy, Dump,
           Free, Exit, semv
  <2>2. mem' = mem \/ mem' \in {"allocated", "freed"}
    BY DEF Main, Alloc, SetupFails, StartTasks, Sigwait, StopTest, CountLoops, Divide, Copy, Dump,
           Free, Exit, histov
  <2>3. bench' = bench \/ bench' = "stopped"
    BY DEF Main, Alloc, SetupFails, StartTasks, Sigwait, StopTest, CountLoops, Divide, Copy, Dump,
           Free, Exit
  <2>4. QED
    BY <1>1, <1>2, <2>1, <2>2, <2>3 DEF SemType, HistoType, BenchType
<1>7. MainType'
  <2>1. main' \in {"display", "cleanup", "exited", "sampling", "sigwait", "loops", "dump", "divide",
                   "copy", "crashed", "free", "exit"}
    BY DEF Main, Alloc, SetupFails, StartTasks, Sigwait, StopTest, CountLoops, Divide, Copy, Dump,
           Free, Exit
  <2>2. finished' \in BOOLEAN
    <3>1. finished' = finished \/ finished' = TRUE
      BY Zenon DEF Main, Alloc, SetupFails, StartTasks, Sigwait, StopTest, CountLoops, Divide, Copy, Dump,
             Free, Exit
    <3>2. QED
      BY <1>1, <3>1, Zenon DEF MainType
  <2>3. divisor' \in Nat \ {0}
    <3>1. divisor' = divisor \/ divisor' = (IF test_loops > 1 THEN test_loops ELSE 2) - 1
      BY DEF Main, Alloc, SetupFails, StartTasks, Sigwait, StopTest, CountLoops, Divide, Copy, Dump,
             Free, Exit
    <3>2. QED
      BY <1>1, <3>1 DEF MainType, SamplerType
  <2>4. summary' \in [gmin: Int, gmax: Int, gavg: Int]
    <3>1. \/ summary' = summary
          \/ summary' = [gmin |-> g.gminjitter, gmax |-> g.gmaxjitter, gavg |-> g.gavgjitter]
      BY DEF Main, Alloc, SetupFails, StartTasks, Sigwait, StopTest, CountLoops, Divide, Copy, Dump,
             Free, Exit
    <3>2. g["gminjitter"] \in Int /\ g["gmaxjitter"] \in Int /\ g["gavgjitter"] \in Int
      BY <1>1, Lists DEF GlobalsType
    <3>3. QED
      BY <1>1, <3>1, <3>2 DEF MainType
  <2>5. cut' \in Int
    <3>1. \/ cut' = cut
          \/ cut' = -1
          \/ cut' = Measured - 1
          \/ cut' = Measured
      BY DEF Main, Alloc, SetupFails, StartTasks, Sigwait, StopTest, CountLoops, Divide, Copy, Dump,
             Free, Exit, InSum
    <3>2. Len(dts) \in Nat
      BY <1>1 DEF SamplerType
    <3>3. Measured \in Int
      BY <3>2, SamplesPerPeriod DEF Measured
    <3>4. QED
      BY <1>1, <3>1, <3>3 DEF MainType
  <2>6. QED
    BY <2>1, <2>2, <2>3, <2>4, <2>5 DEF MainType
<1>8. OptionsType' /\ RelaxedType' /\ TimerType'
  BY <1>1, <1>2, TypesKept, Zenon
<1>9. QED
  BY <1>3, <1>4, <1>5, <1>6, <1>7, <1>8, TypePartsNext, Zenon

(***************************************************************************)
(* Where the tasks are                                                     *)
(***************************************************************************)
LEMMA SamplerKeepsOthers ==
  ASSUME Sampler
  PROVE  /\ UNCHANGED options /\ UNCHANGED dspv /\ UNCHANGED bench
         /\ UNCHANGED <<finished, divisor, summary, cut>>
         /\ main' = main \/ main' = "exited"
         /\ smp # "unborn" /\ smp' # "unborn"
<1>1. UNCHANGED options /\ UNCHANGED dspv /\ UNCHANGED bench /\ UNCHANGED <<finished, divisor, summary, cut>>
  BY Zenon DEF Sampler, Start, LoopTop, Sample, WaitFails, sigdebug, Freeze, CheckSample, AddSample, CheckExtremes,
               AddExtremes, Store, WarmUpEnds, mainv
<1>2. main' = main \/ main' = "exited"
  BY Zenon DEF Sampler, Start, LoopTop, Sample, WaitFails, sigdebug, Freeze, CheckSample, AddSample, CheckExtremes,
               AddExtremes, Store, WarmUpEnds, mainv
<1>3. smp # "unborn" /\ smp' # "unborn"
  BY DEF Sampler, Start, LoopTop, Sample, WaitFails, sigdebug, Freeze, CheckSample, AddSample, CheckExtremes,
         AddExtremes, Store, WarmUpEnds, AfterSample, smpv
<1>4. QED
  BY <1>1, <1>2, <1>3

LEMMA DisplayKeepsOthers ==
  ASSUME Display
  PROVE  /\ UNCHANGED options /\ UNCHANGED mainv /\ UNCHANGED smpv /\ UNCHANGED g
         /\ UNCHANGED relaxed /\ UNCHANGED histov /\ UNCHANGED timer
         /\ dsp # "unborn"
<1>1. /\ UNCHANGED options /\ UNCHANGED mainv /\ UNCHANGED smpv /\ UNCHANGED g
      /\ UNCHANGED relaxed /\ UNCHANGED histov /\ UNCHANGED timer
  BY Zenon DEF Display, DisplayFails, CreateSem, StartBench, Pend, ReadGlobal, DisplayEnds
<1>2. dsp # "unborn"
  BY DEF Display, DisplayFails, CreateSem, StartBench, Pend, ReadGlobal, DisplayEnds
<1>3. QED
  BY <1>1, <1>2

LEMMA MainStarts ==
  ASSUME StartInv, Main
  PROVE  /\ \/ UNCHANGED smpv
            \/ /\ smp = "unborn" /\ smp' = "start"
               /\ UNCHANGED <<local, todo, warmup, test_loops, dts, origin>>
         /\ \/ UNCHANGED dspv
            \/ dsp = "unborn" /\ dsp' = "create" /\ UNCHANGED <<snap, toread, pended>>
         /\ StartInv'
<1>1. \/ UNCHANGED smpv
      \/ /\ smp = "unborn" /\ smp' = "start"
         /\ UNCHANGED <<local, todo, warmup, test_loops, dts, origin>>
  <2>1. main = "sampling" => smp = "unborn"
    BY DEF StartInv
  <2>2. QED
    BY <2>1, Zenon DEF Main, Alloc, SetupFails, StartTasks, Sigwait, StopTest, CountLoops, Divide,
         Copy, Dump, Free, Exit, smpv
<1>2. \/ UNCHANGED dspv
      \/ dsp = "unborn" /\ dsp' = "create" /\ UNCHANGED <<snap, toread, pended>>
  <2>1. main = "display" => dsp = "unborn"
    BY DEF StartInv
  <2>2. QED
    BY <2>1, Zenon DEF Main, Alloc, SetupFails, StartTasks, Sigwait, StopTest, CountLoops, Divide,
         Copy, Dump, Free, Exit, dspv
<1>3. StartInv'
  BY DEF StartInv, Main, Alloc, SetupFails, StartTasks, Sigwait, StopTest, CountLoops, Divide, Copy,
         Dump, Free, Exit, dspv, smpv
<1>4. QED
  BY <1>1, <1>2, <1>3

LEMMA StartKept ==
  ASSUME StartInv, Main \/ Sampler \/ Display
  PROVE  StartInv'
<1>1. CASE Main
  BY <1>1, MainStarts
<1>2. CASE Sampler
  <2>1. (main' = main \/ main' = "exited") /\ smp # "unborn" /\ UNCHANGED dspv
    BY <1>2, SamplerKeepsOthers
  <2>2. QED
    BY <2>1 DEF StartInv, dspv
<1>3. CASE Display
  <2>1. UNCHANGED mainv /\ UNCHANGED smpv /\ dsp # "unborn"
    BY <1>3, DisplayKeepsOthers
  <2>2. QED
    BY <2>1 DEF StartInv, mainv, smpv
<1>4. QED
  BY <1>1, <1>2, <1>3

\* A step of another task moves the sampler only from nowhere to its start.
LEMMA PlaceKept ==
  ASSUME TypeOK, StartInv, PlaceInv, Main \/ Display
  PROVE  PlaceInv'
<1>1. /\ UNCHANGED <<local, todo, warmup, test_loops, dts, sampling_relaxed>>
      /\ \/ smp' = smp
         \/ smp = "unborn" /\ smp' = "start"
  <2>1. CASE Main
    BY <2>1, MainStarts, MainKeepsOthers DEF smpv, relaxed
  <2>2. CASE Display
    BY <2>2, DisplayKeepsOthers DEF smpv, relaxed
  <2>3. QED
    BY <2>1, <2>2
<1>2. CASE smp' = smp
  BY <1>1, <1>2 DEF PlaceInv
<1>3. CASE smp = "unborn" /\ smp' = "start"
  BY <1>1, <1>3 DEF PlaceInv
<1>4. QED
  BY <1>1, <1>2, <1>3

LEMMA PlaceMoves ==
  ASSUME TypeOK, PlaceInv, Sampler
  PROVE  PlaceInv'
<1>1. SamplerType /\ RelaxedType
  BY TypeParts
<1>2. /\ local.count \in 0..nsamples /\ nsamples \in Nat \ {0} /\ test_loops \in Nat
      /\ local.old_relaxed <= sampling_relaxed /\ sampling_relaxed \in Nat
      /\ local.old_relaxed \in Nat
  BY <1>1, SamplesPerPeriod DEF SamplerType, LocalType, PlaceInv, RelaxedType
<1>3. CASE Sample
  <2>1. PICK d \in Delays, ready \in Nat, ov \in Nat : Turn(d, ready, ov)
    BY <1>1, <1>3, SampleIs, TypeParts DEF SamplerType
  <2>2. smp = "wait" /\ smp' \in {"freeze", "check"}
    BY <1>3 DEF Sample
  <2>3. UNCHANGED <<warmup, test_loops, todo, sampling_relaxed>>
    BY <1>3, Zenon DEF Sample
  <2>4. local'.count = local.count + 1 /\ local'.old_relaxed = sampling_relaxed
    BY <1>1, <2>1 DEF Turn, SamplerType, LocalType
  <2>5. IF warmup THEN dts' = dts ELSE Len(dts') = Len(dts) + 1
    BY <1>1, <2>1 DEF Turn, SamplerType
  <2>6. Len(dts) \in Nat
    BY <1>1 DEF SamplerType
  <2>7. ~ warmup => Len(dts') = (test_loops - 1) * nsamples + local'.count
    <3>1. ~ warmup => Len(dts) = (test_loops - 1) * nsamples + local.count
      BY <2>2 DEF PlaceInv
    <3> DEFINE m == (test_loops - 1) * nsamples
    <3>2. m \in Int
      BY <1>2
    <3> HIDE DEF m
    <3>3. ~ warmup => Len(dts) = m + local.count
      BY <3>1 DEF m
    <3>4. ~ warmup => Len(dts') = m + local'.count
      BY <1>2, <2>4, <2>5, <2>6, <3>2, <3>3
    <3>5. QED
      BY <3>4 DEF m
  <2>8. QED
    BY <1>2, <2>2, <2>3, <2>4, <2>5, <2>7 DEF PlaceInv
<1>4. CASE LoopTop
  <2>1. /\ smp = "loop" /\ smp' = "wait" /\ UNCHANGED <<warmup, dts, sampling_relaxed>>
        /\ test_loops' = test_loops + 1 /\ local'.count = 0 /\ local'.old_relaxed = local.old_relaxed
    BY <1>1, <1>4 DEF LoopTop, SamplerType, LocalType, relaxed
  <2>2. (test_loops + 1 - 1) * nsamples + 0 = test_loops * nsamples
    BY <1>2
  <2>3. QED
    BY <1>2, <2>1, <2>2 DEF PlaceInv
<1>5. CASE Store
  <2>1. /\ smp = "store" /\ todo' = Tail(todo) /\ smp' = (IF todo' = <<>> THEN "loop" ELSE "store")
        /\ UNCHANGED <<local, warmup, test_loops, dts, sampling_relaxed>>
    BY <1>5, Zenon DEF Store, relaxed
  <2>2. PICK k \in 1..8 : todo = SubSeq(Stores, k, 8)
    BY <2>1, Lists DEF PlaceInv
  <2>3. Tail(todo) = SubSeq(Stores, k + 1, 8) /\ (Tail(todo) = <<>> <=> k = 8)
    BY <2>2, StoresRest
  <2>4. smp' = "store" => \E l \in 1..Len(Stores) : todo' = SubSeq(Stores, l, Len(Stores))
    <3>1. smp' = "store" => k + 1 \in 1..8
      BY <2>1, <2>3
    <3>2. QED
      BY <2>1, <2>3, <3>1, Lists
  <2>5. /\ ~ warmup /\ local.count = nsamples /\ test_loops >= 1
        /\ Len(dts) = (test_loops - 1) * nsamples + local.count
    BY <2>1 DEF PlaceInv
  <2>6. Len(dts) = test_loops * nsamples
    BY <1>2, <2>5
  <2>7. smp' \in {"loop", "store"} /\ ~ warmup'
    BY <2>1, <2>5
  <2>8. QED
    BY <1>2, <2>1, <2>4, <2>5, <2>6, <2>7 DEF PlaceInv
<1>6. CASE WarmUpEnds
  <2>1. /\ smp = "warm" /\ smp' = "loop" /\ UNCHANGED <<local, dts, sampling_relaxed>> /\ warmup
        /\ test_loops = 1 /\ dts = <<>>
    BY <1>6 DEF WarmUpEnds, PlaceInv, relaxed
  <2>2. warmup' = FALSE /\ test_loops' = 0
    BY <1>6, <2>1 DEF WarmUpEnds, LoopsReset, WARMUP_TIME
  <2>3. Len(dts) = 0 * nsamples
    BY <1>2, <2>1
  <2>4. QED
    BY <1>2, <2>1, <2>2, <2>3 DEF PlaceInv
<1>7. CASE Start \/ Freeze \/ CheckSample \/ AddSample \/ AddExtremes
  <2>1. UNCHANGED <<local, warmup, test_loops, dts, todo, sampling_relaxed>>
    BY <1>7, Zenon DEF Start, Freeze, CheckSample, AddSample, AddExtremes, relaxed
  <2>2. \/ smp = "start" /\ smp' \in {"loop", "ended"}
        \/ smp = "freeze" /\ smp' = "check"
        \/ smp = "check" /\ smp' = "add" /\ ~ warmup
        \/ smp \in {"check", "add"} /\ smp' = AfterSample
        \/ smp = "add_extremes" /\ smp' = "store"
    BY <1>7 DEF Start, Freeze, CheckSample, AddSample, AddExtremes, Recording
  <2>3. smp' = "store" => \E l \in 1..Len(Stores) : todo' = SubSeq(Stores, l, Len(Stores))
    <3>1. smp' = "store" => todo' = Stores
      BY <2>1, <2>2 DEF PlaceInv, AfterSample
    <3>2. Stores = SubSeq(Stores, 1, Len(Stores)) /\ 1 \in 1..Len(Stores)
      BY StoresWhole, Lists
    <3>3. QED
      BY <3>1, <3>2
  <2>4. CASE smp' = AfterSample /\ smp \in {"check", "add"}
    <3>1. smp' = IF local.count < nsamples THEN "wait" ELSE IF warmup THEN "warm" ELSE "check_extremes"
      BY <2>4 DEF AfterSample
    <3>2. ~ (local.count < nsamples) => local.count = nsamples
      BY <1>2
    <3>3. warmup' = warmup /\ test_loops' = test_loops /\ local' = local /\ dts' = dts
          /\ sampling_relaxed' = sampling_relaxed
      BY <2>1
    <3>4. QED
      BY <2>4, <3>1, <3>2, <3>3 DEF PlaceInv
  <2>5. CASE smp = "start" /\ smp' \in {"loop", "ended"}
    BY <2>1, <2>5 DEF PlaceInv
  <2>6. CASE \/ smp = "freeze" /\ smp' = "check"
             \/ smp = "check" /\ smp' = "add" /\ ~ warmup
    BY <2>1, <2>6 DEF PlaceInv
  <2>7. CASE smp = "add_extremes" /\ smp' = "store"
    BY <2>1, <2>3, <2>7 DEF PlaceInv
  <2>8. QED
    BY <2>2, <2>4, <2>5, <2>6, <2>7
<1>8. CASE CheckExtremes
  <2>1. /\ smp = "check_extremes" /\ smp' \in {"add_extremes", "store"} /\ todo' = Stores
        /\ UNCHANGED <<local, warmup, test_loops, dts, sampling_relaxed>>
    BY <1>8 DEF CheckExtremes, relaxed
  <2>2. Stores = SubSeq(Stores, 1, Len(Stores)) /\ 1 \in 1..Len(Stores)
    BY StoresWhole, Lists
  <2>3. \E l \in 1..Len(Stores) : todo' = SubSeq(Stores, l, Len(Stores))
    BY <2>1, <2>2
  <2>4. QED
    BY <2>1, <2>3 DEF PlaceInv
<1>9. CASE WaitFails
  <2>1. UNCHANGED smpv /\ sampling_relaxed' = sampling_relaxed
    BY <1>9 DEF WaitFails, relaxed
  <2>2. QED
    BY <2>1 DEF PlaceInv, smpv
<1>10. CASE sigdebug
  <2>1. UNCHANGED smpv /\ (sampling_relaxed' = sampling_relaxed \/ sampling_relaxed' = sampling_relaxed + 1)
    BY <1>10 DEF sigdebug
  <2>2. local'.old_relaxed <= sampling_relaxed'
    BY <1>2, <2>1 DEF smpv
  <2>3. QED
    BY <2>1, <2>2 DEF PlaceInv, smpv
<1>11. QED
  BY <1>3, <1>4, <1>5, <1>6, <1>7, <1>8, <1>9, <1>10 DEF Sampler

(***************************************************************************)
(* Periods that are done                                                   *)
(***************************************************************************)
LEMMA Division ==
  ASSUME NEW n \in Nat \ {0}, NEW q \in Nat, NEW r \in 0..n - 1
  PROVE  (q * n + r) \div n = q /\ (q * n + r) % n = r
<1> DEFINE p == q * n
           a == p + r
           d == a \div n
           e == a % n
           m == n * d
<1>1. p \in Nat /\ a \in Nat
  OBVIOUS
<1> HIDE DEF p
<1>2. d \in Nat /\ e \in 0..n - 1 /\ a = m + e
  BY <1>1
<1>3. m \in Nat
  BY <1>2
<1> HIDE DEF d, e
<1>4. ~ (d < q)
  <2>1. ASSUME d < q PROVE FALSE
    <3>1. d + 1 <= q /\ (d + 1) * n <= q * n
      BY <1>2, <2>1
    <3>2. (d + 1) * n = m + n
      BY <1>2
    <3>3. m + n <= p
      BY <3>1, <3>2 DEF p
    <3> HIDE DEF m
    <3>4. QED
      BY <1>1, <1>2, <1>3, <3>3
  <2>2. QED
    BY <2>1
<1>5. ~ (q < d)
  <2>1. ASSUME q < d PROVE FALSE
    <3>1. q + 1 <= d /\ (q + 1) * n <= d * n
      BY <1>2, <2>1
    <3>2. (q + 1) * n = p + n /\ d * n = m
      BY <1>2 DEF p
    <3>3. p + n <= m
      BY <3>1, <3>2
    <3> HIDE DEF m
    <3>4. QED
      BY <1>1, <1>2, <1>3, <3>3
  <2>2. QED
    BY <2>1
<1>6. d = q
  BY <1>2, <1>4, <1>5
<1>7. e = r
  <2>1. m = p
    BY <1>6 DEF p
  <2> HIDE DEF m
  <2>2. QED
    BY <1>1, <1>2, <1>3, <2>1
<1>8. QED
  BY <1>6, <1>7 DEF d, e, p

LEMMA DivisionGrows ==
  ASSUME NEW n \in Nat \ {0}, NEW a \in Nat, NEW b \in Nat, a <= b
  PROVE  a \div n <= b \div n
<1> DEFINE d == a \div n
           e == b \div n
<1>1. d \in Nat /\ e \in Nat /\ n * d <= a /\ b < n * (e + 1)
  OBVIOUS
<1> HIDE DEF d, e
<1>2. ASSUME e < d PROVE FALSE
  <2>1. e + 1 <= d /\ n * (e + 1) <= n * d
    BY <1>1, <1>2
  <2> DEFINE m == n * (e + 1)
             k == n * d
  <2>2. m \in Nat /\ k \in Nat /\ k <= a /\ b < m /\ m <= k
    BY <1>1, <2>1
  <2> HIDE DEF m, k
  <2>3. QED
    BY <2>2
<1>3. QED
  BY <1>1, <1>2 DEF d, e

\* Where a period that is complete begins and ends.
LEMMA PeriodBounds ==
  ASSUME Len(dts) \in Nat, NEW j \in Nat \ {0}, j <= Measured
  PROVE  /\ (j - 1) * nsamples + 1 \in Nat \ {0} /\ j * nsamples \in 0..Len(dts)
         /\ (j - 1) * nsamples \in 0..Len(dts) /\ j * nsamples = (j - 1) * nsamples + nsamples
<1> DEFINE n == nsamples
           L == Len(dts)
           d == L \div n
           k == j - 1
<1>1. n \in Nat \ {0} /\ L \in Nat
  BY SamplesPerPeriod
<1>2. d \in Nat /\ d * n <= L /\ j <= d
  BY <1>1 DEF Measured
<1> HIDE DEF n, L, d
<1>3. k \in Nat /\ j = k + 1
  OBVIOUS
<1> HIDE DEF k
<1>4. k * n \in Nat /\ j * n = k * n + n /\ j * n <= d * n /\ d * n \in Nat
  BY <1>1, <1>2, <1>3
<1> DEFINE p == k * n
           q == j * n
           r == d * n
<1>5. p \in Nat /\ q = p + n /\ q <= r /\ r \in Nat /\ r <= L
  BY <1>2, <1>4
<1> HIDE DEF p, q, r
<1>6. p + 1 \in Nat \ {0} /\ q \in 0..L /\ p \in 0..L
  BY <1>1, <1>5
<1>7. QED
  BY <1>5, <1>6 DEF p, q, k, n, L

\* Measured, and where the current period starts.
LEMMA MeasuredIs ==
  ASSUME TypeOK, PlaceInv
  PROVE  /\ Len(dts) \in Nat /\ Measured \in Nat
         /\ warmup => Measured = 0
         /\ ~ warmup /\ smp = "loop" => Measured = test_loops
         /\ ~ warmup /\ smp # "loop" =>
              Measured = IF local.count < nsamples THEN test_loops - 1 ELSE test_loops
         /\ ~ warmup /\ smp # "loop" /\ local.count < nsamples => Len(dts) % nsamples = local.count
         /\ Measured * nsamples <= Len(dts)
<1>1. /\ nsamples \in Nat \ {0} /\ Len(dts) \in Nat /\ test_loops \in Nat
      /\ local.count \in 0..nsamples
  BY TypeParts, SamplesPerPeriod DEF SamplerType, LocalType
<1>2. Measured \in Nat /\ Measured * nsamples <= Len(dts)
  BY <1>1 DEF Measured
<1>3. CASE warmup
  <2>1. Len(dts) = 0
    BY <1>3 DEF PlaceInv
  <2>2. Measured = 0
    BY <1>1, <2>1 DEF Measured
  <2>3. QED
    BY <1>1, <1>2, <1>3, <2>2
<1>4. CASE ~ warmup /\ smp = "loop"
  <2>1. Len(dts) = test_loops * nsamples + 0 /\ 0 \in 0..nsamples - 1
    BY <1>1, <1>4 DEF PlaceInv
  <2>2. Measured = test_loops
    BY <1>1, <2>1, Division DEF Measured
  <2>3. QED
    BY <1>1, <1>2, <1>4, <2>2
<1>5. CASE ~ warmup /\ smp # "loop" /\ local.count < nsamples
  <2>1. Len(dts) = (test_loops - 1) * nsamples + local.count /\ test_loops - 1 \in Nat
        /\ local.count \in 0..nsamples - 1
    BY <1>1, <1>5 DEF PlaceInv
  <2> DEFINE q == test_loops - 1
             r == local.count
  <2>2. q \in Nat /\ r \in 0..nsamples - 1 /\ Len(dts) = q * nsamples + r
    BY <2>1
  <2> HIDE DEF q, r
  <2>3. Measured = q /\ Len(dts) % nsamples = r
    BY <1>1, <2>2, Division DEF Measured
  <2>4. QED
    BY <1>1, <1>2, <1>5, <2>3 DEF q, r
<1>6. CASE ~ warmup /\ smp # "loop" /\ ~ (local.count < nsamples)
  <2>1. Len(dts) = (test_loops - 1) * nsamples + nsamples /\ test_loops - 1 \in Nat
    BY <1>1, <1>6 DEF PlaceInv
  <2>2. Len(dts) = test_loops * nsamples + 0 /\ 0 \in 0..nsamples - 1
    BY <1>1, <2>1
  <2>3. Measured = test_loops
    BY <1>1, <2>2, Division DEF Measured
  <2>4. QED
    BY <1>1, <1>2, <1>6, <2>3
<1>7. QED
  BY <1>3, <1>4, <1>5, <1>6

LEMMA DoneIs ==
  ASSUME TypeOK, PlaceInv, NEW f \in Fields
  PROVE  /\ Done(f) \in 0..Measured /\ Done(f) * nsamples \in 0..Len(dts)
         /\ warmup => Done(f) = 0
         /\ ~ warmup /\ Done(f) # test_loops => Done(f) = test_loops - 1 /\ smp # "loop"
         /\ ~ warmup /\ smp \notin {"loop", "store"} => Done(f) = test_loops - 1
         /\ ~ warmup /\ smp = "loop" => Done(f) = test_loops
         /\ smp = "store" => ~ warmup /\ Done(f) = IF f \in ToSet(todo) THEN test_loops - 1 ELSE test_loops
<1>1. /\ nsamples \in Nat \ {0} /\ Len(dts) \in Nat /\ test_loops \in Nat
      /\ local.count \in 0..nsamples
  BY TypeParts, SamplesPerPeriod DEF SamplerType, LocalType
<1>2. /\ ~ warmup /\ smp # "loop" => test_loops >= 1
      /\ smp = "store" => ~ warmup /\ local.count = nsamples
  BY <1>1 DEF PlaceInv
<1>3. /\ warmup => Done(f) = 0
      /\ ~ warmup /\ Done(f) # test_loops => Done(f) = test_loops - 1 /\ smp # "loop"
      /\ ~ warmup /\ smp \notin {"loop", "store"} => Done(f) = test_loops - 1
      /\ ~ warmup /\ smp = "loop" => Done(f) = test_loops
      /\ smp = "store" => ~ warmup /\ Done(f) = IF f \in ToSet(todo) THEN test_loops - 1 ELSE test_loops
  BY <1>2 DEF Done
<1>4. Done(f) \in 0..Measured
  <2>1. /\ Measured \in Nat
        /\ ~ warmup /\ smp = "loop" => Measured = test_loops
        /\ ~ warmup /\ smp # "loop" =>
             Measured = IF local.count < nsamples THEN test_loops - 1 ELSE test_loops
    BY MeasuredIs
  <2>2. CASE warmup
    BY <1>3, <2>1, <2>2
  <2>3. CASE ~ warmup /\ smp = "loop"
    BY <1>1, <1>3, <2>1, <2>3
  <2>4. CASE ~ warmup /\ smp # "loop" /\ smp # "store"
    BY <1>1, <1>2, <1>3, <2>1, <2>4
  <2>5. CASE smp = "store"
    BY <1>1, <1>2, <1>3, <2>1, <2>5
  <2>6. QED
    BY <2>2, <2>3, <2>4, <2>5
<1>5. Done(f) * nsamples \in 0..Len(dts)
  <2>1. Measured \in Nat /\ Measured * nsamples <= Len(dts)
    BY MeasuredIs
  <2> DEFINE e == Done(f)
             m == Measured
  <2>2. e \in Nat /\ m \in Nat /\ e <= m /\ m * nsamples <= Len(dts)
    BY <1>4, <2>1
  <2> HIDE DEF e, m
  <2>3. e * nsamples <= m * nsamples /\ e * nsamples \in Nat /\ m * nsamples \in Nat
    BY <1>1, <2>2
  <2>4. e * nsamples \in 0..Len(dts)
    BY <1>1, <2>2, <2>3
  <2>5. QED
    BY <2>4 DEF e
<1>6. QED
  BY <1>3, <1>4, <1>5

\* Only a store moves anything to the next period, and only what it stores.
DoneKept == \A f \in Fields : Done(f)' = Done(f)

LEMMA DoneElse ==
  ASSUME TypeOK, StartInv, PlaceInv, Main \/ Display \/ (Sampler /\ ~ Store)
  PROVE  DoneKept
<1>1. SamplerType /\ test_loops \in Nat
  BY TypeParts DEF SamplerType
<1>2. CASE \/ UNCHANGED <<smp, todo, warmup, test_loops>>
           \/ smp = "unborn" /\ smp' = "start" /\ UNCHANGED <<todo, warmup, test_loops>>
  <2>1. smp = "unborn" => warmup
    BY DEF PlaceInv
  <2>2. QED
    BY <1>2, <2>1 DEF DoneKept, Done
<1>3. CASE Main
  BY <1>2, <1>3, MainStarts DEF smpv
<1>4. CASE Display
  BY <1>2, <1>4, DisplayKeepsOthers DEF smpv
<1>5. CASE WaitFails \/ sigdebug
  BY <1>2, <1>5 DEF WaitFails, sigdebug, smpv
<1>6. CASE LoopTop
  <2>1. smp = "loop" /\ smp' = "wait" /\ warmup' = warmup /\ test_loops' = test_loops + 1
    BY <1>6 DEF LoopTop
  <2>2. QED
    BY <1>1, <2>1 DEF DoneKept, Done
<1>7. CASE WarmUpEnds
  <2>1. warmup /\ test_loops' = 0 /\ smp' = "loop" /\ warmup' = FALSE
    BY <1>7 DEF WarmUpEnds, PlaceInv, WARMUP_TIME, LoopsReset
  <2>2. QED
    BY <2>1 DEF DoneKept, Done
<1>8. CASE Sample \/ Freeze \/ CheckSample \/ AddSample
  <2>1. /\ smp \notin {"loop", "store"} /\ smp' \notin {"loop", "store"}
        /\ UNCHANGED <<warmup, test_loops>>
    BY <1>8 DEF Sample, Freeze, CheckSample, AddSample, AfterSample
  <2>2. QED
    BY <2>1 DEF DoneKept, Done
<1>9. CASE Start
  <2>1. warmup /\ warmup' = warmup
    BY <1>9 DEF Start, PlaceInv
  <2>2. QED
    BY <2>1 DEF DoneKept, Done
<1>10. CASE CheckExtremes \/ AddExtremes
  <2>1. /\ smp \notin {"loop", "store"} /\ smp' \in {"add_extremes", "store"} /\ ToSet(todo') = Fields
        /\ UNCHANGED <<warmup, test_loops>>
    BY <1>10 DEF CheckExtremes, AddExtremes, PlaceInv, Fields
  <2>2. QED
    BY <2>1 DEF DoneKept, Done
<1>11. QED
  BY <1>3, <1>4, <1>5, <1>6, <1>7, <1>8, <1>9, <1>10 DEF Sampler

LEMMA DoneStore ==
  ASSUME TypeOK, PlaceInv, Store
  PROVE  /\ Head(todo) \in Fields /\ ~ warmup /\ test_loops \in Nat /\ test_loops >= 1
         /\ Done(Head(todo)) = test_loops - 1
         /\ \A f \in Fields : Done(f)' = IF f = Head(todo) THEN test_loops ELSE Done(f)
         /\ Len(dts) = test_loops * nsamples /\ local.count = nsamples
         /\ UNCHANGED <<local, dts, warmup, test_loops, origin>>
         /\ "post" \in ToSet(todo)
         /\ Head(todo) = "gavgjitter" =>
              "gminjitter" \notin ToSet(todo) /\ "gmaxjitter" \notin ToSet(todo)
<1>1. /\ smp = "store" /\ todo' = Tail(todo) /\ smp' = (IF todo' = <<>> THEN "loop" ELSE "store")
      /\ UNCHANGED <<local, warmup, test_loops, dts, origin>>
  BY Zenon DEF Store
<1>2. PICK k \in 1..8 : todo = SubSeq(Stores, k, 8)
  BY <1>1, Lists DEF PlaceInv
<1>3. /\ Head(todo) = Stores[k] /\ ToSet(todo) = {Stores[i] : i \in k..8}
      /\ (Tail(todo) = <<>> <=> k = 8) /\ ToSet(Tail(todo)) = {Stores[i] : i \in k + 1..8}
  BY <1>2, StoresRest
<1>4. /\ ~ warmup /\ test_loops >= 1 /\ local.count = nsamples
      /\ Len(dts) = (test_loops - 1) * nsamples + local.count
  BY <1>1 DEF PlaceInv
<1>5. test_loops \in Nat /\ nsamples \in Nat \ {0}
  BY TypeParts, SamplesPerPeriod DEF SamplerType
<1>6. Len(dts) = test_loops * nsamples
  BY <1>4, <1>5
<1>7. Head(todo) \in Fields /\ Head(todo) \in ToSet(todo) /\ Head(todo) \notin ToSet(Tail(todo))
      /\ \A f : f # Head(todo) => (f \in ToSet(todo) <=> f \in ToSet(Tail(todo)))
  <2>1. Stores[k] \in Fields
    <3>1. todo \in Seq(Fields) /\ todo # <<>>
      BY <1>2, StoresRest
    <3>2. QED
      BY <1>3, <3>1
  <2>2. \A i \in k..8 : i = k \/ i \in k + 1..8
    OBVIOUS
  <2>3. Stores[k] \notin {Stores[i] : i \in k + 1..8}
    <3>1. \A i \in k + 1..8 : i \in 1..8 /\ i # k
      OBVIOUS
    <3>2. QED
      BY <3>1, Lists
  <2>4. k \in k..8 /\ k + 1..8 \subseteq k..8
    OBVIOUS
  <2>5. QED
    BY <1>3, <2>1, <2>2, <2>3, <2>4
<1>8. "post" \in ToSet(todo)
  <2>1. 8 \in k..8
    OBVIOUS
  <2>2. QED
    BY <1>3, <2>1, Lists
<1>9. Head(todo) = "gavgjitter" =>
        "gminjitter" \notin ToSet(todo) /\ "gmaxjitter" \notin ToSet(todo)
  <2>1. ASSUME Head(todo) = "gavgjitter" PROVE k = 6
    BY <1>3, <2>1, Lists
  <2>2. k = 6 => \A i \in k..8 : i \in 1..8 /\ i # 2 /\ i # 4
    OBVIOUS
  <2>3. QED
    BY <1>3, <2>1, <2>2, Lists
<1>10. Done(Head(todo)) = test_loops - 1
  BY <1>1, <1>4, <1>7 DEF Done
<1>13. ASSUME NEW f \in Fields, f = Head(todo) PROVE Done(f)' = test_loops
  <2>1. smp' = "loop" \/ (smp' = "store" /\ f \notin ToSet(todo'))
    BY <1>1, <1>7, <1>13
  <2>2. QED
    BY <1>1, <1>4, <2>1 DEF Done
<1>11. ASSUME NEW f \in Fields, f # Head(todo) PROVE Done(f)' = Done(f)
  <2>1. f \in ToSet(todo) <=> f \in ToSet(todo')
    BY <1>1, <1>7, <1>11
  <2>2. smp' = "loop" => f \notin ToSet(todo')
    <3>1. ToSet(<<>>) = {}
      BY Lists
    <3>2. QED
      BY <1>1, <3>1
  <2>3. smp' = "loop" \/ smp' = "store"
    BY <1>1
  <2>4. QED
    BY <1>1, <1>4, <2>1, <2>2, <2>3 DEF Done
<1>14. QED
  BY <1>1, <1>4, <1>5, <1>6, <1>7, <1>8, <1>9, <1>10, <1>11, <1>13

\* No sample, and no overrun, is lost or counted twice.
LEMMA ReleasesKept ==
  ASSUME TypeOK, StartInv, PlaceInv, ReleaseInv, Main \/ Sampler \/ Display
  PROVE  ReleaseInv'
<1>1. /\ period_ns \in Nat /\ test_loops \in Nat /\ Len(dts) \in Nat /\ release \in Nat /\ origin \in Nat
      /\ local.overrun \in Nat /\ g["goverrun"] \in Int /\ "goverrun" \in Fields /\ warmup \in BOOLEAN
      /\ g \in [Globals -> Int] /\ "goverrun" \in Globals
  BY TypeParts, SamplesPerPeriod, Lists DEF SamplerType, LocalType, GlobalsType, TimerType
<1>2. ASSUME UNCHANGED <<warmup, dts, origin, release>>, test_loops' = test_loops,
             local'.expected_ns = local.expected_ns, local'.overrun = local.overrun,
             g'["goverrun"] = g["goverrun"], Done("goverrun")' = Done("goverrun")
      PROVE  ReleaseInv'
  BY <1>2 DEF ReleaseInv, Overruns
<1>3. Main \/ Display \/ (Sampler /\ ~ Store) => Done("goverrun")' = Done("goverrun")
  BY <1>1, DoneElse DEF DoneKept
<1>4. CASE Main \/ Display
  <2>1. /\ UNCHANGED <<local, warmup, dts, origin, test_loops, release>>
        /\ g' = g \/ Divide
    BY <1>4, MainKeepsOthers, DisplayKeepsOthers DEF timer, smpv
  <2>2. g'["goverrun"] = g["goverrun"]
    BY <1>1, <2>1 DEF Divide
  <2>3. Done("goverrun")' = Done("goverrun")
    BY <1>3, <1>4
  <2>4. QED
    BY <1>2, <2>1, <2>2, <2>3
<1>5. CASE Start \/ WaitFails \/ sigdebug \/ Freeze \/ CheckSample \/ AddSample \/ CheckExtremes \/ AddExtremes
  <2>1. UNCHANGED <<local, warmup, dts, origin, test_loops, release>> /\ ~ Store
    BY <1>5 DEF Start, WaitFails, sigdebug, Freeze, CheckSample, AddSample, CheckExtremes,
                AddExtremes, Store, smpv, timer
  <2>2. g'["goverrun"] = g["goverrun"]
    BY <1>1, <1>5 DEF Start, WaitFails, sigdebug, Freeze, CheckSample, AddSample, CheckExtremes,
                AddExtremes
  <2>3. QED
    BY <1>2, <1>3, <1>5, <2>1, <2>2 DEF Sampler
<1>6. CASE LoopTop
  <2>1. /\ smp = "loop" /\ smp' = "wait" /\ UNCHANGED <<warmup, dts, origin, release, g>>
        /\ test_loops' = test_loops + 1
        /\ local'.expected_ns = local.expected_ns /\ local'.overrun = 0 /\ ~ Store
    BY <1>6, TypeParts DEF LoopTop, SamplerType, LocalType, timer, Store
  <2>2. ~ warmup => Done("goverrun") = test_loops /\ Done("goverrun")' = test_loops
    BY <1>3, <1>6, <2>1 DEF Done, Sampler
  <2>3. ~ warmup => Overruns' = Overruns
    BY <1>1, <2>1, <2>2 DEF Overruns
  <2>4. QED
    BY <2>1, <2>3 DEF ReleaseInv
<1>7. CASE WarmUpEnds
  <2>1. /\ warmup /\ dts = <<>> /\ UNCHANGED <<local, dts, release, g>> /\ smp' = "loop"
        /\ warmup' = FALSE /\ test_loops' = 0 /\ origin' = release
    BY <1>7 DEF WarmUpEnds, PlaceInv, WARMUP_TIME, LoopsReset, timer
  <2>2. Overruns' = 0
    BY <1>1, <2>1 DEF Overruns, Done, ReleaseInv
  <2>3. Len(dts') = 0 /\ period_ns * (0 + 0) = 0
    BY <1>1, <2>1
  <2>4. QED
    BY <1>1, <2>1, <2>2, <2>3 DEF ReleaseInv
<1>8. CASE Sample
  <2>1. PICK d \in Delays, ready \in Nat, ov \in Nat : Turn(d, ready, ov)
    BY <1>8, SampleIs, TypeParts DEF SamplerType
  <2>2. /\ smp = "wait" /\ smp' \in {"freeze", "check"} /\ ~ Store
        /\ UNCHANGED <<warmup, test_loops, todo, origin, g>>
    BY <1>8 DEF Sample, Store
  <2>3. /\ local'.expected_ns = local.expected_ns + period_ns * (ov + 1)
        /\ local'.overrun = local.overrun + ov /\ release' = release + period_ns * (ov + 1)
    BY <2>1, TypeParts DEF Turn, SamplerType, LocalType
  <2>4. CASE warmup
    BY <2>2, <2>3, <2>4 DEF ReleaseInv
  <2>5. CASE ~ warmup
    <3>1. Len(dts') = Len(dts) + 1
      BY <2>1, <2>5, TypeParts DEF Turn, SamplerType
    <3>2. Done("goverrun") # test_loops /\ Done("goverrun")' # test_loops'
      BY <1>1, <2>2, <2>5 DEF Done
    <3>3. Overruns' = Overruns + ov /\ Overruns \in Int
      BY <1>1, <2>2, <2>3, <3>2 DEF Overruns
    <3>4. release = origin + period_ns * (Len(dts) + Overruns) /\ local.expected_ns = release
      BY <2>5 DEF ReleaseInv
    <3> DEFINE a == Len(dts) + Overruns
               b == ov + 1
    <3>5. /\ a \in Int /\ b \in Int /\ Len(dts') + Overruns' = a + b
          /\ release = origin + period_ns * a /\ release' = release + period_ns * b
      BY <1>1, <2>3, <3>1, <3>3, <3>4
    <3> HIDE DEF a, b
    <3>6. period_ns * (a + b) = period_ns * a + period_ns * b
      BY <1>1, <3>5
    <3>7. release' = origin + period_ns * (a + b)
      BY <1>1, <3>5, <3>6
    <3>8. release' = origin' + period_ns * (Len(dts') + Overruns')
      BY <2>2, <3>5, <3>7
    <3>9. local'.expected_ns = release'
      BY <2>3, <3>4
    <3>10. QED
      BY <2>2, <2>5, <3>8, <3>9 DEF ReleaseInv
  <2>6. QED
    BY <2>4, <2>5
<1>9. CASE Store
  <2>1. /\ ~ warmup /\ Done(Head(todo)) = test_loops - 1 /\ Head(todo) \in Fields
        /\ \A f \in Fields : Done(f)' = IF f = Head(todo) THEN test_loops ELSE Done(f)
        /\ UNCHANGED <<local, dts, warmup, test_loops, origin>>
    BY <1>9, DoneStore
  <2>2. UNCHANGED release
    BY <1>9 DEF Store, timer
  <2>3. CASE Head(todo) = "goverrun"
    <3>1. g' = [g EXCEPT !["goverrun"] = Stored["goverrun"]]
      BY <1>9, <2>3 DEF Store
    <3>2. g'["goverrun"] = g["goverrun"] + local.overrun
      BY <1>1, <3>1 DEF Stored
    <3>3. Overruns' = Overruns
      BY <1>1, <2>1, <2>3, <3>2 DEF Overruns
    <3>4. QED
      BY <2>1, <2>2, <3>3 DEF ReleaseInv
  <2>4. CASE Head(todo) # "goverrun"
    <3>1. g'["goverrun"] = g["goverrun"]
      <4>1. UNCHANGED g \/ g' = [g EXCEPT ![Head(todo)] = Stored[Head(todo)]]
        BY <1>9 DEF Store
      <4>2. QED
        BY <1>1, <2>4, <4>1
    <3>2. Done("goverrun")' = Done("goverrun")
      BY <1>1, <2>1, <2>4
    <3>3. QED
      BY <1>2, <2>1, <2>2, <3>1, <3>2
  <2>5. QED
    BY <2>3, <2>4
<1>10. QED
  BY <1>4, <1>5, <1>6, <1>7, <1>8, <1>9 DEF Sampler

LEMMA ReadsKept ==
  ASSUME ReadInv, StartInv, Main \/ Sampler \/ Display
  PROVE  ReadInv'
<1>1. CASE Main
  <2>1. UNCHANGED dspv \/ (dsp = "unborn" /\ dsp' = "create" /\ UNCHANGED toread)
    BY <1>1, MainStarts
  <2>2. QED
    BY <2>1 DEF ReadInv, dspv
<1>2. CASE Sampler
  <2>1. UNCHANGED dspv
    BY <1>2, SamplerKeepsOthers
  <2>2. QED
    BY <2>1 DEF ReadInv, dspv
<1>3. CASE ReadGlobal
  <2>1. /\ dsp = "read" /\ toread' = Tail(toread)
        /\ dsp' = IF toread' = <<>> THEN "pend" ELSE "read"
    BY <1>3 DEF ReadGlobal
  <2>2. PICK k \in 1..5 : toread = SubSeq(Reads, k, 5)
    BY <2>1, Lists DEF ReadInv
  <2>3. Tail(toread) = SubSeq(Reads, k + 1, 5) /\ (Tail(toread) = <<>> <=> k = 5)
    BY <2>2, ReadsRest
  <2>4. dsp' = "read" => k + 1 \in 1..5
    BY <2>1, <2>3
  <2>5. dsp' = "read" => \E l \in 1..Len(Reads) : toread' = SubSeq(Reads, l, Len(Reads))
    BY <2>1, <2>3, <2>4, Lists
  <2>6. QED
    BY <2>1, <2>5 DEF ReadInv
<1>4. CASE Pend
  <2>1. Reads = SubSeq(Reads, 1, Len(Reads)) /\ 1 \in 1..Len(Reads)
    BY ReadsWhole, Lists
  <2>2. dsp' = "read" /\ toread' = Reads
    BY <1>4 DEF Pend
  <2>3. QED
    BY <2>1, <2>2 DEF ReadInv
<1>5. CASE DisplayFails \/ CreateSem \/ StartBench \/ DisplayEnds
  <2>1. UNCHANGED toread /\ dsp \in {"create", "pend"} /\ dsp' \in {"ended", "pend"}
    BY <1>5 DEF DisplayFails, CreateSem, StartBench, DisplayEnds
  <2>2. QED
    BY <2>1 DEF ReadInv
<1>6. QED
  BY <1>1, <1>2, <1>3, <1>4, <1>5 DEF Display

(***************************************************************************)
(* Types and releases, however late the sampler comes                      *)
(***************************************************************************)
LEMMA TypesHold ==
  ASSUME TypeOK, PlaceInv, ReadInv, Main \/ Sampler \/ Display
  PROVE  TypeOK'
BY MainTypes, SamplerTypes, DisplayTypes

LEMMA PlacesHold ==
  ASSUME TypeOK, StartInv, PlaceInv, Main \/ Sampler \/ Display
  PROVE  PlaceInv'
BY PlaceKept, PlaceMoves

LEMMA InitTypes == Init => TypeOK
<1> SUFFICES ASSUME Init PROVE TypeOK
  OBVIOUS
<1>1. OptionsType
  BY OptionsAssumption DEF Init, OptionsType
<1>2. /\ MainType /\ BenchType /\ SemType /\ TimerType /\ RelaxedType
  <2>1. MainType
    <3>1. main = "alloc" /\ divisor = 1 /\ cut = -1 /\ summary = [gmin |-> 0, gmax |-> 0, gavg |-> 0]
      BY DEF Init
    <3>2. finished \in BOOLEAN
      BY Zenon DEF Init
    <3>3. QED
      BY <3>1, <3>2 DEF MainType
  <2>2. BenchType /\ SemType
    BY DEF Init, BenchType, SemType
  <2>3. TimerType /\ RelaxedType
    BY DEF Init, TimerType, RelaxedType
  <2>4. QED
    BY <2>1, <2>2, <2>3
<1>3. DisplayType
  BY DEF Init, DisplayType
<1>4. SamplerType
  <2>1. 0 \in Int32 /\ nsamples \in Nat
    BY WordAssumption, SamplesPerPeriod DEF Int32
  <2>2. LocalType
    BY <2>1 DEF Init, LocalType
  <2>3. QED
    BY <2>2 DEF Init, SamplerType
<1>5. GlobalsType
  <2>1. TEN_MILLIONS \in Int
    BY WordAssumption
  <2>2. QED
    BY <2>1, Lists DEF Init, GlobalsType
<1>6. HistoType
  BY DEF Init, HistoType
<1>7. QED
  BY <1>1, <1>2, <1>3, <1>4, <1>5, <1>6, TypeParts, Zenon

LEMMA AnyTimeInit == Init => AnyTimeInv
<1> SUFFICES ASSUME Init PROVE AnyTimeInv
  OBVIOUS
<1>1. TypeOK
  BY InitTypes
<1>2. StartInv /\ ReadInv /\ ReleaseInv
  BY DEF Init, StartInv, ReadInv, ReleaseInv
<1>3. PlaceInv
  BY DEF Init, PlaceInv
<1>4. QED
  BY <1>1, <1>2, <1>3 DEF AnyTimeInv

LEMMA AnyTimeStep == AnyTimeInv /\ [Next]_vars => AnyTimeInv'
<1> SUFFICES ASSUME AnyTimeInv, [Next]_vars PROVE AnyTimeInv'
  OBVIOUS
<1>1. CASE Main \/ Sampler \/ Display
  BY <1>1, TypesHold, PlacesHold, StartKept, ReadsKept, ReleasesKept DEF AnyTimeInv
<1>2. CASE UNCHANGED vars
  <2>1. TypeOK'
    <3>1. /\ OptionsType /\ MainType /\ DisplayType /\ SamplerType /\ GlobalsType
          /\ RelaxedType /\ SemType /\ HistoType /\ BenchType /\ TimerType
      BY TypeParts DEF AnyTimeInv
    <3>2. QED
      BY <1>2, <3>1, TypesKept, TypePartsNext, Zenon DEF vars
  <2>2. StartInv' /\ PlaceInv' /\ ReadInv'
    BY <1>2, Zenon DEF AnyTimeInv, StartInv, PlaceInv, ReadInv, vars, mainv, dspv, smpv, relaxed
  <2>3. ReleaseInv'
    BY <1>2, Zenon DEF AnyTimeInv, ReleaseInv, Overruns, Done, vars, smpv, timer
  <2>4. QED
    BY <2>1, <2>2, <2>3 DEF AnyTimeInv
<1>3. QED
  BY <1>1, <1>2 DEF Next, Terminated

LEMMA AnyTime == Spec => []AnyTimeInv
<1>1. QED
  BY AnyTimeInit, AnyTimeStep, PTL DEF Spec

\* Every variable of the test keeps its type: the conversions of the latencies and
\* of their sum to 32 bits, the cells of the histograms, and what the two tasks
\* still have to store or to copy.
THEOREM AltencyTypeCorrect == Spec => []TypeOK
<1>1. AnyTimeInv => TypeOK
  BY DEF AnyTimeInv
<1>2. QED
  BY <1>1, AnyTime, PTL

\* When the sampler waits for its period, it expects the release the kernel has
\* next; and of the releases since the warm-up none was lost, or counted twice,
\* between the samples, the overruns of the period and those stored for main
\* (latency, altency.c): for every period, every delay and every sampling time.
THEOREM EveryReleaseAccounted == Spec => []ReleasesAccounted
<1>1. AnyTimeInv => ReleasesAccounted
  <2> SUFFICES ASSUME AnyTimeInv, smp = "wait"
               PROVE  /\ local.expected_ns = release
                      /\ ~ warmup => release = origin + period_ns * (Len(dts) + g.goverrun + local.overrun)
    BY DEF ReleasesAccounted
  <2>1. local.expected_ns = release
    BY DEF AnyTimeInv, ReleaseInv
  <2>2. ASSUME ~ warmup
        PROVE  release = origin + period_ns * (Len(dts) + g.goverrun + local.overrun)
    <3>1. /\ Len(dts) \in Nat /\ g["goverrun"] \in Int /\ local.overrun \in Nat /\ test_loops \in Nat
      BY TypeParts, Lists DEF AnyTimeInv, SamplerType, LocalType, GlobalsType
    <3>2. Done("goverrun") # test_loops
      BY <2>2, <3>1 DEF Done
    <3>3. Len(dts) + Overruns = Len(dts) + g.goverrun + local.overrun
      BY <3>1, <3>2 DEF Overruns
    <3>4. QED
      BY <2>2, <3>3 DEF AnyTimeInv, ReleaseInv
  <2>3. QED
    BY <2>1, <2>2
<1>2. QED
  BY <1>1, AnyTime, PTL

(***************************************************************************)
(* Latencies that were taken stay                                          *)
(***************************************************************************)
LEMMA Part ==
  ASSUME NEW s \in Seq(Nat), NEW a \in Nat \ {0}, NEW b \in 0..Len(s), a <= b + 1
  PROVE  LET t == SubSeq(s, a, b) IN
         /\ t \in Seq(Nat) /\ Len(t) = (b + 1) - a
         /\ \A i \in 1..(b + 1) - a : t[i] = s[(a + i) - 1]
         /\ ToSet(t) = {s[i] : i \in a..b}
<1> DEFINE t == SubSeq(s, a, b)
<1>1. t \in Seq(Nat) /\ Len(t) = (b + 1) - a /\ \A i \in 1..(b + 1) - a : t[i] = s[(a + i) - 1]
  OBVIOUS
<1> HIDE DEF t
<1>2. ToSet(t) = {s[i] : i \in a..b}
  <2>1. ASSUME NEW x \in ToSet(t) PROVE x \in {s[i] : i \in a..b}
    <3>1. PICK j \in 1..(b + 1) - a : x = t[j]
      BY <1>1 DEF ToSet
    <3>2. x = s[(a + j) - 1] /\ (a + j) - 1 \in a..b
      BY <1>1, <3>1
    <3>3. QED
      BY <3>2
  <2>2. ASSUME NEW i \in a..b PROVE s[i] \in ToSet(t)
    <3>1. (i - a) + 1 \in 1..(b + 1) - a /\ (a + ((i - a) + 1)) - 1 = i
      OBVIOUS
    <3>2. s[i] = t[(i - a) + 1] /\ (i - a) + 1 \in DOMAIN t
      BY <1>1, <3>1
    <3>3. QED
      BY <3>2 DEF ToSet
  <2>3. QED
    BY <2>1, <2>2
<1>3. QED
  BY <1>1, <1>2 DEF t

Extends(t, s) == t \in Seq(Nat) /\ Len(s) <= Len(t) /\ \A i \in 1..Len(s) : t[i] = s[i]

LEMMA PartKept ==
  ASSUME NEW s \in Seq(Nat), NEW t, Extends(t, s),
         NEW a \in Nat \ {0}, NEW b \in 0..Len(s), a <= b + 1
  PROVE  SubSeq(t, a, b) = SubSeq(s, a, b)
<1> DEFINE u == SubSeq(s, a, b)
           v == SubSeq(t, a, b)
<1>1. t \in Seq(Nat) /\ Len(t) \in Nat /\ b \in 0..Len(t)
  BY DEF Extends
<1>2. /\ u \in Seq(Nat) /\ Len(u) = (b + 1) - a
      /\ \A i \in 1..(b + 1) - a : u[i] = s[(a + i) - 1]
  BY Part
<1>3. /\ v \in Seq(Nat) /\ Len(v) = (b + 1) - a
      /\ \A i \in 1..(b + 1) - a : v[i] = t[(a + i) - 1]
  BY <1>1, Part
<1> HIDE DEF u, v
<1>4. \A i \in 1..(b + 1) - a : u[i] = v[i]
  BY <1>2, <1>3 DEF Extends
<1>5. QED
  <2>1. u = v
    BY <1>2, <1>3, <1>4
  <2>2. QED
    BY <2>1 DEF u, v

LEMMA DtsGrow ==
  ASSUME TypeOK, StartInv, Main \/ Sampler \/ Display
  PROVE  /\ Extends(dts', dts)
         /\ ~ Sample => dts' = dts
<1>1. dts \in Seq(Nat) /\ SamplerType
  BY TypeParts DEF SamplerType
<1>2. ~ Sample => dts' = dts
  <2>1. Main \/ Display => dts' = dts
    BY MainKeepsOthers, DisplayKeepsOthers DEF smpv
  <2>2. Sampler /\ ~ Sample => dts' = dts
    BY Zenon DEF Sampler, Start, LoopTop, WaitFails, sigdebug, Freeze, CheckSample, AddSample,
                 CheckExtremes, AddExtremes, Store, WarmUpEnds, smpv
  <2>3. QED
    BY <2>1, <2>2
<1>3. CASE Sample
  <2>1. PICK d \in Delays, ready \in Nat, ov \in Nat : Turn(d, ready, ov)
    BY <1>3, SampleIs, TypeParts DEF SamplerType
  <2>2. (ready + d[2]) - release \in Nat
    BY <2>1, TypeParts, DelayType DEF Turn, TimerType
  <2>3. dts' = dts \/ dts' = Append(dts, (ready + d[2]) - release)
    BY <2>1 DEF Turn
  <2> DEFINE x == (ready + d[2]) - release
  <2>4. x \in Nat /\ (dts' = dts \/ dts' = Append(dts, x))
    BY <2>2, <2>3
  <2> HIDE DEF x
  <2>5. Extends(Append(dts, x), dts)
    BY <1>1, <2>4 DEF Extends
  <2>6. Extends(dts, dts)
    BY <1>1 DEF Extends
  <2>7. QED
    BY <1>3, <2>4, <2>5, <2>6
<1>4. QED
  BY <1>1, <1>2, <1>3 DEF Extends

LEMMA PastKept ==
  ASSUME dts \in Seq(Nat), Extends(dts', dts)
  PROVE  /\ dts' \in Seq(Nat) /\ Len(dts) <= Len(dts') /\ Measured <= Measured'
         /\ Modest' => Modest
         /\ \A m \in 0..Len(dts) : First(m)' = First(m) /\ Until(m)' = Until(m)
         /\ \A j \in Nat \ {0} : j <= Measured => Of(j)' = Of(j) /\ Period(j)' = Period(j)
<1>1. /\ dts' \in Seq(Nat) /\ Len(dts) \in Nat /\ Len(dts') \in Nat /\ Len(dts) <= Len(dts')
      /\ \A i \in 1..Len(dts) : i \in 1..Len(dts') /\ dts'[i] = dts[i]
      /\ nsamples \in Nat \ {0}
  BY SamplesPerPeriod DEF Extends
<1>2. Measured <= Measured'
  BY <1>1, DivisionGrows DEF Measured
<1>3. Modest' => Modest
  BY <1>1 DEF Modest
<1>4. ASSUME NEW m \in 0..Len(dts) PROVE First(m)' = First(m) /\ Until(m)' = Until(m)
  <2>1. \A i \in 1..m : dts'[i] = dts[i]
    BY <1>1
  <2>2. SubSeq(dts', 1, m) = SubSeq(dts, 1, m)
    BY <1>1, PartKept
  <2>3. QED
    BY <2>1, <2>2 DEF First, Until
<1>5. ASSUME NEW j \in Nat \ {0}, j <= Measured PROVE Of(j)' = Of(j) /\ Period(j)' = Period(j)
  <2> DEFINE a == (j - 1) * nsamples + 1
             b == j * nsamples
  <2>1. a \in Nat \ {0} /\ b \in 0..Len(dts) /\ a <= b + 1
    BY <1>1, <1>5, PeriodBounds
  <2> HIDE DEF a, b
  <2>2. \A i \in a..b : dts'[i] = dts[i]
    <3>1. a \in Nat \ {0} /\ b \in Nat /\ b <= Len(dts)
      BY <2>1
    <3>2. \A i \in a..b : i \in 1..Len(dts)
      BY <1>1, <3>1, SMTT(30)
    <3>3. QED
      BY <1>1, <3>2
  <2>3. SubSeq(dts', a, b) = SubSeq(dts, a, b)
    BY <1>1, <2>1, PartKept
  <2>4. {dts'[i] : i \in a..b} = {dts[i] : i \in a..b}
    BY <2>2
  <2>5. QED
    BY <2>3, <2>4 DEF Of, Period, a, b
<1>6. QED
  BY <1>1, <1>2, <1>3, <1>4, <1>5

(***************************************************************************)
(* Least and greatest latencies                                            *)
(***************************************************************************)
LEMMA NoExtremes == Lowest(TEN_MILLIONS, {}) /\ Highest(-TEN_MILLIONS, {})
BY WordAssumption DEF Lowest, Highest

LEMMA OneMore ==
  ASSUME NEW T \in SUBSET Int, NEW x \in Int, NEW m
  PROVE  /\ Lowest(m, T) => m \in Int /\ Lowest(IF m <= x THEN m ELSE x, T \cup {x})
         /\ Highest(m, T) => m \in Int /\ Highest(IF m >= x THEN m ELSE x, T \cup {x})
<1>1. TEN_MILLIONS \in Int /\ -TEN_MILLIONS \in Int
  BY WordAssumption
<1>2. ASSUME Lowest(m, T) PROVE m \in Int /\ Lowest(IF m <= x THEN m ELSE x, T \cup {x})
  <2>1. m \in Int
    BY <1>1, <1>2 DEF Lowest
  <2>2. CASE m <= x
    BY <1>1, <1>2, <2>1, <2>2 DEF Lowest
  <2>3. CASE ~ (m <= x)
    BY <1>1, <1>2, <2>1, <2>3 DEF Lowest
  <2>4. QED
    BY <2>1, <2>2, <2>3
<1>3. ASSUME Highest(m, T) PROVE m \in Int /\ Highest(IF m >= x THEN m ELSE x, T \cup {x})
  <2>1. m \in Int
    BY <1>1, <1>3 DEF Highest
  <2>2. CASE m >= x
    BY <1>1, <1>3, <2>1, <2>2 DEF Highest
  <2>3. CASE ~ (m >= x)
    BY <1>1, <1>3, <2>1, <2>3 DEF Highest
  <2>4. QED
    BY <2>1, <2>2, <2>3
<1>4. QED
  BY <1>2, <1>3

LEMMA Together ==
  ASSUME NEW T \in SUBSET Int, NEW U \in SUBSET Int, NEW a, NEW b
  PROVE  /\ Lowest(a, T) /\ Lowest(b, U) =>
              a \in Int /\ b \in Int /\ Lowest(IF a <= b THEN a ELSE b, T \cup U)
         /\ Highest(a, T) /\ Highest(b, U) =>
              a \in Int /\ b \in Int /\ Highest(IF a >= b THEN a ELSE b, T \cup U)
<1>1. TEN_MILLIONS \in Int /\ -TEN_MILLIONS \in Int
  BY WordAssumption
<1>2. ASSUME Lowest(a, T), Lowest(b, U)
      PROVE  a \in Int /\ b \in Int /\ Lowest(IF a <= b THEN a ELSE b, T \cup U)
  <2>1. a \in Int /\ b \in Int
    BY <1>1, <1>2 DEF Lowest
  <2>2. CASE a <= b
    BY <1>1, <1>2, <2>1, <2>2 DEF Lowest
  <2>3. CASE ~ (a <= b)
    BY <1>1, <1>2, <2>1, <2>3 DEF Lowest
  <2>4. QED
    BY <2>1, <2>2, <2>3
<1>3. ASSUME Highest(a, T), Highest(b, U)
      PROVE  a \in Int /\ b \in Int /\ Highest(IF a >= b THEN a ELSE b, T \cup U)
  <2>1. a \in Int /\ b \in Int
    BY <1>1, <1>3 DEF Highest
  <2>2. CASE a >= b
    BY <1>1, <1>3, <2>1, <2>2 DEF Highest
  <2>3. CASE ~ (a >= b)
    BY <1>1, <1>3, <2>1, <2>3 DEF Highest
  <2>4. QED
    BY <2>1, <2>2, <2>3
<1>4. QED
  BY <1>2, <1>3

\* There is one least and one greatest.
LEMMA ExtremesAre ==
  ASSUME NEW s \in Seq(Nat), NEW m
  PROVE  /\ Lowest(m, ToSet(s)) => m = MinOf(s)
         /\ Highest(m, ToSet(s)) => m = MaxOf(s)
<1> DEFINE T == ToSet(s) \cup {TEN_MILLIONS}
           U == ToSet(s) \cup {-TEN_MILLIONS}
<1>1. TEN_MILLIONS \in Int /\ -TEN_MILLIONS \in Int
  BY WordAssumption
<1>2. ToSet(s) \subseteq Nat
  BY DEF ToSet
<1>3. T \subseteq Int /\ U \subseteq Int
  BY <1>1, <1>2
<1>4. ASSUME Lowest(m, ToSet(s)) PROVE m = Min(T)
  <2>1. m \in T /\ \A x \in T : m <= x
    BY <1>4 DEF Lowest
  <2> HIDE DEF T
  <2>2. Min(T) \in T /\ \A x \in T : Min(T) <= x
    BY <2>1 DEF Min
  <2>3. m <= Min(T) /\ Min(T) <= m
    BY <2>1, <2>2
  <2>4. m \in Int /\ Min(T) \in Int
    BY <1>3, <2>1, <2>2
  <2>5. QED
    BY <2>3, <2>4
<1>5. ASSUME Highest(m, ToSet(s)) PROVE m = Max(U)
  <2>1. m \in U /\ \A x \in U : m >= x
    BY <1>5 DEF Highest
  <2> HIDE DEF U
  <2>2. Max(U) \in U /\ \A x \in U : Max(U) >= x
    BY <2>1 DEF Max
  <2>3. m >= Max(U) /\ Max(U) >= m
    BY <2>1, <2>2
  <2>4. m \in Int /\ Max(U) \in Int
    BY <1>3, <2>1, <2>2
  <2>5. QED
    BY <2>3, <2>4
<1>6. QED
  BY <1>4, <1>5 DEF MinOf, MaxOf

\* The first latencies, and the next.
LEMMA Adjacent ==
  ASSUME NEW s \in Seq(Nat), NEW p \in 0..Len(s), NEW q \in p..Len(s)
  PROVE  /\ {s[i] : i \in 1..q} = {s[i] : i \in 1..p} \cup {s[i] : i \in p + 1..q}
         /\ {s[i] : i \in 1..q} \subseteq Nat /\ {s[i] : i \in p + 1..q} \subseteq Nat
         /\ {s[i] : i \in 1..p} \subseteq Nat
<1>1. /\ \A i \in 1..q : (i \in 1..p \/ i \in p + 1..q) /\ s[i] \in Nat
      /\ \A i \in 1..p : i \in 1..q
      /\ \A i \in p + 1..q : i \in 1..q
  OBVIOUS
<1>2. QED
  BY <1>1

LEMMA ImageOfAppend ==
  ASSUME NEW s \in Seq(Nat), NEW x \in Nat, NEW a \in 1..Len(s) + 1
  PROVE  {Append(s, x)[i] : i \in a..Len(Append(s, x))} = {s[i] : i \in a..Len(s)} \cup {x}
<1> DEFINE t == Append(s, x)
<1>1. /\ Len(t) = Len(s) + 1 /\ t[Len(s) + 1] = x /\ \A i \in 1..Len(s) : t[i] = s[i]
      /\ Len(s) \in Nat
  OBVIOUS
<1> HIDE DEF t
<1>2. \A i \in a..Len(t) : i = Len(s) + 1 \/ i \in a..Len(s)
  BY <1>1
<1>3. \A i \in a..Len(s) : i \in a..Len(t) /\ t[i] = s[i]
  BY <1>1
<1>4. Len(s) + 1 \in a..Len(t)
  BY <1>1
<1>5. {t[i] : i \in a..Len(t)} = {s[i] : i \in a..Len(s)} \cup {x}
  <2>1. ASSUME NEW y \in {t[i] : i \in a..Len(t)} PROVE y \in {s[i] : i \in a..Len(s)} \cup {x}
    BY <1>1, <1>2, <1>3
  <2>2. ASSUME NEW y \in {s[i] : i \in a..Len(s)} \cup {x} PROVE y \in {t[i] : i \in a..Len(t)}
    BY <1>1, <1>3, <1>4
  <2>3. QED
    BY <2>1, <2>2
<1>6. QED
  BY <1>5 DEF t

(***************************************************************************)
(* A sample that is in time                                                *)
(***************************************************************************)
Taken(x) ==
  /\ dts' = IF warmup THEN dts ELSE Append(dts, x)
  /\ local'.dt = x /\ local'.count = local.count + 1 /\ local'.sumj = AsInt(local.sumj + x)
  /\ local'.maxj = IF local.maxj >= x THEN local.maxj ELSE x
  /\ local'.minj = IF local.minj <= x THEN local.minj ELSE x

LEMMA SampleInTime ==
  ASSUME InTime, TypeOK, ReleaseInv, LateInv, Sample
  PROVE  LateInv' /\ \E x \in 0..Half - 1 : Taken(x)
<1>1. SamplerType /\ TimerType /\ Half \in Nat /\ period_ns \in Nat \ {0}
  BY TypeParts, WordAssumption, SamplesPerPeriod
<1>2. PICK d \in Delays, ready \in Nat, ov \in Nat : Turn(d, ready, ov)
  BY <1>1, SampleIs DEF SamplerType
<1> DEFINE x == (ready + d[2]) - release
<1>3. d[1] \in Nat /\ d[2] \in Nat /\ d[2] < Half
  BY DelayType DEF InTime
<1>4. x \in Nat /\ x < Half
  <2>1. release \in Nat /\ clock \in Nat /\ release <= ready /\ (ready = release \/ ready = clock)
    BY <1>1, <1>2 DEF Turn, TimerType
  <2>2. CASE ready = release
    BY <1>1, <1>3, <2>1, <2>2
  <2>3. CASE ready = clock /\ clock > release
    <3>1. PICK c \in Delays : clock - release < c[2] - c[1]
      BY <2>1, <2>3 DEF LateInv
    <3>2. c[1] \in Nat /\ c[2] \in Nat /\ c[2] - c[1] + d[2] <= Half
      BY DelayType DEF InTime
    <3>3. QED
      BY <1>1, <1>3, <2>1, <2>3, <3>1, <3>2
  <2>4. QED
    BY <2>1, <2>2, <2>3
<1>5. AsInt(x) = x
  <2>1. x \in 0..Half - 1
    BY <1>1, <1>4
  <2> HIDE DEF x
  <2>2. QED
    BY <2>1, Conversions
<1>6. (ready + d[2]) - local.expected_ns = x
  BY DEF ReleaseInv
<1>7. Taken(x)
  <2>1. AsInt((ready + d[2]) - local.expected_ns) = x
    BY <1>5, <1>6
  <2> HIDE DEF x
  <2>2. local' = [local EXCEPT
          !.dt = x, !.maxj = IF local.maxj >= x THEN local.maxj ELSE x,
          !.minj = IF local.minj <= x THEN local.minj ELSE x, !.count = local.count + 1,
          !.sumj = AsInt(local.sumj + x), !.overrun = local.overrun + ov,
          !.expected_ns = local.expected_ns + period_ns * (ov + 1), !.old_relaxed = sampling_relaxed]
    BY <1>2, <2>1 DEF Turn
  <2>3. dts' = IF warmup THEN dts ELSE Append(dts, x)
    BY <1>2 DEF Turn, x
  <2>4. QED
    BY <1>1, <2>2, <2>3 DEF Taken, SamplerType, LocalType
<1>8. LateInv'
  <2>1. /\ clock' = ready + d[2] /\ release' = release + period_ns * (ov + 1)
        /\ (ready + d[1]) - release < period_ns * (ov + 1)
    BY <1>2 DEF Turn
  <2> DEFINE r == period_ns * (ov + 1)
  <2>2. r \in Nat /\ release \in Nat
    BY <1>1 DEF TimerType
  <2> HIDE DEF r
  <2>3. clock' - release' < d[2] - d[1]
    BY <1>3, <2>1, <2>2 DEF r
  <2>4. QED
    BY <2>3 DEF LateInv
<1>9. QED
  <2>1. x \in 0..Half - 1
    BY <1>1, <1>4
  <2> HIDE DEF x
  <2>2. QED
    BY <1>7, <1>8, <2>1

LEMMA LateKept ==
  ASSUME InTime, TypeOK, ReleaseInv, LateInv, Main \/ Sampler \/ Display
  PROVE  LateInv'
<1>1. CASE Sample
  BY <1>1, SampleInTime
<1>2. CASE (Main \/ Sampler \/ Display) /\ ~ Sample
  <2>1. UNCHANGED timer
    <3>1. CASE Main \/ Display
      BY <3>1, MainKeepsOthers, DisplayKeepsOthers
    <3>2. CASE Sampler /\ ~ Sample
      BY <3>2, Zenon DEF Sampler, Start, LoopTop, WaitFails, sigdebug, Freeze, CheckSample,
           AddSample, CheckExtremes, AddExtremes, Store, WarmUpEnds
    <3>3. QED
      BY <1>2, <3>1, <3>2
  <2>2. QED
    BY <2>1 DEF LateInv, timer
<1>3. QED
  BY <1>1, <1>2

(***************************************************************************)
(* Sums.  What a recursive function computes is shown by the least length  *)
(* for which it would be wrong.                                            *)
(***************************************************************************)
LEMMA LeastNatural ==
  ASSUME NEW T, T \subseteq Nat, T # {}
  PROVE  \E m \in T : \A n \in T : m <= n
<1> DEFINE R == OpToRel(<, Nat)
<1>1. IsWellFoundedOn(R, Nat)
  BY NatLessThanWellFounded
<1>2. \A x, y \in Nat : x < y => <<x, y>> \in R
  BY Zenon DEF OpToRel
<1> HIDE DEF R
<1>3. PICK m \in T : \A n \in T : ~ (<<n, m>> \in R)
  BY <1>1, WFMin
<1>4. ASSUME NEW n \in T PROVE m <= n
  <2>1. m \in Nat /\ n \in Nat
    OBVIOUS
  <2>2. ~ (n < m)
    BY <1>2, <1>3, <2>1
  <2>3. QED
    BY <2>1, <2>2
<1>5. QED
  BY <1>4

\* f has the sums of the first elements of s.
IsSums(f, s, n) == f[0] = 0 /\ \A k \in 1..n : f[k] = f[k - 1] + s[k]

LEMMA SumsExist ==
  ASSUME NEW s \in Seq(Nat)
  PROVE  \E f \in [0..Len(s) -> Nat] : IsSums(f, s, Len(s))
<1> DEFINE Has(n) == \E f \in [0..n -> Nat] : IsSums(f, s, n)
           T == {n \in 0..Len(s) : ~ Has(n)}
<1>0. Len(s) \in Nat
  OBVIOUS
<1>3. Has(0)
  <2>1. [k \in 0..0 |-> 0] \in [0..0 -> Nat] /\ IsSums([k \in 0..0 |-> 0], s, 0)
    BY DEF IsSums
  <2>2. QED
    BY <2>1
<1>4. ASSUME NEW m \in 1..Len(s), Has(m - 1) PROVE Has(m)
  <2>1. PICK f \in [0..m - 1 -> Nat] : IsSums(f, s, m - 1)
    BY <1>4
  <2> DEFINE h == [k \in 0..m |-> IF k = m THEN f[m - 1] + s[m] ELSE f[k]]
  <2>2. h \in [0..m -> Nat]
    <3>1. f[m - 1] + s[m] \in Nat
      BY <1>0
    <3>2. QED
      BY <1>0, <3>1
  <2>3. h[m] = h[m - 1] + s[m]
    BY <1>0
  <2>4. \A k \in 1..m - 1 : h[k] = h[k - 1] + s[k]
    BY <1>0, <2>1 DEF IsSums
  <2>5. IsSums(h, s, m)
    <3>1. h[0] = 0
      BY <1>0, <2>1 DEF IsSums
    <3>2. \A k \in 1..m : k = m \/ k \in 1..m - 1
      BY <1>0
    <3> HIDE DEF h
    <3>3. QED
      BY <2>3, <2>4, <3>1, <3>2 DEF IsSums
  <2>6. QED
    BY <2>2, <2>5
<1> SUFFICES Has(Len(s))
  OBVIOUS
<1> HIDE DEF Has
<1>5. ASSUME T # {} PROVE FALSE
  <2>1. T \subseteq Nat
    BY <1>0
  <2>2. PICK m \in T : \A n \in T : m <= n
    BY <1>5, <2>1, LeastNatural
  <2>3. m \in 1..Len(s) /\ m - 1 \in 0..Len(s) /\ m - 1 \notin T
    BY <1>0, <1>3, <2>2
  <2>4. QED
    BY <1>4, <2>2, <2>3
<1>7. QED
  BY <1>0, <1>5

LEMMA SumsUnique ==
  ASSUME NEW s, NEW N \in Nat, NEW f, NEW e, IsSums(f, s, N), IsSums(e, s, N)
  PROVE  \A n \in 0..N : f[n] = e[n]
<1> DEFINE T == {n \in 0..N : f[n] # e[n]}
<1>1. SUFFICES ASSUME T # {} PROVE FALSE
  OBVIOUS
<1>0. T \subseteq Nat
  OBVIOUS
<1>2. PICK m \in T : \A n \in T : m <= n
  BY <1>0, <1>1, LeastNatural
<1>3. QED
  BY <1>2 DEF IsSums

LEMMA TotalIs ==
  ASSUME NEW s \in Seq(Nat), NEW f \in [0..Len(s) -> Nat], IsSums(f, s, Len(s))
  PROVE  Total(s) = f[Len(s)]
<1> DEFINE N == Len(s)
           D(e) == [n \in 0..N |-> IF n = 0 THEN 0 ELSE e[n - 1] + s[n]]
           sum == CHOOSE e : e = D(e)
<1>0. N \in Nat
  OBVIOUS
<1>1. f = D(f)
  BY <1>0 DEF IsSums
<1>2. sum = D(sum)
  BY <1>1
<1>4. Total(s) = sum[N]
  BY DEF Total
<1> HIDE DEF sum
<1>3. IsSums(sum, s, N)
  <2>1. \A n \in 0..N : sum[n] = IF n = 0 THEN 0 ELSE sum[n - 1] + s[n]
    BY <1>2
  <2>2. QED
    BY <1>0, <2>1 DEF IsSums
<1>5. QED
  BY <1>0, <1>3, <1>4, SumsUnique

LEMMA TotalEmpty == Total(<<>>) = 0
<1>1. <<>> \in Seq(Nat) /\ Len(<<>>) = 0
  OBVIOUS
<1>2. PICK f \in [0..Len(<<>>) -> Nat] : IsSums(f, <<>>, Len(<<>>))
  BY <1>1, SumsExist
<1>3. QED
  BY <1>1, <1>2, TotalIs DEF IsSums

LEMMA TotalAppend ==
  ASSUME NEW s \in Seq(Nat), NEW x \in Nat
  PROVE  Total(s) \in Nat /\ Total(Append(s, x)) = Total(s) + x
<1> DEFINE N == Len(s)
           t == Append(s, x)
<1>1. N \in Nat /\ t \in Seq(Nat) /\ Len(t) = N + 1 /\ t[N + 1] = x
      /\ \A k \in 1..N : t[k] = s[k]
  OBVIOUS
<1>2. PICK f \in [0..N -> Nat] : IsSums(f, s, N)
  BY SumsExist
<1>3. PICK h \in [0..Len(t) -> Nat] : IsSums(h, t, Len(t))
  BY <1>1, SumsExist
<1>4. Total(s) = f[N] /\ Total(t) = h[N + 1]
  BY <1>1, <1>2, <1>3, TotalIs
<1> HIDE DEF N, t
<1>5. IsSums(h, s, N)
  BY <1>1, <1>3 DEF IsSums
<1>6. h[N] = f[N]
  <2>1. N \in Nat /\ IsSums(f, s, N)
    BY <1>1, <1>2
  <2>2. \A n \in 0..N : h[n] = f[n]
    BY <1>5, <2>1, SumsUnique, SMTT(30)
  <2>3. QED
    BY <2>1, <2>2
<1>7. h[N + 1] = h[N] + x
  BY <1>1, <1>3 DEF IsSums
<1>8. QED
  BY <1>1, <1>2, <1>4, <1>6, <1>7 DEF N, t

\* One more in a place.
LEMMA TotalBump ==
  ASSUME NEW s \in Seq(Nat), NEW c \in 1..Len(s), NEW t \in Seq(Nat), Len(t) = Len(s),
         t[c] = s[c] + 1, \A k \in 1..Len(s) : k # c => t[k] = s[k]
  PROVE  Total(t) = Total(s) + 1
<1> DEFINE N == Len(s)
<1>1. N \in Nat /\ c \in 1..N /\ \A k \in 1..N : s[k] \in Nat
  OBVIOUS
<1>2. PICK f \in [0..N -> Nat] : IsSums(f, s, N)
  BY SumsExist
<1> DEFINE h == [k \in 0..N |-> IF k < c THEN f[k] ELSE f[k] + 1]
<1>3. Total(s) = f[N]
  BY <1>2, TotalIs
<1> HIDE DEF N
<1>4. h \in [0..N -> Nat]
  BY <1>1, <1>2, SMTT(30)
<1>5. IsSums(h, t, N)
  <2>1. h[0] = 0
    <3>1. 0 \in 0..N /\ 0 < c /\ f[0] = 0
      BY <1>1, <1>2 DEF IsSums
    <3>2. QED
      BY <3>1
  <2>2. ASSUME NEW k \in 1..N PROVE h[k] = h[k - 1] + t[k]
    <3>1. k \in 0..N /\ k - 1 \in 0..N /\ f[k] = f[k - 1] + s[k] /\ f[k] \in Nat /\ f[k - 1] \in Nat
      <4> HIDE DEF h
      <4>1. k \in 0..N /\ k - 1 \in 0..N
        BY <1>1
      <4>2. f[k] = f[k - 1] + s[k]
        BY <1>2 DEF IsSums
      <4>3. f[k] \in Nat /\ f[k - 1] \in Nat
        BY <1>2, <4>1
      <4>4. QED
        BY <4>1, <4>2, <4>3
    <3>2. h[k] = (IF k < c THEN f[k] ELSE f[k] + 1)
          /\ h[k - 1] = IF k - 1 < c THEN f[k - 1] ELSE f[k - 1] + 1
      BY <3>1
    <3> HIDE DEF h
    <3>3. s[k] \in Nat
      BY <1>1
    <3>7. k # c => t[k] = s[k]
      BY DEF N
    <3>4. CASE k < c
      BY <1>1, <3>1, <3>2, <3>3, <3>4, <3>7
    <3>5. CASE k = c
      BY <1>1, <3>1, <3>2, <3>3, <3>5
    <3>6. CASE k > c
      <4>1. ~ (k < c) /\ ~ (k - 1 < c) /\ t[k] = s[k]
        BY <1>1, <3>6, <3>7
      <4>2. h[k] = f[k] + 1 /\ h[k - 1] = f[k - 1] + 1
        BY <3>2, <4>1
      <4> DEFINE a == f[k - 1]
                 b == s[k]
      <4>3. /\ a \in Nat /\ b \in Nat /\ f[k] = a + b
            /\ h[k] = f[k] + 1 /\ h[k - 1] = a + 1 /\ t[k] = b
        BY <3>1, <3>3, <4>1, <4>2
      <4> HIDE DEF a, b
      <4>4. QED
        BY <4>3
    <3>8. QED
      BY <1>1, <3>4, <3>5, <3>6
  <2>3. QED
    BY <2>1, <2>2 DEF IsSums
<1>6. h[N] = f[N] + 1
  BY <1>1
<1>7. Total(t) = h[N]
  <2> HIDE DEF h
  <2>1. Len(t) = N
    BY DEF N
  <2>2. QED
    BY <1>4, <1>5, <2>1, TotalIs
<1>8. QED
  BY <1>3, <1>6, <1>7

LEMMA TotalZero ==
  ASSUME NEW s \in Seq(Nat), \A k \in 1..Len(s) : s[k] = 0
  PROVE  Total(s) = 0
<1> DEFINE f == [k \in 0..Len(s) |-> 0]
<1>1. Len(s) \in Nat /\ f \in [0..Len(s) -> Nat] /\ f[Len(s)] = 0
  OBVIOUS
<1>2. IsSums(f, s, Len(s))
  BY <1>1 DEF IsSums
<1> HIDE DEF f
<1>3. QED
  BY <1>1, <1>2, TotalIs

(***************************************************************************)
(* The period at hand                                                      *)
(***************************************************************************)
LEMMA BegunIs ==
  ASSUME TypeOK, PlaceInv, ~ warmup, smp # "loop"
  PROVE  /\ Begun \in Nat /\ test_loops \in Nat \ {0} /\ Len(dts) = Begun + local.count
         /\ local.count \in 0..nsamples /\ dts \in Seq(Nat) /\ Begun \in 0..Len(dts)
<1>1. dts \in Seq(Nat) /\ local.count \in 0..nsamples /\ test_loops \in Nat
  BY TypeParts DEF SamplerType, LocalType
<1>2. test_loops >= 1 /\ Len(dts) = (test_loops - 1) * nsamples + local.count
  BY DEF PlaceInv
<1>3. test_loops - 1 \in Nat /\ nsamples \in Nat
  BY <1>1, <1>2, SamplesPerPeriod
<1>4. Begun \in Nat
  BY <1>3 DEF Begun
<1>5. Len(dts) = Begun + local.count
  BY <1>2 DEF Begun
<1>6. QED
  BY <1>1, <1>2, <1>4, <1>5

\* The other steps neither take a sample nor begin a period.
LEMMA SamplerElse ==
  ASSUME StartInv, PlaceInv, Main \/ Display \/ Sampler, ~ Sample, ~ LoopTop, ~ WarmUpEnds
  PROVE  /\ UNCHANGED <<local, warmup, test_loops, dts>>
         /\ ~ warmup /\ smp' # "loop" => smp # "loop"
         /\ ~ warmup /\ smp' \in {"freeze", "check", "add"} => smp \in {"freeze", "check", "add"}
<1>1. CASE Main
  <2>1. \/ UNCHANGED smpv
        \/ /\ smp = "unborn" /\ smp' = "start"
           /\ UNCHANGED <<local, todo, warmup, test_loops, dts, origin>>
    BY <1>1, MainStarts
  <2>2. QED
    BY <2>1 DEF smpv
<1>2. CASE Display
  BY <1>2, DisplayKeepsOthers DEF smpv
<1>3. CASE Start \/ WaitFails \/ sigdebug
  <2>1. UNCHANGED <<local, warmup, test_loops, dts>>
        /\ (smp = "start" \/ smp' = smp)
    BY <1>3 DEF Start, WaitFails, sigdebug, smpv
  <2>2. QED
    BY <2>1 DEF PlaceInv
<1>4. CASE Freeze \/ CheckSample \/ AddSample \/ CheckExtremes \/ AddExtremes \/ Store
  <2>1. UNCHANGED <<local, warmup, test_loops, dts>>
    BY <1>4, Zenon DEF Freeze, CheckSample, AddSample, CheckExtremes, AddExtremes, Store
  <2>2. /\ smp # "loop"
        /\ \/ smp \in {"freeze", "check", "add"}
           \/ smp' \notin {"freeze", "check", "add"}
    BY <1>4 DEF Freeze, CheckSample, AddSample, CheckExtremes, AddExtremes, Store
  <2>3. QED
    BY <2>1, <2>2
<1>5. QED
  BY <1>1, <1>2, <1>3, <1>4 DEF Sampler

LEMMA SumOfSample ==
  ASSUME NEW s \in Seq(Nat), NEW x \in Nat, NEW a \in Nat \ {0}, a <= Len(s) + 1
  PROVE  Total(SubSeq(Append(s, x), a, Len(s) + 1)) = Total(SubSeq(s, a, Len(s))) + x
<1> DEFINE L == Len(s)
           t == Append(s, x)
           u == SubSeq(s, a, L)
           v == SubSeq(t, a, L + 1)
<1>1. L \in Nat /\ t \in Seq(Nat) /\ Len(t) = L + 1 /\ t[L + 1] = x /\ \A i \in 1..L : t[i] = s[i]
  OBVIOUS
<1>2. /\ u \in Seq(Nat) /\ Len(u) = (L + 1) - a /\ \A i \in 1..(L + 1) - a : u[i] = s[(a + i) - 1]
  BY <1>1, Part
<1>3. /\ v \in Seq(Nat) /\ Len(v) = (L + 2) - a /\ \A i \in 1..(L + 2) - a : v[i] = t[(a + i) - 1]
  <2>1. L + 1 \in 0..Len(t) /\ a <= (L + 1) + 1 /\ (L + 1) + 1 = L + 2
    BY <1>1
  <2> HIDE DEF t, L
  <2>2. /\ v \in Seq(Nat) /\ Len(v) = ((L + 1) + 1) - a
        /\ \A i \in 1..((L + 1) + 1) - a : v[i] = t[(a + i) - 1]
    BY <1>1, <2>1, Part
  <2> HIDE DEF v
  <2>3. QED
    BY <2>1, <2>2
<1> HIDE DEF L, t, u, v
<1>7. (L + 1) - a \in Nat /\ (L + 2) - a = ((L + 1) - a) + 1
  BY <1>1 DEF L
<1>4. v = Append(u, x)
  <2>1. Append(u, x) \in Seq(Nat) /\ Len(Append(u, x)) = (L + 2) - a
        /\ Append(u, x)[(L + 2) - a] = x
        /\ \A i \in 1..(L + 1) - a : Append(u, x)[i] = u[i]
    BY <1>1, <1>2
  <2>2. ASSUME NEW i \in 1..(L + 2) - a PROVE v[i] = Append(u, x)[i]
    <3>1. CASE i = (L + 2) - a
      <4>1. (a + i) - 1 = L + 1
        BY <1>1, <3>1
      <4>2. QED
        BY <1>1, <1>3, <2>1, <3>1, <4>1
    <3>2. CASE i \in 1..(L + 1) - a
      <4>1. (a + i) - 1 \in 1..L
        BY <1>1, <3>2
      <4>2. QED
        BY <1>1, <1>2, <1>3, <2>1, <3>2, <4>1
    <3>3. i = (L + 2) - a \/ i \in 1..(L + 1) - a
      BY <1>7
    <3>4. QED
      BY <3>1, <3>2, <3>3
  <2> DEFINE w == Append(u, x)
  <2>3. w \in Seq(Nat) /\ Len(w) = Len(v) /\ \A i \in 1..Len(v) : v[i] = w[i]
    BY <1>3, <2>1, <2>2
  <2> HIDE DEF w
  <2>4. v \in Seq(Nat)
    BY <1>3
  <2>5. v = w
    BY <2>3, <2>4, SameSequence, SMTT(30)
  <2>6. QED
    BY <2>5 DEF w
<1>5. Total(Append(u, x)) = Total(u) + x
  BY <1>2, TotalAppend
<1>6. QED
  BY <1>4, <1>5 DEF L, t, u, v

LEMMA EmptyPart ==
  ASSUME NEW s \in Seq(Nat)
  PROVE  /\ Total(SubSeq(s, Len(s) + 1, Len(s))) = 0
         /\ {s[i] : i \in Len(s) + 1..Len(s)} = {}
<1> DEFINE t == SubSeq(s, Len(s) + 1, Len(s))
<1>1. Len(s) \in Nat /\ Len(s) + 1..Len(s) = {}
  OBVIOUS
<1>2. t \in Seq(Nat) /\ Len(t) = 0
  <2>1. Len(s) + 1 \in Nat \ {0} /\ Len(s) \in 0..Len(s) /\ Len(s) + 1 <= Len(s) + 1
    BY <1>1
  <2>2. t \in Seq(Nat) /\ Len(t) = (Len(s) + 1) - (Len(s) + 1)
    BY <2>1, Part
  <2> HIDE DEF t
  <2>3. QED
    BY <1>1, <2>2
<1> HIDE DEF t
<1>3. t = <<>>
  BY <1>2
<1>4. Total(t) = 0
  BY <1>3, TotalEmpty
<1>5. QED
  BY <1>1, <1>4 DEF t

LEMMA PeriodKept ==
  ASSUME InTime, TypeOK, StartInv, PlaceInv, ReleaseInv, LateInv, PeriodInv,
         Main \/ Sampler \/ Display
  PROVE  PeriodInv'
<1>1. SamplerType /\ dts \in Seq(Nat) /\ test_loops \in Nat /\ nsamples \in Nat \ {0}
      /\ local.count \in 0..nsamples
  BY TypeParts, SamplesPerPeriod DEF SamplerType, LocalType
<1>2. CASE LoopTop
  <2>1. /\ smp = "loop" /\ smp' = "wait" /\ UNCHANGED <<warmup, dts>>
        /\ test_loops' = test_loops + 1 /\ local'.minj = TEN_MILLIONS
        /\ local'.maxj = -TEN_MILLIONS /\ local'.sumj = 0 /\ local'.count = 0
    BY <1>1, <1>2 DEF LoopTop, SamplerType, LocalType
  <2>2. ~ warmup => Begun' = Len(dts)
    BY <1>1, <2>1 DEF PlaceInv, Begun
  <2>3. ~ warmup => Total(Current)' = 0 /\ {dts'[i] : i \in Begun' + 1..Len(dts')} = {}
    BY <1>1, <2>1, <2>2, EmptyPart DEF Current
  <2>4. \A p \in Nat : 0 <= 0 * (2 * p)
    OBVIOUS
  <2>5. 0 <= local'.count * (2 * period_ns)
    BY <2>1, <2>4, SamplesPerPeriod
  <2>6. Total(Current)' = Total(Current')
    OBVIOUS
  <2>7. \A i \in 1..Len(dts') : dts'[i] < Half
    BY <2>1 DEF PeriodInv
  <2>8. ASSUME ~ warmup
        PROVE  /\ Lowest(local'.minj, {dts'[i] : i \in Begun' + 1..Len(dts')})
               /\ Highest(local'.maxj, {dts'[i] : i \in Begun' + 1..Len(dts')})
               /\ local'.sumj = Total(Current')
    BY <2>1, <2>3, <2>6, <2>8, NoExtremes, Zenon
  <2>9. 0 <= local'.sumj /\ local'.sumj <= local'.count * (2 * period_ns)
    BY <2>1, <2>5
  <2>10. QED
    BY <2>1, <2>7, <2>8, <2>9 DEF PeriodInv
<1>3. CASE WarmUpEnds
  <2>1. smp' = "loop" /\ UNCHANGED dts
    BY <1>3 DEF WarmUpEnds
  <2>2. QED
    BY <2>1 DEF PeriodInv
<1>4. CASE (Main \/ Display \/ Sampler) /\ ~ Sample /\ ~ LoopTop /\ ~ WarmUpEnds
  <2>1. /\ UNCHANGED <<local, warmup, test_loops, dts>>
        /\ ~ warmup /\ smp' # "loop" => smp # "loop"
        /\ ~ warmup /\ smp' \in {"freeze", "check", "add"} => smp \in {"freeze", "check", "add"}
    BY <1>4, SamplerElse
  <2>2. UNCHANGED <<Begun, Current, Modest>>
    BY <2>1 DEF Begun, Current, Modest
  <2>3. QED
    BY <2>1, <2>2 DEF PeriodInv
<1>5. CASE Sample
  <2>1. PICK x \in 0..Half - 1 : Taken(x)
    BY <1>5, SampleInTime
  <2>2. smp = "wait" /\ UNCHANGED <<warmup, test_loops>>
    BY <1>5 DEF Sample
  <2>3. CASE warmup
    BY <2>1, <2>2, <2>3 DEF Taken, PeriodInv
  <2>4. CASE ~ warmup
    <3>1. /\ Begun \in 0..Len(dts) /\ Len(dts) = Begun + local.count /\ UNCHANGED Begun
          /\ local.count < nsamples
      BY <2>2, <2>4, BegunIs DEF Begun, PlaceInv
    <3>2. /\ dts' = Append(dts, x) /\ x \in Nat /\ x < Half /\ Len(dts') = Len(dts) + 1
          /\ dts'[Len(dts')] = x /\ \A i \in 1..Len(dts) : dts'[i] = dts[i]
      BY <1>1, <2>1, <2>4, WordAssumption DEF Taken
    <3>3. \A i \in 1..Len(dts') : dts'[i] < Half
      <4>1. \A i \in 1..Len(dts') : i \in 1..Len(dts) \/ i = Len(dts')
        BY <1>1, <3>2
      <4>2. QED
        BY <3>2, <4>1 DEF PeriodInv
    <3> DEFINE T == {dts[i] : i \in Begun + 1..Len(dts)}
               U == {dts'[i] : i \in Begun' + 1..Len(dts')}
    <3>4. U = T \cup {x}
      BY <1>1, <3>1, <3>2, ImageOfAppend, SMTT(30)
    <3>5. T \in SUBSET Int
      BY <1>1, <3>1, Adjacent
    <3>6. Lowest(local.minj, T) /\ Highest(local.maxj, T)
      BY <2>2, <2>4 DEF PeriodInv
    <3> HIDE DEF T, U
    <3>7. Lowest(local'.minj, U) /\ Highest(local'.maxj, U)
      <4>1. x \in Int
        BY <3>2
      <4>2. QED
        BY <2>1, <3>4, <3>5, <3>6, <4>1, OneMore DEF Taken
    <3>8. local'.dt = dts'[Len(dts')]
      BY <2>1, <3>2 DEF Taken
    <3>9. Modest' => /\ local'.sumj = Total(Current')
                     /\ 0 <= local'.sumj /\ local'.sumj <= local'.count * (2 * period_ns)
      <4> SUFFICES ASSUME Modest'
                   PROVE  /\ local'.sumj = Total(Current')
                          /\ 0 <= local'.sumj /\ local'.sumj <= local'.count * (2 * period_ns)
        OBVIOUS
      <4>1. Modest /\ x < 2 * period_ns
        <5>1. Extends(dts', dts)
          BY <1>1, <3>2 DEF Extends
        <5>2. Len(dts') \in 1..Len(dts')
          BY <1>1, <3>2
        <5>3. x < 2 * period_ns
          BY <3>2, <5>2 DEF Modest
        <5>4. QED
          BY <1>1, <5>1, <5>3, PastKept
      <4>2. /\ local.sumj = Total(Current)
            /\ 0 <= local.sumj /\ local.sumj <= local.count * (2 * period_ns)
        BY <2>2, <2>4, <4>1 DEF PeriodInv
      <4>3. Total(Current') = Total(Current) + x
        <5>1. Begun + 1 \in Nat \ {0} /\ Begun + 1 <= Len(dts) + 1
          BY <3>1
        <5>2. QED
          BY <1>1, <3>1, <3>2, <5>1, SumOfSample DEF Current
      <4> DEFINE p == 2 * period_ns
                 c == local.count
                 s == local.sumj
                 cp == c * p
                 np == nsamples * p
      <4>4. p \in Nat /\ c \in Nat /\ c + 1 <= nsamples /\ s \in Int /\ x < p
        BY <1>1, <3>1, <4>1, SamplesPerPeriod, WordAssumption, SMTT(30)
           DEF SamplerType, LocalType, Int32
      <4>5. np = 2 * (nsamples * period_ns)
        BY <1>1, SamplesPerPeriod
      <4>6. np < Half /\ np \in Nat
        <5>1. nsamples * period_ns \in Nat /\ nsamples * period_ns <= ONE_BILLION
          BY SamplesPerPeriod
        <5> DEFINE m == nsamples * period_ns
        <5>2. m \in Nat /\ m <= ONE_BILLION /\ np = 2 * m
          BY <4>5, <5>1
        <5> HIDE DEF m, np
        <5>3. QED
          BY <5>2, WordAssumption, PeriodAssumption
      <4>7. s <= cp /\ 0 <= s
        BY <4>2
      <4> HIDE DEF p, c, s
      <4>8. (c + 1) * p = cp + p /\ (c + 1) * p <= np /\ cp \in Nat
        BY <1>1, <4>4
      <4> HIDE DEF cp, np
      <4>9. s + x \in 0..Half - 1 /\ s + x <= (c + 1) * p
        BY <3>2, <4>4, <4>6, <4>7, <4>8, WordAssumption
      <4>10. AsInt(s + x) = s + x
        BY <4>9, Conversions
      <4>11. local'.sumj = s + x /\ local'.count = c + 1
        BY <2>1, <4>10 DEF Taken, s, c
      <4>12. QED
        BY <4>2, <4>3, <4>9, <4>11, WordAssumption DEF s, p
    <3>10. QED
      BY <2>2, <3>3, <3>7, <3>8, <3>9 DEF PeriodInv, U
  <2>5. QED
    BY <2>3, <2>4
<1>6. QED
  BY <1>2, <1>3, <1>4, <1>5

(***************************************************************************)
(* The globals                                                             *)
(***************************************************************************)
LEMMA AsBefore ==
  ASSUME TypeOK, PlaceInv, Extends(dts', dts)
  PROVE  /\ MinInv /\ g'["minjitter"] = g["minjitter"] /\ Done("minjitter")' = Done("minjitter")
              => MinInv'
         /\ MaxInv /\ g'["maxjitter"] = g["maxjitter"] /\ Done("maxjitter")' = Done("maxjitter")
              => MaxInv'
         /\ AvgInv /\ g'["avgjitter"] = g["avgjitter"] /\ Done("avgjitter")' = Done("avgjitter")
              => AvgInv'
         /\ BestInv /\ g'["gminjitter"] = g["gminjitter"] /\ Done("gminjitter")' = Done("gminjitter")
              => BestInv'
<1>1. dts \in Seq(Nat)
  BY TypeParts DEF SamplerType
<1>2. \A f \in Fields : Done(f) \in 0..Measured /\ Done(f) * nsamples \in 0..Len(dts)
  BY DoneIs
<1>3. Measured \in Nat
  BY MeasuredIs
<1>4. /\ "minjitter" \in Fields /\ "maxjitter" \in Fields /\ "avgjitter" \in Fields
      /\ "gminjitter" \in Fields
  BY Lists
<1>5. /\ Modest' => Modest
      /\ \A m \in 0..Len(dts) : First(m)' = First(m)
      /\ \A j \in Nat \ {0} : j <= Measured => Of(j)' = Of(j) /\ Period(j)' = Period(j)
  BY <1>1, PastKept
<1>6. ASSUME MinInv, g'["minjitter"] = g["minjitter"], Done("minjitter")' = Done("minjitter")
      PROVE  MinInv'
  <2>1. PICK d \in Nat : d = Done("minjitter") /\ d <= Measured
    BY <1>2, <1>3, <1>4
  <2>2. d > 0 => Lowest(g["minjitter"], Of(d))
    BY <1>6, <2>1 DEF MinInv
  <2>3. d > 0 => Lowest(g'["minjitter"], Of(d)')
    BY <1>5, <1>6, <2>1, <2>2
  <2>4. QED
    BY <1>6, <2>1, <2>3 DEF MinInv
<1>7. ASSUME MaxInv, g'["maxjitter"] = g["maxjitter"], Done("maxjitter")' = Done("maxjitter")
      PROVE  MaxInv'
  <2>1. PICK d \in Nat : d = Done("maxjitter") /\ d <= Measured
    BY <1>2, <1>3, <1>4
  <2>2. d > 0 => Highest(g["maxjitter"], Of(d))
    BY <1>7, <2>1 DEF MaxInv
  <2>3. d > 0 => Highest(g'["maxjitter"], Of(d)')
    BY <1>5, <1>7, <2>1, <2>2
  <2>4. QED
    BY <1>7, <2>1, <2>3 DEF MaxInv
<1>8. ASSUME AvgInv, g'["avgjitter"] = g["avgjitter"], Done("avgjitter")' = Done("avgjitter")
      PROVE  AvgInv'
  <2>1. PICK d \in Nat : d = Done("avgjitter") /\ d <= Measured
    BY <1>2, <1>3, <1>4
  <2>2. d > 0 /\ Modest => g["avgjitter"] = AvgOf(Period(d))
    BY <1>8, <2>1 DEF AvgInv
  <2>3. d > 0 /\ Modest' => g'["avgjitter"] = AvgOf(Period(d)')
    BY <1>5, <1>8, <2>1, <2>2
  <2>4. QED
    BY <1>8, <2>1, <2>3 DEF AvgInv, AvgOf
<1>9. ASSUME BestInv, g'["gminjitter"] = g["gminjitter"], Done("gminjitter")' = Done("gminjitter")
      PROVE  BestInv'
  <2>1. PICK m \in 0..Len(dts) : m = Done("gminjitter") * nsamples
    BY <1>2, <1>4
  <2>2. Lowest(g["gminjitter"], First(m))
    BY <1>9, <2>1 DEF BestInv
  <2>3. Lowest(g'["gminjitter"], First(m)')
    BY <1>5, <1>9, <2>1, <2>2
  <2>4. m = Done("gminjitter")' * nsamples
    BY <1>9, <2>1
  <2>5. QED
    BY <2>3, <2>4 DEF BestInv
<1>10. QED
  BY <1>6, <1>7, <1>8, <1>9

\* The period at hand, when its results are stored, is a complete one.
LEMMA PeriodStored ==
  ASSUME TypeOK, PlaceInv, PeriodInv, Store
  PROVE  /\ test_loops \in Nat \ {0} /\ Begun \in 0..Len(dts) /\ dts \in Seq(Nat)
         /\ Len(dts) = test_loops * nsamples /\ Begun = (test_loops - 1) * nsamples
         /\ Lowest(local.minj, Of(test_loops)) /\ Highest(local.maxj, Of(test_loops))
         /\ Modest => Quot(local.sumj, nsamples) = AvgOf(Period(test_loops))
         /\ First(Len(dts)) = First(Begun) \cup Of(test_loops)
         /\ Of(test_loops) \subseteq Nat
<1>1. /\ smp = "store" /\ ~ warmup /\ Len(dts) = test_loops * nsamples
  BY DoneStore DEF Store
<1>2. /\ Begun \in 0..Len(dts) /\ dts \in Seq(Nat) /\ test_loops \in Nat \ {0}
  BY <1>1, BegunIs
<1>3. Of(test_loops) = {dts[i] : i \in Begun + 1..Len(dts)} /\ Period(test_loops) = Current
  BY <1>1 DEF Of, Period, Current, Begun
<1>4. Lowest(local.minj, Of(test_loops)) /\ Highest(local.maxj, Of(test_loops))
  BY <1>1, <1>3 DEF PeriodInv
<1>5. ASSUME Modest PROVE Quot(local.sumj, nsamples) = AvgOf(Period(test_loops))
  <2>1. local.sumj = Total(Current) /\ 0 <= local.sumj /\ local.sumj \in Int
    BY <1>1, <1>5, TypeParts, WordAssumption DEF PeriodInv, SamplerType, LocalType, Int32
  <2>2. Quot(local.sumj, nsamples) = local.sumj \div nsamples
    BY <2>1, SamplesPerPeriod, Conversions
  <2>3. QED
    BY <1>3, <2>1, <2>2 DEF AvgOf
<1>6. /\ First(Len(dts)) = First(Begun) \cup Of(test_loops)
      /\ Of(test_loops) \subseteq Nat
  BY <1>2, <1>3, Adjacent DEF First
<1>7. QED
  BY <1>1, <1>2, <1>4, <1>5, <1>6 DEF Begun

LEMMA StoreGlobals ==
  ASSUME TypeOK, StartInv, PlaceInv, PeriodInv, GlobalsInv, Store
  PROVE  GlobalsInv'
<1> DEFINE f == Head(todo)
<1>1. /\ f \in Fields /\ Done(f) = test_loops - 1 /\ ~ warmup
      /\ \A e \in Fields : Done(e)' = IF e = f THEN test_loops ELSE Done(e)
      /\ UNCHANGED <<local, dts, warmup, test_loops>>
  BY DoneStore
<1>2. \/ f = "post" /\ g' = g
      \/ f # "post" /\ g' = [g EXCEPT ![f] = Stored[f]]
  BY DEF Store
<1>3. smp = "store" /\ smp' \in {"loop", "store"} /\ UNCHANGED freeze_max /\ UNCHANGED finished
  BY DEF Store, options, mainv
<1>4. g \in [Globals -> Int]
  BY TypeParts DEF GlobalsType
<1>5. dts \in Seq(Nat) /\ Len(dts) \in Nat /\ Extends(dts', dts)
  BY <1>1, TypeParts DEF SamplerType, Extends
<1>6. /\ "minjitter" \in Fields /\ "maxjitter" \in Fields /\ "avgjitter" \in Fields
      /\ "gminjitter" \in Fields /\ "gmaxjitter" \in Fields
      /\ "minjitter" \in Globals /\ "maxjitter" \in Globals /\ "avgjitter" \in Globals
      /\ "gminjitter" \in Globals /\ "gmaxjitter" \in Globals
      /\ Fields = Globals \cup {"post"}
  BY Lists
<1> HIDE DEF f
<1>7. \A e \in Globals : e # f => g'[e] = g[e] /\ Done(e)' = Done(e)
  BY <1>1, <1>2, <1>4, <1>6
<1>8. \A e \in Globals : e = f => g'[e] = Stored[e] /\ Done(e)' = test_loops
  <2>1. "post" \notin Globals
    BY Lists
  <2>2. QED
    BY <1>1, <1>2, <1>4, <1>6, <2>1
<1>9. /\ test_loops \in Nat \ {0} /\ Begun \in 0..Len(dts)
      /\ Len(dts) = test_loops * nsamples /\ Begun = (test_loops - 1) * nsamples
      /\ Lowest(local.minj, Of(test_loops)) /\ Highest(local.maxj, Of(test_loops))
      /\ Modest => Quot(local.sumj, nsamples) = AvgOf(Period(test_loops))
      /\ First(Len(dts)) = First(Begun) \cup Of(test_loops)
      /\ Of(test_loops) \subseteq Nat
  BY PeriodStored
<1>10. /\ local.minj \in Int /\ local.maxj \in Int
       /\ g["gminjitter"] \in Int /\ g["gmaxjitter"] \in Int
  BY <1>4, <1>6, TypeParts, WordAssumption DEF SamplerType, LocalType, Int32
<1>11. PICK t \in Nat \ {0} : t = test_loops
  BY <1>9
<1>19. Of(test_loops) \in SUBSET Int
  BY <1>9
<1>12. /\ Of(t)' = Of(t) /\ Period(t)' = Period(t) /\ Modest' = Modest
       /\ \A m \in 0..Len(dts) : First(m)' = First(m)
  BY <1>1 DEF Of, Period, Modest, First
<1>13. MinInv'
  <2>1. CASE f # "minjitter"
    BY <1>5, <1>6, <1>7, <2>1, AsBefore DEF GlobalsInv
  <2>2. CASE f = "minjitter"
    <3>1. g'["minjitter"] = local.minj /\ Done("minjitter")' = t
      BY <1>6, <1>8, <1>11, <2>2 DEF Stored
    <3>2. Lowest(g'["minjitter"], Of(t)')
      BY <1>9, <1>11, <1>12, <3>1
    <3>3. QED
      BY <3>1, <3>2 DEF MinInv
  <2>3. QED
    BY <2>1, <2>2
<1>14. MaxInv'
  <2>1. CASE f # "maxjitter"
    BY <1>5, <1>6, <1>7, <2>1, AsBefore DEF GlobalsInv
  <2>2. CASE f = "maxjitter"
    <3>1. g'["maxjitter"] = local.maxj /\ Done("maxjitter")' = t
      BY <1>6, <1>8, <1>11, <2>2 DEF Stored
    <3>2. Highest(g'["maxjitter"], Of(t)')
      BY <1>9, <1>11, <1>12, <3>1
    <3>3. QED
      BY <3>1, <3>2 DEF MaxInv
  <2>3. QED
    BY <2>1, <2>2
<1>15. AvgInv'
  <2>1. CASE f # "avgjitter"
    BY <1>5, <1>6, <1>7, <2>1, AsBefore DEF GlobalsInv
  <2>2. CASE f = "avgjitter"
    <3>1. g'["avgjitter"] = Quot(local.sumj, nsamples) /\ Done("avgjitter")' = t
      BY <1>6, <1>8, <1>11, <2>2 DEF Stored
    <3>2. Modest' => g'["avgjitter"] = AvgOf(Period(t)')
      BY <1>9, <1>11, <1>12, <3>1
    <3>3. QED
      BY <3>1, <3>2 DEF AvgInv, AvgOf
  <2>3. QED
    BY <2>1, <2>2
<1>16. BestInv'
  <2>1. CASE f # "gminjitter"
    BY <1>5, <1>6, <1>7, <2>1, AsBefore DEF GlobalsInv
  <2>2. CASE f = "gminjitter"
    <3>1. g'["gminjitter"] = (IF g["gminjitter"] <= local.minj THEN g["gminjitter"] ELSE local.minj)
          /\ Done("gminjitter")' = t
      BY <1>6, <1>8, <1>10, <1>11, <2>2, MinMax DEF Stored
    <3>2. Lowest(g["gminjitter"], First(Begun))
      BY <1>1, <1>9, <2>2 DEF GlobalsInv, BestInv
    <3>3. First(Begun) \in SUBSET Int
      BY <1>5, <1>9, Adjacent DEF First
    <3>4. Lowest(g'["gminjitter"], First(Len(dts)))
      BY <1>9, <1>19, <3>1, <3>2, <3>3, Together
    <3>5. PICK m \in 0..Len(dts) : m = Len(dts)
      BY <1>5
    <3>6. Lowest(g'["gminjitter"], First(m)')
      BY <1>12, <3>4, <3>5
    <3>7. m = Done("gminjitter")' * nsamples
      BY <1>9, <1>11, <3>1, <3>5
    <3>8. QED
      BY <3>6, <3>7 DEF BestInv
  <2>3. QED
    BY <2>1, <2>2
<1>17. WorstInv'
  <2>1. PICK w \in Nat : Worst(w)
    BY DEF GlobalsInv, WorstInv
  <2>2. CASE f # "gmaxjitter"
    <3>1. g'["gmaxjitter"] = g["gmaxjitter"] /\ Done("gmaxjitter")' = Done("gmaxjitter")
      BY <1>6, <1>7, <2>2
    <3>2. Worst(w)'
      BY <1>1, <1>3, <2>1, <3>1 DEF Worst, First
    <3>3. QED
      BY <3>2 DEF WorstInv
  <2>3. CASE f = "gmaxjitter"
    <3>1. g'["gmaxjitter"] = (IF g["gmaxjitter"] >= local.maxj THEN g["gmaxjitter"] ELSE local.maxj)
          /\ Done("gmaxjitter")' = t
      BY <1>6, <1>8, <1>10, <1>11, <2>3, MinMax DEF Stored
    <3>2. w \in Begun..Len(dts) /\ Highest(g["gmaxjitter"], First(w))
      BY <1>1, <1>9, <2>1, <2>3 DEF Worst
    <3>3. First(w) \in SUBSET Int /\ First(Len(dts)) = First(w) \cup Of(test_loops)
      <4>1. w \in 0..Len(dts) /\ Len(dts) \in w..Len(dts) /\ w \in Begun..Len(dts)
        BY <1>5, <1>9, <3>2
      <4>2. /\ First(Len(dts)) = First(w) \cup {dts[i] : i \in w + 1..Len(dts)}
            /\ First(w) \subseteq Nat
        BY <1>5, <4>1, Adjacent DEF First
      <4>3. {dts[i] : i \in w + 1..Len(dts)} \subseteq Of(test_loops)
        <5>1. \A i \in w + 1..Len(dts) : i \in Begun + 1..Len(dts)
          BY <1>5, <1>9, <3>2
        <5>2. Of(test_loops) = {dts[i] : i \in Begun + 1..Len(dts)}
          BY <1>9 DEF Of
        <5>3. QED
          BY <5>1, <5>2
      <4>4. Of(test_loops) \subseteq First(Len(dts))
        BY <1>9
      <4>5. QED
        BY <4>2, <4>3, <4>4
    <3>4. Highest(g'["gmaxjitter"], First(Len(dts)))
      BY <1>9, <1>19, <3>1, <3>2, <3>3, Together
    <3>5. PICK m \in Nat : m = Len(dts)
      BY <1>5
    <3>6. Highest(g'["gmaxjitter"], First(m)')
      BY <1>12, <3>4, <3>5
    <3>7. m \in Done("gmaxjitter")' * nsamples..Len(dts')
      BY <1>1, <1>5, <1>9, <1>11, <3>1, <3>5
    <3>8. m = IF smp' = "freeze" THEN Len(dts') - 1 ELSE Len(dts')
      BY <1>1, <1>3, <3>5
    <3>9. Worst(m)'
      BY <3>6, <3>7, <3>8 DEF Worst
    <3>10. QED
      BY <3>9 DEF WorstInv
  <2>4. QED
    BY <2>2, <2>3
<1>18. QED
  BY <1>3, <1>13, <1>14, <1>15, <1>16, <1>17 DEF GlobalsInv

\* What the steps that store nothing do to the globals.
LEMMA GlobalsElse ==
  ASSUME TypeOK, PlaceInv, Main \/ Display \/ (Sampler /\ ~ Store)
  PROVE  /\ \A e \in Globals : e \notin {"gavgjitter", "gmaxjitter"} => g'[e] = g[e]
         /\ ~ Freeze => g'["gmaxjitter"] = g["gmaxjitter"]
         /\ ~ Divide => g'["gavgjitter"] = g["gavgjitter"]
<1>1. g \in [Globals -> Int] /\ "gmaxjitter" \in Globals /\ "gavgjitter" \in Globals
  BY TypeParts, Lists DEF GlobalsType
<1>2. CASE Main
  <2>1. g' = g \/ (Divide /\ g' = [g EXCEPT !.gavgjitter = Quot(@, divisor)])
    BY <1>2, MainKeepsOthers DEF Divide
  <2>2. QED
    BY <1>1, <2>1
<1>3. CASE Display
  BY <1>3, DisplayKeepsOthers
<1>4. CASE Sampler /\ ~ Store
  <2>1. g' = g \/ (Freeze /\ g' = [g EXCEPT !.gmaxjitter = local.dt])
    BY <1>4, Zenon DEF Sampler, Start, LoopTop, Sample, WaitFails, sigdebug, Freeze, CheckSample,
                AddSample, CheckExtremes, AddExtremes, WarmUpEnds
  <2>2. QED
    BY <1>1, <2>1
<1>5. QED
  BY <1>2, <1>3, <1>4

LEMMA Finishes ==
  ASSUME Main \/ Sampler \/ Display
  PROVE  /\ freeze_max' = freeze_max /\ need_histo' = need_histo /\ test_mode' = test_mode
         /\ finished => finished'
<1>1. freeze_max' = freeze_max /\ need_histo' = need_histo /\ test_mode' = test_mode
  BY MainKeepsOthers, SamplerKeepsOthers, DisplayKeepsOthers DEF options
<1>2. finished' = finished \/ finished'
  <2>1. CASE Main
    BY <2>1, Zenon DEF Main, Alloc, SetupFails, StartTasks, Sigwait, StopTest, CountLoops, Divide,
         Copy, Dump, Free, Exit
  <2>2. CASE Display
    BY <2>2, DisplayKeepsOthers, Zenon DEF mainv
  <2>3. CASE Sampler
    BY <2>3, SamplerKeepsOthers, Zenon
  <2>4. QED
    BY <2>1, <2>2, <2>3
<1>3. finished => finished'
  BY <1>2, Zenon
<1>4. QED
  BY <1>1, <1>3

\* The steps that neither enter nor leave the place where -f takes a maximum.
LEMMA FreezeElse ==
  ASSUME TypeOK, StartInv, PlaceInv, Main \/ Display \/ (Sampler /\ ~ Store),
         ~ Freeze, ~ Sample, ~ WarmUpEnds
  PROVE  /\ UNCHANGED <<dts, warmup>>
         /\ smp' = "freeze" <=> smp = "freeze"
<1>1. CASE Main
  BY <1>1, MainStarts DEF smpv
<1>2. CASE Display
  BY <1>2, DisplayKeepsOthers DEF smpv
<1>3. CASE Sampler /\ ~ Store
  BY <1>3 DEF Sampler, Start, LoopTop, WaitFails, sigdebug, CheckSample, AddSample, CheckExtremes,
              AddExtremes, AfterSample, smpv
<1>4. QED
  BY <1>1, <1>2, <1>3

LEMMA GlobalsKept ==
  ASSUME InTime, TypeOK, StartInv, PlaceInv, ReleaseInv, LateInv, PeriodInv, GlobalsInv,
         Main \/ Sampler \/ Display
  PROVE  GlobalsInv'
<1>1. CASE Store
  BY <1>1, StoreGlobals
<1>2. CASE (Main \/ Display \/ (Sampler /\ ~ Store))
  <2>1. /\ "minjitter" \in Fields /\ "maxjitter" \in Fields /\ "avgjitter" \in Fields
        /\ "gminjitter" \in Fields /\ "gmaxjitter" \in Fields
        /\ "minjitter" \in Globals /\ "maxjitter" \in Globals /\ "avgjitter" \in Globals
        /\ "gminjitter" \in Globals /\ "gmaxjitter" \in Globals
    BY Lists
  <2>2. \A f \in Fields : Done(f)' = Done(f)
    BY <1>2, DoneElse DEF DoneKept
  <2>3. /\ g'["minjitter"] = g["minjitter"] /\ g'["maxjitter"] = g["maxjitter"]
        /\ g'["avgjitter"] = g["avgjitter"] /\ g'["gminjitter"] = g["gminjitter"]
        /\ ~ Freeze => g'["gmaxjitter"] = g["gmaxjitter"]
    BY <1>2, <2>1, GlobalsElse
  <2>4. Extends(dts', dts)
    BY DtsGrow
  <2>5. MinInv' /\ MaxInv' /\ AvgInv' /\ BestInv'
    BY <2>1, <2>2, <2>3, <2>4, AsBefore DEF GlobalsInv
  <2>6. /\ freeze_max' = freeze_max
        /\ finished => finished'
    BY Finishes
  <2>7. smp' = "freeze" => freeze_max'
    <3>1. CASE Sample
      BY <2>6, <3>1 DEF Sample
    <3>2. CASE ~ Sample
      <4>1. smp' = "freeze" => smp = "freeze"
        <5>1. CASE Freeze \/ WarmUpEnds
          BY <5>1 DEF Freeze, WarmUpEnds
        <5>2. CASE ~ Freeze /\ ~ WarmUpEnds
          BY <1>2, <3>2, <5>2, FreezeElse
        <5>3. QED
          BY <5>1, <5>2
      <4>2. QED
        BY <2>6, <4>1 DEF GlobalsInv
    <3>3. QED
      BY <3>1, <3>2
  <2>8. PICK w \in Nat : Worst(w)
    BY DEF GlobalsInv, WorstInv
  <2>9. Done("gmaxjitter")' = Done("gmaxjitter")
    BY <2>1, <2>2
  <2>10. /\ dts \in Seq(Nat) /\ Len(dts) \in Nat /\ test_loops \in Nat
    BY TypeParts DEF SamplerType
  <2>11. WorstInv'
    <3>1. CASE ~ Freeze /\ ~ Sample /\ ~ WarmUpEnds
      <4>1. UNCHANGED <<dts, warmup>> /\ (smp' = "freeze" <=> smp = "freeze")
        BY <1>2, <3>1, FreezeElse
      <4>2. First(w)' = First(w)
        BY <4>1 DEF First
      <4>3. w \in Done("gmaxjitter")' * nsamples..Len(dts') /\ Highest(g'["gmaxjitter"], First(w)')
        BY <2>3, <2>8, <2>9, <3>1, <4>1, <4>2 DEF Worst
      <4>4. freeze_max' /\ ~ finished' /\ ~ warmup' =>
              w = IF smp' = "freeze" THEN Len(dts') - 1 ELSE Len(dts')
        BY <2>6, <2>8, <4>1 DEF Worst
      <4>5. Worst(w)'
        BY <4>3, <4>4 DEF Worst
      <4>6. QED
        BY <4>5 DEF WorstInv
    <3>2. CASE WarmUpEnds
      <4>1. warmup /\ dts = <<>> /\ UNCHANGED dts /\ smp' = "loop"
        BY <3>2 DEF WarmUpEnds, PlaceInv
      <4>2. g'["gmaxjitter"] = g["gmaxjitter"]
        BY <2>3, <3>2 DEF WarmUpEnds, Freeze
      <4>3. First(w)' = First(w)
        BY <4>1 DEF First
      <4>4. w \in Done("gmaxjitter")' * nsamples..Len(dts') /\ Highest(g'["gmaxjitter"], First(w)')
        BY <2>8, <2>9, <4>1, <4>2, <4>3 DEF Worst
      <4>5. w = Len(dts')
        <5>1. Done("gmaxjitter") = 0 /\ Len(dts) = 0
          BY <4>1 DEF Done
        <5>2. w \in 0..0
          BY <2>8, <5>1, SamplesPerPeriod DEF Worst
        <5>3. QED
          BY <4>1, <5>1, <5>2
      <4>6. Worst(w)'
        BY <4>1, <4>4, <4>5 DEF Worst
      <4>7. QED
        BY <4>6 DEF WorstInv
    <3>3. CASE Sample
      <4>1. smp = "wait" /\ UNCHANGED warmup /\ smp' = (IF freeze_max THEN "freeze" ELSE "check")
        BY <3>3 DEF Sample
      <4>2. g'["gmaxjitter"] = g["gmaxjitter"]
        BY <3>3 DEF Sample
      <4>3. PICK x \in 0..Half - 1 : Taken(x)
        BY <3>3, SampleInTime
      <4>4. /\ warmup => Len(dts') = Len(dts)
            /\ ~ warmup => Len(dts') = Len(dts) + 1
        BY <2>10, <4>3 DEF Taken
      <4>5. w \in 0..Len(dts) /\ w \in Done("gmaxjitter") * nsamples..Len(dts)
        BY <2>8, <2>10 DEF Worst
      <4>6. First(w)' = First(w)
        BY <2>4, <2>10, <4>5, PastKept
      <4>7. Done("gmaxjitter") * nsamples \in 0..Len(dts)
        BY <2>1, DoneIs
      <4>8. w \in Done("gmaxjitter")' * nsamples..Len(dts')
        BY <2>9, <2>10, <4>4, <4>5, <4>7
      <4>9. Highest(g'["gmaxjitter"], First(w)')
        BY <2>8, <4>2, <4>6 DEF Worst
      <4>10. freeze_max' /\ ~ finished' /\ ~ warmup' =>
              w = IF smp' = "freeze" THEN Len(dts') - 1 ELSE Len(dts')
        <5> SUFFICES ASSUME freeze_max', ~ finished', ~ warmup'
                     PROVE  w = IF smp' = "freeze" THEN Len(dts') - 1 ELSE Len(dts')
          OBVIOUS
        <5>1. freeze_max /\ ~ finished /\ ~ warmup
          BY <2>6, <4>1
        <5>2. w = Len(dts)
          BY <2>8, <4>1, <5>1 DEF Worst
        <5>3. smp' = "freeze" /\ Len(dts') = Len(dts) + 1
          BY <4>1, <4>4, <5>1
        <5>4. QED
          BY <2>10, <5>2, <5>3
      <4>11. Worst(w)'
        BY <4>8, <4>9, <4>10 DEF Worst
      <4>12. QED
        BY <4>11 DEF WorstInv
    <3>4. CASE Freeze
      <4>1. /\ smp = "freeze" /\ smp' = "check" /\ UNCHANGED <<dts, warmup, finished>>
            /\ g' = IF local.dt > g.gmaxjitter /\ ~ (finished \/ warmup)
                    THEN [g EXCEPT !.gmaxjitter = local.dt] ELSE g
        BY <3>4 DEF Freeze, mainv
      <4>2. freeze_max
        BY <4>1 DEF GlobalsInv
      <4>3. \A m \in Nat : First(m)' = First(m)
        BY <4>1 DEF First
      <4>4. CASE finished \/ warmup
        <5>1. g' = g
          BY <4>1, <4>4
        <5>2. Worst(w)'
          BY <2>8, <2>9, <4>1, <4>3, <4>4, <5>1 DEF Worst
        <5>3. QED
          BY <5>2 DEF WorstInv
      <4>5. CASE ~ finished /\ ~ warmup
        <5> DEFINE L == Len(dts)
        <5>1. w = L - 1 /\ L \in Nat /\ L >= 1 /\ Done("gmaxjitter") * nsamples <= w
          <6>1. w \in Nat /\ w = Len(dts) - 1 /\ w \in Done("gmaxjitter") * nsamples..Len(dts)
            BY <2>8, <4>1, <4>2, <4>5 DEF Worst
          <6>2. Done("gmaxjitter") * nsamples \in 0..Len(dts)
            BY <2>1, DoneIs
          <6>3. QED
            BY <2>10, <6>1, <6>2
        <5>2. First(L) = First(w) \cup {dts[L]} /\ First(w) \in SUBSET Int /\ dts[L] \in Int
          <6>1. w \in 0..Len(dts) /\ L \in w..Len(dts)
            BY <5>1
          <6>2. First(L) = First(w) \cup {dts[i] : i \in w + 1..L} /\ First(w) \subseteq Nat
            BY <2>10, <6>1, Adjacent DEF First
          <6>3. w + 1..L = {L}
            BY <5>1
          <6>4. {dts[i] : i \in w + 1..L} = {dts[L]}
            BY <6>3
          <6>5. L \in 1..Len(dts)
            BY <5>1
          <6>6. dts[L] \in Nat
            BY <2>10, <6>5
          <6>7. First(w) \in SUBSET Int /\ dts[L] \in Int
            BY <6>2, <6>6
          <6>8. First(L) = First(w) \cup {dts[L]}
            BY <6>2, <6>4, Zenon
          <6>9. QED
            BY <6>7, <6>8
        <5>3. local.dt = dts[L]
          BY <4>1, <4>5 DEF PeriodInv
        <5>4. Highest(g["gmaxjitter"], First(w))
          BY <2>8 DEF Worst
        <5>5. g["gmaxjitter"] \in Int /\ g \in [Globals -> Int]
          BY <2>1, TypeParts DEF GlobalsType
        <5>6. g'["gmaxjitter"] = IF g["gmaxjitter"] >= dts[L] THEN g["gmaxjitter"] ELSE dts[L]
          <6>1. CASE dts[L] > g["gmaxjitter"]
            <7>1. g' = [g EXCEPT !.gmaxjitter = local.dt]
              BY <4>1, <4>5, <5>3, <6>1
            <7>2. g'["gmaxjitter"] = dts[L]
              BY <2>1, <5>3, <5>5, <7>1
            <7>3. QED
              BY <5>2, <5>5, <6>1, <7>2
          <6>2. CASE ~ (dts[L] > g["gmaxjitter"])
            <7>1. g' = g
              BY <4>1, <5>3, <6>2
            <7>2. QED
              BY <5>2, <5>5, <6>2, <7>1
          <6>3. QED
            BY <6>1, <6>2
        <5>7. Highest(g'["gmaxjitter"], First(L))
          BY <5>2, <5>4, <5>6, OneMore
        <5>8. PICK m \in Nat : m = L
          BY <5>1
        <5>9. Highest(g'["gmaxjitter"], First(m)')
          BY <4>3, <5>7, <5>8
        <5>10. m \in Done("gmaxjitter")' * nsamples..Len(dts')
          <6>1. Done("gmaxjitter") * nsamples \in 0..Len(dts)
            BY <2>1, DoneIs
          <6>2. QED
            BY <2>9, <4>1, <5>1, <5>8, <6>1
        <5>11. m = IF smp' = "freeze" THEN Len(dts') - 1 ELSE Len(dts')
          BY <4>1, <5>8
        <5>12. Worst(m)'
          BY <5>9, <5>10, <5>11 DEF Worst
        <5>13. QED
          BY <5>12 DEF WorstInv
      <4>6. QED
        BY <4>4, <4>5
    <3>5. QED
      BY <3>1, <3>2, <3>3, <3>4
  <2>12. QED
    BY <2>5, <2>7, <2>11 DEF GlobalsInv
<1>3. QED
  BY <1>1, <1>2

(***************************************************************************)
(* The copies of the display task                                          *)
(***************************************************************************)
LEMMA PostIsLast ==
  ASSUME TypeOK, PlaceInv
  PROVE  \A f \in Fields : Done("post") \in Nat /\ Done("post") <= Done(f) /\ Done(f) <= Measured
<1>1. ASSUME NEW f \in Fields PROVE Done("post") \in Nat /\ Done("post") <= Done(f) /\ Done(f) <= Measured
  <2>1. "post" \in Fields /\ Measured \in Nat /\ test_loops \in Nat
    BY Lists, MeasuredIs, TypeParts DEF SamplerType
  <2>2. Done("post") \in 0..Measured /\ Done(f) \in 0..Measured
    BY <2>1, DoneIs
  <2>3. smp = "store" => "post" \in ToSet(todo)
    <3> SUFFICES ASSUME smp = "store" PROVE "post" \in ToSet(todo)
      OBVIOUS
    <3>1. PICK k \in 1..8 : todo = SubSeq(Stores, k, 8)
      BY Lists DEF PlaceInv
    <3>2. ToSet(todo) = {Stores[i] : i \in k..8}
      BY <3>1, StoresRest
    <3>3. 8 \in k..8
      OBVIOUS
    <3>4. QED
      BY <3>2, <3>3, Lists
  <2>4. Done("post") <= Done(f)
    BY <2>1, <2>3 DEF Done
  <2>5. QED
    BY <2>1, <2>2, <2>4
<1>2. QED
  BY <1>1

LEMMA SnapAsBefore ==
  ASSUME TypeOK, PlaceInv, Extends(dts', dts)
  PROVE  /\ SnapMin /\ (Copied("minjitter")' =>
              Copied("minjitter") /\ pended' = pended /\ snap'["minjitter"] = snap["minjitter"])
              => SnapMin'
         /\ SnapMax /\ (Copied("maxjitter")' =>
              Copied("maxjitter") /\ pended' = pended /\ snap'["maxjitter"] = snap["maxjitter"])
              => SnapMax'
         /\ SnapAvg /\ (Copied("avgjitter")' =>
              Copied("avgjitter") /\ pended' = pended /\ snap'["avgjitter"] = snap["avgjitter"])
              => SnapAvg'
         /\ SnapBest /\ (Copied("gminjitter")' =>
              Copied("gminjitter") /\ pended' = pended /\ snap'["gminjitter"] = snap["gminjitter"])
              => SnapBest'
         /\ SnapWorst /\ (Copied("gmaxjitter")' =>
              Copied("gmaxjitter") /\ pended' = pended /\ snap'["gmaxjitter"] = snap["gmaxjitter"])
              => SnapWorst'
<1>1. dts \in Seq(Nat) /\ pended \in Nat /\ Measured \in Nat /\ Len(dts) \in Nat
  BY TypeParts, MeasuredIs DEF SamplerType, DisplayType
<1>2. /\ Modest' => Modest
      /\ \A m \in 0..Len(dts) : First(m)' = First(m)
      /\ \A j \in Nat \ {0} : j <= Measured => Of(j)' = Of(j) /\ Period(j)' = Period(j)
      /\ Measured <= Measured' /\ Len(dts) <= Len(dts') /\ dts' \in Seq(Nat)
  BY <1>1, PastKept
<1>3. Measured' \in Nat /\ Len(dts') \in Nat
  <2>1. Len(dts') \in Nat /\ nsamples \in Nat \ {0}
    BY <1>2, SamplesPerPeriod
  <2>2. Len(dts') \div nsamples \in Nat
    BY <2>1
  <2>3. QED
    BY <2>1, <2>2 DEF Measured
<1>4. \A j \in pended..Measured : pended > 0 =>
        /\ j \in pended..Measured' /\ Of(j)' = Of(j) /\ Period(j)' = Period(j)
        /\ j * nsamples \in 0..Len(dts)
  <2> SUFFICES ASSUME NEW j \in pended..Measured, pended > 0
               PROVE  /\ j \in pended..Measured' /\ Of(j)' = Of(j) /\ Period(j)' = Period(j)
                      /\ j * nsamples \in 0..Len(dts)
    OBVIOUS
  <2>1. j \in Nat \ {0} /\ j <= Measured
    BY <1>1
  <2>2. j \in pended..Measured'
    BY <1>1, <1>2, <1>3
  <2>3. QED
    BY <1>1, <1>2, <2>1, <2>2, PeriodBounds
<1>5. ASSUME SnapMin, Copied("minjitter")' =>
             Copied("minjitter") /\ pended' = pended /\ snap'["minjitter"] = snap["minjitter"]
      PROVE  SnapMin'
  <2> SUFFICES ASSUME Copied("minjitter")'
               PROVE  \E j \in pended'..Measured' : Lowest(snap'.minjitter, Of(j)')
    BY DEF SnapMin
  <2>1. Copied("minjitter") /\ pended' = pended /\ snap'["minjitter"] = snap["minjitter"] /\ pended > 0
    BY <1>5 DEF Copied
  <2>2. PICK j \in pended..Measured : Lowest(snap.minjitter, Of(j))
    BY <1>5, <2>1 DEF SnapMin
  <2>3. j \in pended'..Measured' /\ Lowest(snap'.minjitter, Of(j)')
    BY <1>4, <2>1, <2>2
  <2>4. QED
    BY <2>3
<1>6. ASSUME SnapMax, Copied("maxjitter")' =>
             Copied("maxjitter") /\ pended' = pended /\ snap'["maxjitter"] = snap["maxjitter"]
      PROVE  SnapMax'
  <2> SUFFICES ASSUME Copied("maxjitter")'
               PROVE  \E j \in pended'..Measured' : Highest(snap'.maxjitter, Of(j)')
    BY DEF SnapMax
  <2>1. Copied("maxjitter") /\ pended' = pended /\ snap'["maxjitter"] = snap["maxjitter"] /\ pended > 0
    BY <1>6 DEF Copied
  <2>2. PICK j \in pended..Measured : Highest(snap.maxjitter, Of(j))
    BY <1>6, <2>1 DEF SnapMax
  <2>3. j \in pended'..Measured' /\ Highest(snap'.maxjitter, Of(j)')
    BY <1>4, <2>1, <2>2
  <2>4. QED
    BY <2>3
<1>7. ASSUME SnapAvg, Copied("avgjitter")' =>
             Copied("avgjitter") /\ pended' = pended /\ snap'["avgjitter"] = snap["avgjitter"]
      PROVE  SnapAvg'
  <2> SUFFICES ASSUME Copied("avgjitter")', Modest'
               PROVE  \E j \in pended'..Measured' : snap'.avgjitter = AvgOf(Period(j)')
    BY DEF SnapAvg, AvgOf
  <2>1. Copied("avgjitter") /\ pended' = pended /\ snap'["avgjitter"] = snap["avgjitter"] /\ pended > 0
    BY <1>7 DEF Copied
  <2>2. PICK j \in pended..Measured : snap.avgjitter = AvgOf(Period(j))
    BY <1>2, <1>7, <2>1 DEF SnapAvg
  <2>3. j \in pended'..Measured' /\ snap'.avgjitter = AvgOf(Period(j)')
    BY <1>4, <2>1, <2>2
  <2>4. QED
    BY <2>3
<1>8. ASSUME SnapBest, Copied("gminjitter")' =>
             Copied("gminjitter") /\ pended' = pended /\ snap'["gminjitter"] = snap["gminjitter"]
      PROVE  SnapBest'
  <2> SUFFICES ASSUME Copied("gminjitter")'
               PROVE  \E j \in pended'..Measured' : Lowest(snap'.gminjitter, First(j * nsamples)')
    BY DEF SnapBest
  <2>1. Copied("gminjitter") /\ pended' = pended /\ snap'["gminjitter"] = snap["gminjitter"] /\ pended > 0
    BY <1>8 DEF Copied
  <2>2. PICK j \in pended..Measured : Lowest(snap.gminjitter, First(j * nsamples))
    BY <1>8, <2>1 DEF SnapBest
  <2>3. j \in pended'..Measured' /\ First(j * nsamples)' = First(j * nsamples)
    BY <1>2, <1>4, <2>1
  <2>4. QED
    BY <2>1, <2>2, <2>3
<1>9. ASSUME SnapWorst, Copied("gmaxjitter")' =>
             Copied("gmaxjitter") /\ pended' = pended /\ snap'["gmaxjitter"] = snap["gmaxjitter"]
      PROVE  SnapWorst'
  <2> SUFFICES ASSUME Copied("gmaxjitter")'
               PROVE  \E w \in pended' * nsamples..Len(dts') : Highest(snap'.gmaxjitter, First(w)')
    BY DEF SnapWorst
  <2>1. Copied("gmaxjitter") /\ pended' = pended /\ snap'["gmaxjitter"] = snap["gmaxjitter"] /\ pended > 0
    BY <1>9 DEF Copied
  <2>2. PICK w \in pended * nsamples..Len(dts) : Highest(snap.gmaxjitter, First(w))
    BY <1>9, <2>1 DEF SnapWorst
  <2>3. pended * nsamples \in Nat
    BY <1>1, SamplesPerPeriod
  <2>4. w \in 0..Len(dts) /\ w \in pended' * nsamples..Len(dts')
    BY <1>1, <1>2, <1>3, <2>1, <2>3
  <2>5. QED
    BY <1>2, <2>1, <2>2, <2>4
<1>10. QED
  BY <1>5, <1>6, <1>7, <1>8, <1>9

\* What a read of a global gives the display task.
LEMMA ReadIsFresh ==
  ASSUME TypeOK, PlaceInv, GlobalsInv, SnapInv, pended > 0
  PROVE  /\ \E j \in pended..Measured : Lowest(g.minjitter, Of(j))
         /\ \E j \in pended..Measured : Highest(g.maxjitter, Of(j))
         /\ Modest => \E j \in pended..Measured : g.avgjitter = AvgOf(Period(j))
         /\ \E j \in pended..Measured : Lowest(g.gminjitter, First(j * nsamples))
         /\ \E w \in pended * nsamples..Len(dts) : Highest(g.gmaxjitter, First(w))
<1>1. dts \in Seq(Nat) /\ pended \in Nat /\ posts \in Nat /\ Measured \in Nat /\ Len(dts) \in Nat
  BY TypeParts, MeasuredIs DEF SamplerType, DisplayType, SemType
<1>2. \A f \in Fields : Done("post") \in Nat /\ Done("post") <= Done(f) /\ Done(f) <= Measured
                        /\ Done(f) \in 0..Measured
  BY PostIsLast, DoneIs
<1>3. pended <= Done("post")
  <2>1. pended + posts <= Done("post") /\ Done("post") \in Nat
    BY <1>2, Lists DEF SnapInv
  <2>2. QED
    BY <1>1, <2>1
<1>4. \A f \in Fields : Done(f) \in pended..Measured /\ Done(f) > 0
  <2> SUFFICES ASSUME NEW f \in Fields PROVE Done(f) \in pended..Measured /\ Done(f) > 0
    OBVIOUS
  <2>1. Done("post") \in Nat /\ Done("post") <= Done(f) /\ Done(f) <= Measured /\ Done(f) \in 0..Measured
    BY <1>2
  <2>2. QED
    BY <1>1, <1>3, <2>1
<1>5. /\ "minjitter" \in Fields /\ "maxjitter" \in Fields /\ "avgjitter" \in Fields
      /\ "gminjitter" \in Fields /\ "gmaxjitter" \in Fields
  BY Lists
<1>6. \E j \in pended..Measured : Lowest(g.minjitter, Of(j))
  BY <1>4, <1>5 DEF GlobalsInv, MinInv
<1>7. \E j \in pended..Measured : Highest(g.maxjitter, Of(j))
  BY <1>4, <1>5 DEF GlobalsInv, MaxInv
<1>8. Modest => \E j \in pended..Measured : g.avgjitter = AvgOf(Period(j))
  BY <1>4, <1>5 DEF GlobalsInv, AvgInv
<1>9. \E j \in pended..Measured : Lowest(g.gminjitter, First(j * nsamples))
  BY <1>4, <1>5 DEF GlobalsInv, BestInv
<1>10. \E w \in pended * nsamples..Len(dts) : Highest(g.gmaxjitter, First(w))
  <2>1. PICK w \in Nat : w \in Done("gmaxjitter") * nsamples..Len(dts) /\ Highest(g.gmaxjitter, First(w))
    BY DEF GlobalsInv, WorstInv, Worst
  <2> DEFINE d == Done("gmaxjitter")
  <2>2. d \in Nat /\ pended <= d
    BY <1>1, <1>4, <1>5
  <2> HIDE DEF d
  <2>3. pended * nsamples <= d * nsamples /\ pended * nsamples \in Nat /\ d * nsamples \in Nat
    BY <1>1, <2>2, SamplesPerPeriod
  <2>4. w \in pended * nsamples..Len(dts)
    BY <1>1, <2>1, <2>3 DEF d
  <2>5. QED
    BY <2>1, <2>4
<1>11. QED
  BY <1>6, <1>7, <1>8, <1>9, <1>10

LEMMA SnapOfOthers ==
  ASSUME TypeOK, StartInv, PlaceInv, SnapInv, UNCHANGED <<snap, toread, pended>>,
         posts' = posts, Main \/ Display \/ (Sampler /\ ~ Store)
  PROVE  SnapInv'
<1>1. Extends(dts', dts)
  BY DtsGrow
<1>2. \A f : Copied(f)' => Copied(f)
  BY DEF Copied
<1>3. SnapMin' /\ SnapMax' /\ SnapAvg' /\ SnapBest' /\ SnapWorst'
  BY <1>1, <1>2, SnapAsBefore DEF SnapInv
<1>4. Done("post")' = Done("post")
  BY DoneElse, Lists DEF DoneKept
<1>5. QED
  BY <1>3, <1>4 DEF SnapInv

LEMMA SnapKept ==
  ASSUME TypeOK, StartInv, PlaceInv, ReadInv, GlobalsInv, SnapInv, Main \/ Sampler \/ Display
  PROVE  SnapInv'
<1>1. CASE Main
  <2>1. UNCHANGED <<snap, toread, pended>> /\ UNCHANGED posts
    BY <1>1, MainKeepsOthers
  <2>2. QED
    BY <1>1, <2>1, SnapOfOthers
<1>2. CASE Sampler /\ ~ Store
  <2>1. UNCHANGED <<snap, toread, pended>>
    BY <1>2, SamplerKeepsOthers DEF dspv
  <2>2. UNCHANGED posts
    BY <1>2, Zenon DEF Sampler, Start, LoopTop, Sample, WaitFails, sigdebug, Freeze, CheckSample, AddSample,
         CheckExtremes, AddExtremes, WarmUpEnds, semv
  <2>3. QED
    BY <1>2, <2>1, <2>2, SnapOfOthers
<1>3. CASE Store
  <2>1. /\ UNCHANGED <<snap, toread, pended>>
        /\ posts' = posts \/ (Head(todo) = "post" /\ posts' = posts + 1)
    BY <1>3 DEF Store, dspv
  <2>2. /\ Done(Head(todo)) = test_loops - 1 /\ test_loops \in Nat
        /\ \A f \in Fields : Done(f)' = IF f = Head(todo) THEN test_loops ELSE Done(f)
    BY <1>3, DoneStore
  <2>3. pended + posts <= Done("post") /\ pended \in Nat /\ posts \in Nat /\ Done("post") \in Nat
    BY PostIsLast, TypeParts, Lists DEF SnapInv, DisplayType, SemType
  <2>4. pended' + posts' <= Done("post")'
    <3>1. CASE Head(todo) = "post"
      <4>1. Done("post")' = Done("post") + 1
        BY <2>2, <3>1, Lists
      <4>2. QED
        BY <2>1, <2>3, <4>1
    <3>2. CASE Head(todo) # "post"
      <4>1. Done("post")' = Done("post")
        BY <2>2, <3>2, Lists
      <4>2. QED
        BY <2>1, <2>3, <3>2, <4>1
    <3>3. QED
      BY <3>1, <3>2
  <2>5. Extends(dts', dts)
    BY DtsGrow
  <2>6. \A f : Copied(f)' => Copied(f)
    BY <2>1 DEF Copied
  <2>7. SnapMin' /\ SnapMax' /\ SnapAvg' /\ SnapBest' /\ SnapWorst'
    BY <2>1, <2>5, <2>6, SnapAsBefore DEF SnapInv
  <2>8. QED
    BY <2>4, <2>7 DEF SnapInv
<1>4. CASE DisplayFails \/ CreateSem \/ StartBench \/ DisplayEnds
  <2>1. UNCHANGED <<snap, toread, pended>> /\ UNCHANGED posts /\ Display
    BY <1>4 DEF DisplayFails, CreateSem, StartBench, DisplayEnds, semv, Display
  <2>2. QED
    BY <2>1, SnapOfOthers
<1>5. ASSUME Display PROVE /\ Extends(dts', dts) /\ Done("post")' = Done("post") /\ UNCHANGED <<g, dts>>
                           /\ \A f \in Fields : Done(f)' = Done(f)
  <2>1. Extends(dts', dts) /\ UNCHANGED g /\ UNCHANGED smpv
    BY <1>5, DtsGrow, DisplayKeepsOthers
  <2>2. \A f \in Fields : Done(f)' = Done(f)
    BY <1>5, DoneElse DEF DoneKept
  <2>3. QED
    BY <2>1, <2>2, Lists DEF smpv
<1>6. CASE Pend
  <2>1. posts > 0 /\ posts' = posts - 1 /\ pended' = pended + 1 /\ toread' = Reads /\ Display
    BY <1>6 DEF Pend, Display
  <2>2. pended + posts <= Done("post") /\ pended \in Nat /\ posts \in Nat /\ Done("post") \in Nat
    BY PostIsLast, TypeParts, Lists DEF SnapInv, DisplayType, SemType
  <2>3. pended' + posts' <= Done("post")'
    BY <1>5, <2>1, <2>2
  <2>4. \A f \in ToSet(Reads) : ~ Copied(f)'
    BY <2>1 DEF Copied
  <2>5. SnapMin' /\ SnapMax' /\ SnapAvg' /\ SnapBest' /\ SnapWorst'
    BY <2>4, Lists DEF SnapMin, SnapMax, SnapAvg, SnapBest, SnapWorst
  <2>6. QED
    BY <2>3, <2>5 DEF SnapInv
<1>7. CASE ReadGlobal
  <2>1. /\ dsp = "read" /\ snap' = [snap EXCEPT ![Head(toread)] = g[Head(toread)]]
        /\ toread' = Tail(toread) /\ UNCHANGED pended /\ UNCHANGED posts /\ Display
    BY <1>7 DEF ReadGlobal, Display, semv
  <2>2. PICK k \in 1..5 : toread = SubSeq(Reads, k, 5)
    BY <2>1, Lists DEF ReadInv
  <2> DEFINE h == Head(toread)
  <2>3. /\ h = Reads[k] /\ h \in ToSet(Reads) /\ \A f : f # h => (f \in ToSet(toread') <=> f \in ToSet(toread))
    <3>1. /\ h = Reads[k] /\ ToSet(toread) = {Reads[i] : i \in k..5}
          /\ ToSet(toread') = {Reads[i] : i \in k + 1..5}
          /\ toread \in Seq(ToSet(Reads)) /\ toread # <<>>
      BY <2>1, <2>2, ReadsRest
    <3>2. \A i \in k..5 : i = k \/ i \in k + 1..5
      OBVIOUS
    <3>3. \A i \in k + 1..5 : i \in k..5
      OBVIOUS
    <3>4. h \in ToSet(Reads)
      BY <3>1
    <3>5. QED
      BY <3>1, <3>2, <3>3, <3>4
  <2>4. /\ \A f \in ToSet(Reads) : f # h => snap'[f] = snap[f]
        /\ \A f \in ToSet(Reads) : f = h => snap'[f] = g[f]
    BY <2>1, <2>3, TypeParts DEF DisplayType
  <2> HIDE DEF h
  <2>5. \A f \in ToSet(Reads) : f # h =>
          (Copied(f)' => Copied(f) /\ pended' = pended /\ snap'[f] = snap[f])
    BY <2>1, <2>3, <2>4 DEF Copied
  <2>6. /\ Extends(dts', dts) /\ Done("post")' = Done("post") /\ UNCHANGED <<g, dts>>
    BY <1>5, <2>1
  <2>7. pended' + posts' <= Done("post")'
    BY <2>1, <2>6 DEF SnapInv
  <2>8. /\ Measured' = Measured /\ Modest' = Modest
        /\ \A j \in Int : Of(j)' = Of(j) /\ Period(j)' = Period(j) /\ First(j)' = First(j)
    BY <2>6 DEF Measured, Modest, Of, Period, First
  <2>9. pended > 0 =>
         /\ \E j \in pended..Measured : Lowest(g.minjitter, Of(j))
         /\ \E j \in pended..Measured : Highest(g.maxjitter, Of(j))
         /\ Modest => \E j \in pended..Measured : g.avgjitter = AvgOf(Period(j))
         /\ \E j \in pended..Measured : Lowest(g.gminjitter, First(j * nsamples))
         /\ \E w \in pended * nsamples..Len(dts) : Highest(g.gmaxjitter, First(w))
    BY ReadIsFresh
  <2>10. SnapMin'
    <3>1. CASE h # "minjitter"
      BY <2>5, <2>6, <3>1, SnapAsBefore, Lists DEF SnapInv
    <3>2. CASE h = "minjitter"
      <4> SUFFICES ASSUME pended' > 0
                   PROVE  \E j \in pended'..Measured' : Lowest(snap'.minjitter, Of(j)')
        BY DEF SnapMin, Copied
      <4>1. PICK j \in pended..Measured : Lowest(g.minjitter, Of(j))
        BY <2>1, <2>9
      <4>2. QED
        BY <2>1, <2>4, <2>6, <2>8, <3>2, <4>1, Lists
    <3>3. QED
      BY <3>1, <3>2
  <2>11. SnapMax'
    <3>1. CASE h # "maxjitter"
      BY <2>5, <2>6, <3>1, SnapAsBefore, Lists DEF SnapInv
    <3>2. CASE h = "maxjitter"
      <4> SUFFICES ASSUME pended' > 0
                   PROVE  \E j \in pended'..Measured' : Highest(snap'.maxjitter, Of(j)')
        BY DEF SnapMax, Copied
      <4>1. PICK j \in pended..Measured : Highest(g.maxjitter, Of(j))
        BY <2>1, <2>9
      <4>2. QED
        BY <2>1, <2>4, <2>6, <2>8, <3>2, <4>1, Lists
    <3>3. QED
      BY <3>1, <3>2
  <2>12. SnapAvg'
    <3>1. CASE h # "avgjitter"
      BY <2>5, <2>6, <3>1, SnapAsBefore, Lists DEF SnapInv
    <3>2. CASE h = "avgjitter"
      <4> SUFFICES ASSUME pended' > 0, Modest'
                   PROVE  \E j \in pended'..Measured' : snap'.avgjitter = AvgOf(Period(j)')
        BY DEF SnapAvg, Copied, AvgOf
      <4>1. PICK j \in pended..Measured : g.avgjitter = AvgOf(Period(j))
        BY <2>1, <2>8, <2>9
      <4>2. QED
        BY <2>1, <2>4, <2>6, <2>8, <3>2, <4>1, Lists
    <3>3. QED
      BY <3>1, <3>2
  <2>13. SnapBest'
    <3>1. CASE h # "gminjitter"
      BY <2>5, <2>6, <3>1, SnapAsBefore, Lists DEF SnapInv
    <3>2. CASE h = "gminjitter"
      <4> SUFFICES ASSUME pended' > 0
                   PROVE  \E j \in pended'..Measured' : Lowest(snap'.gminjitter, First(j * nsamples)')
        BY DEF SnapBest, Copied
      <4>1. PICK j \in pended..Measured : Lowest(g.gminjitter, First(j * nsamples))
        BY <2>1, <2>9
      <4>2. First(j * nsamples)' = First(j * nsamples)
        BY <2>6 DEF First
      <4>3. QED
        BY <2>1, <2>4, <2>6, <2>8, <3>2, <4>1, <4>2, Lists
    <3>3. QED
      BY <3>1, <3>2
  <2>14. SnapWorst'
    <3>1. CASE h # "gmaxjitter"
      BY <2>5, <2>6, <3>1, SnapAsBefore, Lists DEF SnapInv
    <3>2. CASE h = "gmaxjitter"
      <4> SUFFICES ASSUME pended' > 0
                   PROVE  \E w \in pended' * nsamples..Len(dts') : Highest(snap'.gmaxjitter, First(w)')
        BY DEF SnapWorst, Copied
      <4>1. PICK w \in pended * nsamples..Len(dts) : Highest(g.gmaxjitter, First(w))
        BY <2>1, <2>9
      <4>2. First(w)' = First(w)
        BY <2>6 DEF First
      <4>3. QED
        BY <2>1, <2>4, <2>6, <3>2, <4>1, <4>2, Lists
    <3>3. QED
      BY <3>1, <3>2
  <2>15. QED
    BY <2>7, <2>10, <2>11, <2>12, <2>13, <2>14 DEF SnapInv
<1>8. QED
  BY <1>1, <1>2, <1>3, <1>4, <1>6, <1>7 DEF Display

(***************************************************************************)
(* The display task shows no old period                                    *)
(***************************************************************************)
LEMMA NothingDone == Init => \A f : Done(f) = 0
BY DEF Init, Done

LEMMA InTimeInit == Init => InTimeInv
<1> SUFFICES ASSUME Init PROVE InTimeInv
  OBVIOUS
<1>1. AnyTimeInv
  BY AnyTimeInit
<1>2. /\ clock = 0 /\ release = 0 /\ dts = <<>> /\ smp = "unborn" /\ warmup /\ pended = 0 /\ posts = 0
      /\ g.gminjitter = TEN_MILLIONS /\ g.gmaxjitter = -TEN_MILLIONS
  BY DEF Init
<1>3. LateInv
  BY <1>2 DEF LateInv
<1>4. PeriodInv
  BY <1>2 DEF PeriodInv
<1>5. First(0) = {} /\ 0 * nsamples = 0
  BY SamplesPerPeriod DEF First
<1>6. MinInv /\ MaxInv /\ AvgInv
  BY NothingDone DEF MinInv, MaxInv, AvgInv
<1>7. BestInv
  BY <1>2, <1>5, NothingDone, NoExtremes DEF BestInv
<1>8. Worst(0)
  <2>1. Done("gmaxjitter") = 0 /\ Len(dts) = 0
    BY <1>2, NothingDone
  <2>2. Highest(g.gmaxjitter, First(0))
    BY <1>2, <1>5, NoExtremes, Zenon
  <2>3. 0 \in Done("gmaxjitter") * nsamples..Len(dts)
    BY <1>5, <2>1
  <2>4. QED
    BY <1>2, <2>2, <2>3, Zenon DEF Worst
<1>9. GlobalsInv
  BY <1>2, <1>6, <1>7, <1>8 DEF GlobalsInv, WorstInv
<1>10. SnapInv
  BY <1>2, NothingDone DEF SnapInv, SnapMin, SnapMax, SnapAvg, SnapBest, SnapWorst, Copied
<1>11. QED
  BY <1>1, <1>3, <1>4, <1>9, <1>10 DEF InTimeInv

\* A step that changes nothing.
LEMMA InTimeStutters ==
  ASSUME InTimeInv, AnyTimeInv', UNCHANGED vars
  PROVE  InTimeInv'
<1>1. UNCHANGED <<clock, release, dts, smp, local, warmup, test_loops, todo, g, freeze_max,
                  finished, pended, posts, toread, snap>>
  BY Zenon DEF vars, timer, smpv, options, mainv, dspv, semv
<1>2. /\ Begun' = Begun /\ Current' = Current /\ Modest' = Modest /\ Measured' = Measured
      /\ \A f : Done(f)' = Done(f)
      /\ \A f : Copied(f)' = Copied(f)
      /\ \A j \in Int : Of(j)' = Of(j) /\ First(j)' = First(j)
  BY <1>1 DEF Begun, Current, Modest, Measured, Done, Copied, Of, First
<1>3. LateInv'
  BY <1>1 DEF InTimeInv, LateInv
<1>4. PeriodInv'
  BY <1>1, <1>2 DEF InTimeInv, PeriodInv
<1>5. TypeOK /\ PlaceInv /\ Extends(dts', dts)
  <2>1. dts \in Seq(Nat)
    BY TypeParts DEF InTimeInv, AnyTimeInv, SamplerType
  <2>2. QED
    BY <1>1, <2>1 DEF InTimeInv, AnyTimeInv, Extends
<1>6. MinInv' /\ MaxInv' /\ AvgInv' /\ BestInv'
  BY <1>1, <1>2, <1>5, AsBefore DEF InTimeInv, GlobalsInv
<1>7. WorstInv'
  <2>1. PICK w \in Nat : Worst(w)
    BY DEF InTimeInv, GlobalsInv, WorstInv
  <2>2. First(w)' = First(w)
    BY <1>2
  <2>3. Worst(w)'
    BY <1>1, <1>2, <2>1, <2>2 DEF Worst
  <2>4. QED
    BY <2>3 DEF WorstInv
<1>8. GlobalsInv'
  BY <1>1, <1>6, <1>7 DEF InTimeInv, GlobalsInv
<1>9. SnapMin' /\ SnapMax' /\ SnapAvg' /\ SnapBest' /\ SnapWorst'
  BY <1>1, <1>2, <1>5, SnapAsBefore DEF InTimeInv, SnapInv
<1>10. SnapInv'
  BY <1>1, <1>2, <1>9 DEF InTimeInv, SnapInv
<1>11. QED
  BY <1>3, <1>4, <1>8, <1>10 DEF InTimeInv

LEMMA InTimeStep == InTime /\ InTimeInv /\ [Next]_vars => InTimeInv'
<1> SUFFICES ASSUME InTime, InTimeInv, [Next]_vars PROVE InTimeInv'
  OBVIOUS
<1>1. AnyTimeInv'
  BY AnyTimeStep DEF InTimeInv
<1>2. CASE Main \/ Sampler \/ Display
  <2>1. /\ TypeOK /\ StartInv /\ PlaceInv /\ ReadInv /\ ReleaseInv
        /\ LateInv /\ PeriodInv /\ GlobalsInv /\ SnapInv
    BY DEF InTimeInv, AnyTimeInv
  <2>2. LateInv' /\ PeriodInv' /\ GlobalsInv' /\ SnapInv'
    BY <1>2, <2>1, LateKept, PeriodKept, GlobalsKept, SnapKept
  <2>3. QED
    BY <1>1, <2>2 DEF InTimeInv
<1>3. CASE UNCHANGED vars
  BY <1>1, <1>3, InTimeStutters
<1>4. QED
  BY <1>2, <1>3 DEF Next, Terminated

\* The least and the greatest latencies are those of the property.
LEMMA ExtremesOfParts ==
  ASSUME TypeOK, PlaceInv
  PROVE  /\ \A m \in 0..Len(dts) : \A v :
              /\ Lowest(v, First(m)) => v = MinOf(Until(m))
              /\ Highest(v, First(m)) => v = MaxOf(Until(m))
         /\ \A j \in Nat \ {0} : \A v : j <= Measured =>
              /\ Lowest(v, Of(j)) => v = MinOf(Period(j))
              /\ Highest(v, Of(j)) => v = MaxOf(Period(j))
              /\ Period(j) \in Seq(Nat)
<1>1. dts \in Seq(Nat) /\ Len(dts) \in Nat
  BY TypeParts DEF SamplerType
<1>2. ASSUME NEW m \in 0..Len(dts), NEW v
      PROVE  /\ Lowest(v, First(m)) => v = MinOf(Until(m))
             /\ Highest(v, First(m)) => v = MaxOf(Until(m))
  <2>1. 1 \in Nat \ {0} /\ 1 <= m + 1
    BY <1>1
  <2>2. Until(m) \in Seq(Nat) /\ ToSet(Until(m)) = First(m)
    BY <1>1, <2>1, Part DEF Until, First
  <2>3. QED
    BY <2>2, ExtremesAre
<1>3. ASSUME NEW j \in Nat \ {0}, NEW v, j <= Measured
      PROVE  /\ Lowest(v, Of(j)) => v = MinOf(Period(j))
             /\ Highest(v, Of(j)) => v = MaxOf(Period(j))
             /\ Period(j) \in Seq(Nat)
  <2>1. /\ (j - 1) * nsamples + 1 \in Nat \ {0} /\ j * nsamples \in 0..Len(dts)
        /\ (j - 1) * nsamples \in 0..Len(dts) /\ j * nsamples = (j - 1) * nsamples + nsamples
    BY <1>1, <1>3, PeriodBounds
  <2>2. (j - 1) * nsamples + 1 <= j * nsamples + 1
    BY <2>1, SamplesPerPeriod
  <2>3. Period(j) \in Seq(Nat) /\ ToSet(Period(j)) = Of(j)
    BY <1>1, <2>1, <2>2, Part DEF Period, Of
  <2>4. QED
    BY <2>3, ExtremesAre
<1>4. QED
  BY <1>2, <1>3

\* When the display task has printed a line, all it has copied since it was told of
\* a period was stored at the end of that period or of a later one; and what has no
\* period of its own goes at least up to it (display and latency, altency.c).  This
\* is for every number and length of periods and every number of posts pending, in
\* a test whose samples are in time.
THEOREM ShownIsFresh == ASSUME InTime PROVE Spec => []ShownFresh
<1>1. InTimeInv => ShownFresh
  <2> SUFFICES ASSUME InTimeInv, dsp = "pend", pended > 0
               PROVE  \E worst \in pended * nsamples..Len(dts) :
                        /\ snap.gmaxjitter = MaxOf(Until(worst))
                        /\ \E j \in pended..Measured : snap.minjitter = MinOf(Period(j))
                        /\ \E j \in pended..Measured : snap.maxjitter = MaxOf(Period(j))
                        /\ \E j \in pended..Measured : snap.gminjitter = MinOf(Until(j * nsamples))
                        /\ Modest => \E j \in pended..Measured : snap.avgjitter = AvgOf(Period(j))
    BY DEF ShownFresh
  <2>1. TypeOK /\ PlaceInv /\ SnapInv /\ toread = <<>> /\ pended \in Nat
    BY TypeParts DEF InTimeInv, AnyTimeInv, ReadInv, DisplayType
  <2>2. \A f : Copied(f)
    BY <2>1, Lists DEF Copied, ToSet
  <2>3. /\ Measured \in Nat /\ Len(dts) \in Nat /\ pended * nsamples \in Nat
        /\ \A j \in pended..Measured : j \in Nat \ {0} /\ j <= Measured
    BY <2>1, MeasuredIs, SamplesPerPeriod
  <2>4. PICK w \in pended * nsamples..Len(dts) : Highest(snap.gmaxjitter, First(w))
    BY <2>1, <2>2 DEF SnapInv, SnapWorst
  <2>5. snap.gmaxjitter = MaxOf(Until(w))
    <3>1. w \in 0..Len(dts)
      BY <2>3
    <3>2. QED
      BY <2>1, <2>4, <3>1, ExtremesOfParts
  <2>6. \E j \in pended..Measured : snap.minjitter = MinOf(Period(j))
    <3>1. PICK j \in pended..Measured : Lowest(snap.minjitter, Of(j))
      BY <2>1, <2>2 DEF SnapInv, SnapMin
    <3>2. QED
      BY <2>1, <2>3, <3>1, ExtremesOfParts
  <2>7. \E j \in pended..Measured : snap.maxjitter = MaxOf(Period(j))
    <3>1. PICK j \in pended..Measured : Highest(snap.maxjitter, Of(j))
      BY <2>1, <2>2 DEF SnapInv, SnapMax
    <3>2. QED
      BY <2>1, <2>3, <3>1, ExtremesOfParts
  <2>8. \E j \in pended..Measured : snap.gminjitter = MinOf(Until(j * nsamples))
    <3>1. PICK j \in pended..Measured : Lowest(snap.gminjitter, First(j * nsamples))
      BY <2>1, <2>2 DEF SnapInv, SnapBest
    <3>2. j * nsamples \in 0..Len(dts)
      BY <2>3, PeriodBounds
    <3>3. QED
      BY <2>1, <3>1, <3>2, ExtremesOfParts
  <2>9. Modest => \E j \in pended..Measured : snap.avgjitter = AvgOf(Period(j))
    BY <2>1, <2>2 DEF SnapInv, SnapAvg
  <2>10. QED
    BY <2>4, <2>5, <2>6, <2>7, <2>8, <2>9
<1>2. QED
  BY <1>1, InTimeInit, InTimeStep, PTL DEF Spec

(***************************************************************************)
(* The averages and their sum                                              *)
(***************************************************************************)
LEMMA AveragesAre ==
  ASSUME TypeOK, PlaceInv, NEW k \in Nat, k <= Measured
  PROVE  /\ Averages(k) \in Nat /\ Averages(0) = 0
         /\ k + 1 <= Measured => Averages(k + 1) = Averages(k) + AvgOf(Period(k + 1))
<1> DEFINE S(n) == [j \in 1..n |-> AvgOf(Period(j))]
<1>1. Measured \in Nat /\ dts \in Seq(Nat)
  BY MeasuredIs, TypeParts DEF SamplerType
<1>2. \A j \in Nat \ {0} : j <= Measured => AvgOf(Period(j)) \in Nat
  <2>1. SUFFICES ASSUME NEW j \in Nat \ {0}, j <= Measured PROVE AvgOf(Period(j)) \in Nat
    OBVIOUS
  <2>2. Period(j) \in Seq(Nat)
    BY <2>1, ExtremesOfParts
  <2>3. Total(Period(j)) \in Nat
    BY <2>2, TotalAppend
  <2>4. QED
    BY <2>3, SamplesPerPeriod DEF AvgOf
<1>3. ASSUME NEW n \in Nat, n <= Measured PROVE S(n) \in Seq(Nat) /\ Len(S(n)) = n
  <2>1. \A j \in 1..n : AvgOf(Period(j)) \in Nat
    BY <1>1, <1>2, <1>3
  <2>2. QED
    BY <2>1
<1>4. Averages(k) \in Nat
  BY <1>3, TotalAppend DEF Averages
<1>5. Averages(0) = 0
  <2>1. S(0) = <<>>
    BY <1>1, <1>3
  <2>2. QED
    BY <2>1, TotalEmpty DEF Averages
<1>6. ASSUME k + 1 <= Measured PROVE Averages(k + 1) = Averages(k) + AvgOf(Period(k + 1))
  <2> DEFINE x == AvgOf(Period(k + 1))
  <2>1. x \in Nat
    BY <1>2, <1>6
  <2>2. S(k) \in Seq(Nat) /\ Len(S(k)) = k /\ S(k + 1) \in Seq(Nat) /\ Len(S(k + 1)) = k + 1
    BY <1>3, <1>6
  <2>3. /\ \A j \in 1..k : S(k + 1)[j] = S(k)[j]
        /\ S(k + 1)[k + 1] = x
    OBVIOUS
  <2>4. S(k + 1) = Append(S(k), x)
    <3> HIDE DEF S, x
    <3>1. \A j \in 1..k + 1 : j \in 1..k \/ j = k + 1
      OBVIOUS
    <3>2. \A j \in 1..k + 1 : S(k + 1)[j] = Append(S(k), x)[j]
      BY <2>1, <2>2, <2>3, <3>1
    <3>3. QED
      BY <2>1, <2>2, <3>2
  <2>5. Total(S(k + 1)) = Total(S(k)) + x
    <3> HIDE DEF S, x
    <3>1. QED
      BY <2>1, <2>2, <2>4, TotalAppend
  <2>6. QED
    BY <2>5 DEF Averages
<1>7. QED
  BY <1>4, <1>5, <1>6

LEMMA AveragesKept ==
  ASSUME dts \in Seq(Nat), Extends(dts', dts), Measured \in Nat, NEW k \in Nat, k <= Measured
  PROVE  Averages(k)' = Averages(k) /\ MeanOf(k)' = MeanOf(k)
<1>1. \A j \in 1..k : Period(j)' = Period(j)
  <2>1. \A j \in 1..k : j \in Nat \ {0} /\ j <= Measured
    OBVIOUS
  <2>2. QED
    BY <2>1, PastKept
<1>2. \A j \in 1..k : AvgOf(Period(j))' = AvgOf(Period(j))
  BY <1>1 DEF AvgOf
<1>3. Averages(k)' = Averages(k)
  BY <1>2 DEF Averages
<1>4. QED
  BY <1>3 DEF MeanOf

\* What main counts is what the sampler has added up.
LEMMA InSumIs ==
  ASSUME TypeOK, PlaceInv
  PROVE  /\ InSum = Done("gavgjitter") /\ Done("gavgjitter") \in 0..Measured
         /\ NextCounted => Done("gavgjitter") = IF test_loops > 1 THEN test_loops - 1 ELSE 0
         /\ Done("gavgjitter") <= Done("gminjitter") /\ Done("gavgjitter") <= Done("gmaxjitter")
<1>1. /\ "gavgjitter" \in Fields /\ "gminjitter" \in Fields /\ "gmaxjitter" \in Fields
      /\ test_loops \in Nat /\ nsamples \in Nat \ {0} /\ local.count \in 0..nsamples
      /\ smp \in {"unborn", "start", "loop", "wait", "freeze", "check", "add", "check_extremes",
                  "add_extremes", "store", "warm", "ended"}
  BY Lists, TypeParts, SamplesPerPeriod DEF SamplerType, LocalType
<1>2. /\ Len(dts) \in Nat /\ Measured \in Nat
      /\ warmup => Measured = 0
      /\ ~ warmup /\ smp = "loop" => Measured = test_loops
      /\ ~ warmup /\ smp # "loop" =>
           Measured = IF local.count < nsamples THEN test_loops - 1 ELSE test_loops
      /\ ~ warmup /\ smp # "loop" /\ local.count < nsamples => Len(dts) % nsamples = local.count
  BY MeasuredIs
<1>3. Done("gavgjitter") \in 0..Measured
  BY <1>1, DoneIs
<1>4. InSum = Done("gavgjitter")
  <2>1. CASE warmup
    <3>1. Len(dts) = 0 /\ Done("gavgjitter") = 0
      BY <2>1 DEF PlaceInv, Done
    <3>2. QED
      BY <1>2, <2>1, <3>1 DEF InSum
  <2>2. CASE ~ warmup /\ smp = "loop"
    BY <1>1, <1>2, <2>2 DEF InSum, Done
  <2>3. CASE ~ warmup /\ smp # "loop" /\ local.count < nsamples
    <3>1. Measured = test_loops - 1 /\ Len(dts) % nsamples = local.count /\ smp # "store"
          /\ smp \notin {"check_extremes", "add_extremes"}
          /\ (smp \in {"freeze", "check", "add"} => local.count > 0)
      BY <1>1, <1>2, <2>3 DEF PlaceInv
    <3>2. Done("gavgjitter") = test_loops - 1
      BY <2>3, <3>1 DEF Done
    <3>3. QED
      BY <3>1, <3>2 DEF InSum
  <2>4. CASE ~ warmup /\ smp # "loop" /\ ~ (local.count < nsamples)
    <3>1. /\ local.count = nsamples /\ Measured = test_loops /\ test_loops >= 1
          /\ Len(dts) = (test_loops - 1) * nsamples + nsamples /\ smp # "wait"
          /\ smp \notin {"unborn", "start", "warm", "ended"}
      BY <1>1, <1>2, <2>4 DEF PlaceInv
    <3>2. Len(dts) % nsamples = 0 /\ Len(dts) > 0
      <4>1. test_loops \in Nat /\ 0 \in 0..nsamples - 1 /\ Len(dts) = test_loops * nsamples + 0
        BY <1>1, <3>1
      <4>2. (test_loops * nsamples + 0) % nsamples = 0
        BY <1>1, <4>1, Division
      <4>3. (test_loops - 1) * nsamples \in Nat
        BY <1>1, <3>1
      <4>4. QED
        BY <1>1, <3>1, <4>1, <4>2, <4>3
    <3>3. CASE smp = "store"
      BY <2>4, <3>1, <3>2, <3>3 DEF InSum, Done
    <3>4. CASE smp # "store"
      <4>1. smp \in {"freeze", "check", "add", "check_extremes", "add_extremes"}
        BY <1>1, <2>4, <3>1, <3>4
      <4>2. QED
        BY <2>4, <3>1, <3>2, <3>4, <4>1 DEF InSum, Done
    <3>5. QED
      BY <3>3, <3>4
  <2>5. QED
    BY <2>1, <2>2, <2>3, <2>4
<1>5. NextCounted => Done("gavgjitter") = IF test_loops > 1 THEN test_loops - 1 ELSE 0
  <2> SUFFICES ASSUME NextCounted
               PROVE  Done("gavgjitter") = IF test_loops > 1 THEN test_loops - 1 ELSE 0
    OBVIOUS
  <2>1. CASE warmup
    BY <2>1 DEF Done, PlaceInv
  <2>2. CASE ~ warmup
    <3>1. smp # "loop" /\ test_loops >= 1
      BY <2>2 DEF NextCounted, PlaceInv
    <3>2. Done("gavgjitter") = test_loops - 1
      BY <2>2, <3>1 DEF Done, NextCounted
    <3>3. QED
      BY <1>1, <3>1, <3>2
  <2>3. QED
    BY <2>1, <2>2
<1>6. Done("gavgjitter") <= Done("gminjitter") /\ Done("gavgjitter") <= Done("gmaxjitter")
  <2>1. smp = "store" /\ "gavgjitter" \notin ToSet(todo) =>
          "gminjitter" \notin ToSet(todo) /\ "gmaxjitter" \notin ToSet(todo)
    <3> SUFFICES ASSUME smp = "store", "gavgjitter" \notin ToSet(todo)
                 PROVE  "gminjitter" \notin ToSet(todo) /\ "gmaxjitter" \notin ToSet(todo)
      OBVIOUS
    <3>1. PICK k \in 1..8 : todo = SubSeq(Stores, k, 8)
      BY Lists DEF PlaceInv
    <3>2. ToSet(todo) = {Stores[i] : i \in k..8}
      BY <3>1, StoresRest
    <3>3. k > 6
      BY <3>2, Lists
    <3>4. \A i \in k..8 : i = 7 \/ i = 8
      BY <3>3
    <3>5. QED
      BY <3>2, <3>4, Lists
  <2>2. QED
    BY <1>1, <2>1 DEF Done
<1>7. QED
  BY <1>3, <1>4, <1>5, <1>6

LEMMA SummaryAsBefore ==
  ASSUME TypeOK, PlaceInv, SummaryInv, Extends(dts', dts),
         Done("gavgjitter")' = Done("gavgjitter"), g'["gavgjitter"] = g["gavgjitter"],
         UNCHANGED <<cut, divisor, summary>>,
         main' \in Summing => main \in Summing,
         main' \notin Counted => main \notin Counted,
         main' \in Reporting => main \in Reporting \/ cut = -1,
         main' = "copy" => main = "copy"
  PROVE  SummaryInv'
<1>1. PICK k \in Nat : k = Done("gavgjitter") /\ k <= Measured
  BY InSumIs, MeasuredIs
<1>2. dts \in Seq(Nat) /\ Measured \in Nat /\ cut \in Int /\ divisor \in Nat
      /\ Len(dts) \in Nat /\ Len(dts') \in Nat /\ nsamples \in Nat \ {0}
  BY TypeParts, MeasuredIs, SamplesPerPeriod DEF SamplerType, MainType, Extends
<1>3. Averages(k)' = Averages(k) /\ MeanOf(k)' = MeanOf(k)
  BY <1>1, <1>2, AveragesKept
<1>4. /\ Modest' => Modest
      /\ \A m \in 0..Len(dts) : First(m)' = First(m)
      /\ Len(dts) <= Len(dts')
  BY <1>2, PastKept
<1>5. SumInv'
  <2> SUFFICES ASSUME main' \in Summing, Modest' PROVE g'["gavgjitter"] = Averages(Done("gavgjitter"))'
    BY DEF SumInv, Summing
  <2>1. g["gavgjitter"] = Averages(k)
    BY <1>1, <1>4 DEF SummaryInv, SumInv
  <2>2. g'["gavgjitter"] = Averages(k)' /\ Done("gavgjitter")' = k
    BY <1>1, <1>3, <2>1
  <2>3. QED
    BY <2>2 DEF Averages
<1>6. CutInv'
  BY <1>1 DEF SummaryInv, CutInv, Counted
<1>7. MeanInv'
  <2> SUFFICES ASSUME main' \in Reporting \cup {"copy"}, cut' = Done("gavgjitter")', Modest'
               PROVE  g'["gavgjitter"] = MeanOf(cut)'
    BY DEF MeanInv, Reporting
  <2>1. cut = k /\ cut' = k
    BY <1>1
  <2>2. main \in Reporting \cup {"copy"}
    BY <1>1, <1>2, <2>1
  <2>3. g["gavgjitter"] = MeanOf(k)
    BY <1>1, <1>4, <2>1, <2>2 DEF SummaryInv, MeanInv
  <2>4. g'["gavgjitter"] = MeanOf(k)'
    BY <1>3, <2>3
  <2>5. QED
    BY <2>1, <2>4 DEF MeanOf, Averages
<1>8. ToldInv'
  <2> SUFFICES ASSUME main' \in Reporting, cut' = Done("gavgjitter")'
               PROVE  /\ Modest' => summary'.gavg = MeanOf(cut)'
                      /\ \E m \in cut' * nsamples..Len(dts') : Lowest(summary'.gmin, First(m)')
                      /\ \E m \in cut' * nsamples..Len(dts') : Highest(summary'.gmax, First(m)')
    BY DEF ToldInv, Reporting
  <2>1. cut = k /\ cut' = k
    BY <1>1
  <2>2. main \in Reporting
    BY <1>1, <1>2, <2>1
  <2>3. /\ Modest => summary.gavg = MeanOf(k)
        /\ \E m \in k * nsamples..Len(dts) : Lowest(summary.gmin, First(m))
        /\ \E m \in k * nsamples..Len(dts) : Highest(summary.gmax, First(m))
    BY <1>1, <2>1, <2>2 DEF SummaryInv, ToldInv
  <2>4. Modest' => summary'.gavg = MeanOf(k)'
    BY <1>3, <1>4, <2>3
  <2>5. Modest' => summary'.gavg = MeanOf(cut)'
    BY <2>1, <2>4 DEF MeanOf, Averages
  <2>6. k * nsamples \in Nat
    BY <1>2
  <2>7. \E m \in k * nsamples..Len(dts') : Lowest(summary'.gmin, First(m)')
    <3>1. PICK m \in k * nsamples..Len(dts) : Lowest(summary.gmin, First(m))
      BY <2>3
    <3>2. m \in 0..Len(dts) /\ m \in k * nsamples..Len(dts')
      BY <1>2, <1>4, <2>6
    <3>3. QED
      BY <1>4, <3>1, <3>2
  <2>8. \E m \in k * nsamples..Len(dts') : Highest(summary'.gmax, First(m)')
    <3>1. PICK m \in k * nsamples..Len(dts) : Highest(summary.gmax, First(m))
      BY <2>3
    <3>2. m \in 0..Len(dts) /\ m \in k * nsamples..Len(dts')
      BY <1>2, <1>4, <2>6
    <3>3. QED
      BY <1>4, <3>1, <3>2
  <2>9. QED
    BY <2>1, <2>5, <2>7, <2>8
<1>9. QED
  BY <1>5, <1>6, <1>7, <1>8 DEF SummaryInv

\* The average that is added is that of the period at hand.
LEMMA AverageIsStored ==
  ASSUME TypeOK, PlaceInv, Store, Head(todo) = "gavgjitter"
  PROVE  Done("avgjitter") = test_loops
<1>1. smp = "store" /\ ~ warmup
  BY DoneStore DEF Store
<1>2. PICK k \in 1..8 : todo = SubSeq(Stores, k, 8)
  BY <1>1, Lists DEF PlaceInv
<1>3. ToSet(todo) = {Stores[i] : i \in k..8} /\ Stores[k] = "gavgjitter"
  BY <1>2, StoresRest
<1>4. Stores[5] = "avgjitter"
  BY DEF Stores
<1>5. k = 6
  BY <1>3, Lists
<1>6. "avgjitter" \notin ToSet(todo)
  <2>1. \A i \in k..8 : i \in 1..8 /\ i # 5
    BY <1>5
  <2>2. QED
    BY <1>3, <1>4, <2>1, Lists
<1>7. QED
  BY <1>1, <1>6 DEF Done

LEMMA StoreSummary ==
  ASSUME TypeOK, StartInv, PlaceInv, GlobalsInv, SummaryInv, Store
  PROVE  SummaryInv'
<1>1. /\ Done(Head(todo)) = test_loops - 1 /\ test_loops \in Nat /\ test_loops >= 1
      /\ \A f \in Fields : Done(f)' = IF f = Head(todo) THEN test_loops ELSE Done(f)
      /\ UNCHANGED dts
  BY DoneStore
<1>2. UNCHANGED main /\ UNCHANGED <<cut, divisor, summary>>
  BY Zenon DEF Store, mainv
<1>3. /\ g \in [Globals -> Int] /\ "gavgjitter" \in Fields /\ "gavgjitter" \in Globals
      /\ "avgjitter" \in Fields /\ dts \in Seq(Nat) /\ Extends(dts', dts) /\ cut \in Int
  BY <1>1, Lists, TypeParts DEF GlobalsType, SamplerType, MainType, Extends
<1>4. \/ Head(todo) = "post" /\ g' = g
      \/ Head(todo) # "post" /\ g' = [g EXCEPT ![Head(todo)] = Stored[Head(todo)]]
  BY DEF Store
<1>5. CASE Head(todo) # "gavgjitter"
  <2>1. Done("gavgjitter")' = Done("gavgjitter") /\ g'["gavgjitter"] = g["gavgjitter"]
    BY <1>1, <1>3, <1>4, <1>5
  <2>2. QED
    BY <1>2, <1>3, <2>1, SummaryAsBefore
<1>6. CASE Head(todo) = "gavgjitter"
  <2>1. /\ Done("gavgjitter")' = test_loops /\ Done("gavgjitter") = test_loops - 1
        /\ g'["gavgjitter"] = g["gavgjitter"] + g["avgjitter"]
    BY <1>1, <1>3, <1>4, <1>6 DEF Stored
  <2>2. PICK k \in Nat : k = test_loops - 1 /\ k + 1 = test_loops
    BY <1>1
  <2>3. Done("avgjitter") = k + 1 /\ k + 1 <= Measured /\ Measured \in Nat
    BY <1>3, <1>6, <2>2, AverageIsStored, DoneIs, MeasuredIs
  <2>4. Modest => g["avgjitter"] = AvgOf(Period(k + 1))
    BY <2>3 DEF GlobalsInv, AvgInv
  <2>5. main \in Summing /\ Modest => g'["gavgjitter"] = Averages(k + 1)
    <3>1. Averages(k + 1) = Averages(k) + AvgOf(Period(k + 1))
      BY <2>3, AveragesAre
    <3>2. QED
      BY <2>1, <2>2, <2>4, <3>1 DEF SummaryInv, SumInv
  <2>6. SumInv'
    <3>1. PICK e \in Nat : e = k + 1
      OBVIOUS
    <3>2. Modest' = Modest /\ Averages(e)' = Averages(e) /\ Done("gavgjitter")' = e
      BY <1>1, <1>3, <2>1, <2>2, <2>3, <3>1, AveragesKept DEF Modest
    <3>3. main' \in Summing /\ Modest' => g'["gavgjitter"] = Averages(e)'
      BY <1>2, <2>5, <3>1, <3>2
    <3>4. QED
      BY <3>2, <3>3 DEF SumInv, Averages, Summing
  <2>7. cut' # -1 => cut' \in 0..k
    BY <1>2, <2>1, <2>2 DEF SummaryInv, CutInv
  <2>8. cut' # Done("gavgjitter")'
    BY <1>2, <1>3, <2>1, <2>2, <2>7
  <2>9. CutInv'
    BY <1>2, <2>1, <2>2, <2>7 DEF SummaryInv, CutInv, Counted
  <2>10. MeanInv' /\ ToldInv'
    BY <2>8 DEF MeanInv, ToldInv
  <2>11. QED
    BY <2>6, <2>9, <2>10 DEF SummaryInv
<1>7. QED
  BY <1>5, <1>6

LEMMA MoreTimes ==
  ASSUME NEW n \in Nat, NEW x \in Nat, NEW y \in Nat, x <= y
  PROVE  x * n <= y * n /\ x * n \in Nat
<1>1. PICK d \in Nat : y = x + d
  <2>1. y - x \in Nat /\ y = x + (y - x)
    OBVIOUS
  <2>2. QED
    BY <2>1
<1>2. (x + d) * n = x * n + d * n /\ x * n \in Nat /\ d * n \in Nat
  OBVIOUS
<1>3. QED
  <2> DEFINE a == x * n
             b == d * n
  <2>1. a \in Nat /\ b \in Nat /\ y * n = a + b
    BY <1>1, <1>2
  <2> HIDE DEF a, b
  <2>2. a <= y * n
    BY <2>1
  <2>3. QED
    BY <2>1, <2>2 DEF a

LEMMA SummaryKept ==
  ASSUME TypeOK, StartInv, PlaceInv, GlobalsInv, SummaryInv, Main \/ Sampler \/ Display
  PROVE  SummaryInv'
<1>1. CASE Store
  BY <1>1, StoreSummary
<1>2. Extends(dts', dts) /\ dts \in Seq(Nat) /\ Len(dts) \in Nat /\ Measured \in Nat
      /\ "gavgjitter" \in Fields /\ "gavgjitter" \in Globals /\ nsamples \in Nat \ {0}
      /\ g \in [Globals -> Int] /\ cut \in Int /\ divisor \in Nat \ {0} /\ test_loops \in Nat
  BY DtsGrow, MeasuredIs, Lists, TypeParts, SamplesPerPeriod
     DEF SamplerType, GlobalsType, MainType
<1>3. PICK k \in Nat : k = Done("gavgjitter") /\ k <= Measured
  BY <1>2, InSumIs
<1>4. ASSUME Main \/ Display \/ (Sampler /\ ~ Store)
      PROVE  /\ Done("gavgjitter")' = k /\ Averages(k)' = Averages(k) /\ MeanOf(k)' = MeanOf(k)
             /\ Modest' => Modest
             /\ ~ Divide => g'["gavgjitter"] = g["gavgjitter"]
  BY <1>2, <1>3, <1>4, DoneElse, GlobalsElse, AveragesKept, PastKept DEF DoneKept
<1>5. CASE Display \/ (Sampler /\ ~ Store)
  <2>1. UNCHANGED <<cut, divisor, summary>> /\ (main' = main \/ main' = "exited")
    BY <1>5, SamplerKeepsOthers, DisplayKeepsOthers DEF mainv
  <2>2. g'["gavgjitter"] = g["gavgjitter"]
    <3>1. CASE Display
      BY <3>1, DisplayKeepsOthers
    <3>2. CASE Sampler /\ ~ Store
      <4>1. g' = g \/ (Freeze /\ g' = [g EXCEPT !.gmaxjitter = local.dt])
        BY <3>2, Zenon DEF Sampler, Start, LoopTop, Sample, WaitFails, sigdebug, Freeze,
           CheckSample, AddSample, CheckExtremes, AddExtremes, WarmUpEnds
      <4>2. QED
        BY <1>2, <4>1
    <3>3. QED
      BY <1>5, <3>1, <3>2
  <2>3. QED
    BY <1>2, <1>3, <1>4, <1>5, <2>1, <2>2, SummaryAsBefore DEF Summing, Reporting, Counted
<1>6. CASE Alloc \/ SetupFails \/ StartTasks \/ Sigwait \/ StopTest \/ Dump \/ Free \/ Exit
  <2>1. UNCHANGED <<cut, divisor, summary>> /\ Main /\ g' = g
    BY <1>6, Zenon DEF Alloc, SetupFails, StartTasks, Sigwait, StopTest, Dump, Free, Exit, Main, mainv
  <2>2. \/ main = "alloc" /\ main' \in {"display", "cleanup"}
        \/ main \in {"display", "sampling"} /\ main' \in {"exited", "sampling", "sigwait"}
        \/ main = "sigwait" /\ main' = "cleanup"
        \/ main = "cleanup" /\ main' \in {"loops", "dump"}
        \/ main = "dump" /\ main' \in {"crashed", "free"}
        \/ main = "free" /\ main' = "exit"
        \/ main = "exit" /\ main' = "exited"
    BY <1>6 DEF Alloc, SetupFails, StartTasks, Sigwait, StopTest, Dump, Free, Exit
  <2>3. main = "cleanup" => cut = -1
    BY DEF SummaryInv, CutInv, Counted
  <2>4. QED
    BY <1>2, <1>3, <1>4, <2>1, <2>2, <2>3, SummaryAsBefore DEF Summing, Reporting, Counted
<1>7. CASE CountLoops
  <2>1. /\ main = "loops" /\ main' = "divide" /\ g' = g /\ Main
        /\ divisor' = (IF test_loops > 1 THEN test_loops ELSE 2) - 1
        /\ cut' = IF NextCounted THEN InSum ELSE -1
    BY <1>7 DEF CountLoops, Main
  <2>2. /\ InSum = k
        /\ NextCounted => k = IF test_loops > 1 THEN test_loops - 1 ELSE 0
    BY <1>3, InSumIs
  <2>3. SumInv'
    <3>1. Modest' => g'["gavgjitter"] = Averages(k)'
      BY <1>3, <1>4, <2>1 DEF SummaryInv, SumInv, Summing
    <3>2. QED
      BY <1>4, <2>1, <3>1 DEF SumInv, Averages
  <2>4. CutInv'
    <3>1. main' \in Counted
      BY <2>1 DEF Counted
    <3>2. cut' # -1 => cut' \in 0..k /\ divisor' = IF cut' = 0 THEN 1 ELSE cut'
      BY <1>2, <2>1, <2>2
    <3>3. QED
      BY <1>4, <2>1, <3>1, <3>2 DEF CutInv
  <2>5. MeanInv' /\ ToldInv'
    BY <2>1 DEF MeanInv, ToldInv, Reporting
  <2>6. QED
    BY <2>3, <2>4, <2>5 DEF SummaryInv
<1>8. CASE Divide
  <2>1. /\ main = "divide" /\ main' = "copy" /\ UNCHANGED cut /\ UNCHANGED divisor /\ Main
        /\ g' = [g EXCEPT !.gavgjitter = Quot(@, divisor)]
    BY <1>8 DEF Divide, Main
  <2>2. g'["gavgjitter"] = Quot(g["gavgjitter"], divisor)
    BY <1>2, <2>1
  <2>3. SumInv' /\ ToldInv'
    BY <2>1 DEF SumInv, ToldInv, Summing, Reporting
  <2>4. CutInv'
    BY <1>3, <1>4, <2>1 DEF SummaryInv, CutInv, Counted
  <2>5. cut = k /\ Modest => g'["gavgjitter"] = MeanOf(k)
    <3> SUFFICES ASSUME cut = k, Modest PROVE g'["gavgjitter"] = MeanOf(k)
      OBVIOUS
    <3>1. g["gavgjitter"] = Averages(k)
      BY <1>3, <2>1 DEF SummaryInv, SumInv, Summing
    <3>2. Averages(k) \in Nat /\ Averages(0) = 0
      BY <1>3, AveragesAre
    <3>3. divisor = IF k = 0 THEN 1 ELSE k
      BY DEF SummaryInv, CutInv
    <3>4. Quot(Averages(k), divisor) = Averages(k) \div divisor
      BY <1>2, <3>2, Conversions
    <3>5. k = 0 => Averages(k) \div divisor = 0
      BY <3>2, <3>3
    <3>6. QED
      BY <2>2, <3>1, <3>3, <3>4, <3>5 DEF MeanOf
  <2>6. MeanInv'
    <3>1. cut' = k /\ Modest' => g'["gavgjitter"] = MeanOf(k)'
      BY <1>4, <2>1, <2>5
    <3>2. QED
      BY <1>4, <2>1, <3>1 DEF MeanInv, MeanOf, Averages
  <2>7. QED
    BY <2>3, <2>4, <2>6 DEF SummaryInv
<1>9. CASE Copy
  <2>1. /\ main = "copy" /\ main' = "dump" /\ UNCHANGED cut /\ UNCHANGED divisor /\ Main /\ g' = g
        /\ summary'.gmin = g["gminjitter"] /\ summary'.gmax = g["gmaxjitter"]
        /\ summary'.gavg = g["gavgjitter"]
        /\ UNCHANGED dts
    BY <1>9 DEF Copy, Main, smpv
  <2>2. SumInv'
    BY <2>1 DEF SumInv, Summing
  <2>3. CutInv'
    BY <1>3, <1>4, <2>1 DEF SummaryInv, CutInv, Counted
  <2>4. cut = k /\ Modest => g["gavgjitter"] = MeanOf(k)
    BY <1>3, <2>1 DEF SummaryInv, MeanInv
  <2>5. MeanInv'
    <3>1. cut' = k /\ Modest' => g'["gavgjitter"] = MeanOf(k)'
      BY <1>4, <2>1, <2>4
    <3>2. QED
      BY <1>4, <2>1, <3>1 DEF MeanInv, MeanOf, Averages
  <2>6. /\ \E m \in k * nsamples..Len(dts) : Lowest(g["gminjitter"], First(m))
        /\ \E m \in k * nsamples..Len(dts) : Highest(g["gmaxjitter"], First(m))
    <3>1. /\ Done("gminjitter") \in 0..Measured /\ Done("gminjitter") * nsamples \in 0..Len(dts)
          /\ Done("gmaxjitter") \in 0..Measured
      <4>1. "gminjitter" \in Fields /\ "gmaxjitter" \in Fields
        BY Lists
      <4>2. QED
        BY <4>1, DoneIs
    <3>2. k <= Done("gminjitter") /\ k <= Done("gmaxjitter")
      BY <1>3, InSumIs
    <3>3. PICK a \in Nat : a = Done("gminjitter") /\ k <= a /\ a * nsamples \in 0..Len(dts)
      BY <1>2, <3>1, <3>2
    <3>4. PICK b \in Nat : b = Done("gmaxjitter") /\ k <= b
      BY <1>2, <3>1, <3>2
    <3>9. k * nsamples <= a * nsamples /\ k * nsamples <= b * nsamples /\ k * nsamples \in Nat
      BY <1>2, <3>3, <3>4, MoreTimes
    <3> DEFINE kn == k * nsamples
               an == a * nsamples
               bn == b * nsamples
    <3>10. kn <= an /\ kn <= bn /\ kn \in Nat /\ an \in 0..Len(dts)
      BY <3>3, <3>9
    <3>5. Lowest(g["gminjitter"], First(a * nsamples))
      BY <3>3 DEF GlobalsInv, BestInv
    <3>6. PICK w \in Nat : w \in bn..Len(dts) /\ Highest(g["gmaxjitter"], First(w))
      BY <3>4 DEF GlobalsInv, WorstInv, Worst
    <3>7. w \in kn..Len(dts) /\ an \in kn..Len(dts)
      <4> HIDE DEF kn, an, bn
      <4>1. bn \in Int
        BY <1>2, <3>4 DEF bn
      <4>2. QED
        BY <1>2, <3>6, <3>10, <4>1
    <3>8. QED
      BY <3>5, <3>6, <3>7
  <2>7. ToldInv'
    <3> SUFFICES ASSUME cut' = k
                 PROVE  /\ Modest' => summary'.gavg = MeanOf(cut)'
                        /\ \E m \in cut' * nsamples..Len(dts') : Lowest(summary'.gmin, First(m)')
                        /\ \E m \in cut' * nsamples..Len(dts') : Highest(summary'.gmax, First(m)')
      BY <1>4, <2>1 DEF ToldInv
    <3>1. Modest' => summary'.gavg = MeanOf(k)'
      BY <1>4, <2>1, <2>4
    <3>2. Modest' => summary'.gavg = MeanOf(cut)'
      BY <3>1 DEF MeanOf, Averages
    <3>3. \A m \in Int : First(m)' = First(m)
      BY <2>1 DEF First
    <3>4. k * nsamples \in Int /\ \A m \in k * nsamples..Len(dts) : m \in Int
      BY <1>2
    <3>5. QED
      BY <2>1, <2>6, <3>2, <3>3, <3>4
  <2>8. QED
    BY <2>2, <2>3, <2>5, <2>7 DEF SummaryInv
<1>10. QED
  BY <1>1, <1>5, <1>6, <1>7, <1>8, <1>9 DEF Main

LEMMA SummaryInit == Init => SummaryInv
<1> SUFFICES ASSUME Init PROVE SummaryInv
  OBVIOUS
<1>1. main = "alloc" /\ cut = -1 /\ g.gavgjitter = 0
  BY DEF Init
<1>2. TypeOK /\ PlaceInv
  BY AnyTimeInit DEF AnyTimeInv
<1>3. Averages(Done("gavgjitter")) = 0
  BY <1>2, NothingDone, AveragesAre, MeasuredIs
<1>4. SumInv
  BY <1>1, <1>3 DEF SumInv
<1>5. CutInv /\ MeanInv /\ ToldInv
  BY <1>1 DEF CutInv, MeanInv, ToldInv, Reporting
<1>6. QED
  BY <1>4, <1>5 DEF SummaryInv

LEMMA SummaryStep ==
  InTime /\ InTimeInv /\ SummaryInv /\ [Next]_vars => SummaryInv'
<1> SUFFICES ASSUME InTime, InTimeInv, SummaryInv, [Next]_vars PROVE SummaryInv'
  OBVIOUS
<1>1. TypeOK /\ StartInv /\ PlaceInv /\ GlobalsInv
  BY DEF InTimeInv, AnyTimeInv
<1>2. CASE Main \/ Sampler \/ Display
  BY <1>1, <1>2, SummaryKept
<1>3. CASE UNCHANGED vars
  <2>1. UNCHANGED <<cut, divisor, summary, main, g, dts, smp, todo, warmup, test_loops>>
    BY <1>3, Zenon DEF vars, mainv, smpv
  <2>2. Done("gavgjitter")' = Done("gavgjitter")
    BY <2>1 DEF Done
  <2>3. Extends(dts', dts)
    BY <1>1, <2>1, TypeParts DEF SamplerType, Extends
  <2>4. QED
    BY <1>1, <2>1, <2>2, <2>3, SummaryAsBefore
<1>4. QED
  BY <1>2, <1>3 DEF Next, Terminated

\* Whatever the sampler was at when the signal came, and however its next steps fall
\* between those of main, the mean that main prints is that of the complete periods
\* since the warm-up, each counted once, and best and worst are those of the latencies
\* up to their end, or somewhat later (latency and cleanup, altency.c): for every
\* number of periods, in a test whose samples are in time.
THEOREM SummaryIsExact == ASSUME InTime PROVE Spec => []SummaryExact
<1>1. InTimeInv /\ SummaryInv => SummaryExact
  <2> SUFFICES ASSUME InTimeInv, SummaryInv, main \in {"dump", "free", "exit"}, cut = InSum
               PROVE  /\ Modest => summary.gavg =
                           IF cut = 0 THEN 0
                           ELSE Total([j \in 1..cut |-> AvgOf(Period(j))]) \div cut
                      /\ \E m \in cut * nsamples..Len(dts) : summary.gmin = MinOf(Until(m))
                      /\ \E m \in cut * nsamples..Len(dts) : summary.gmax = MaxOf(Until(m))
    BY DEF SummaryExact
  <2>1. TypeOK /\ PlaceInv
    BY DEF InTimeInv, AnyTimeInv
  <2>2. cut = Done("gavgjitter") /\ cut \in Nat
    BY <2>1, InSumIs, MeasuredIs
  <2>3. /\ Modest => summary.gavg = MeanOf(cut)
        /\ \E m \in cut * nsamples..Len(dts) : Lowest(summary.gmin, First(m))
        /\ \E m \in cut * nsamples..Len(dts) : Highest(summary.gmax, First(m))
    BY <2>2 DEF SummaryInv, ToldInv, Reporting
  <2>4. cut * nsamples \in Nat
    BY <2>2, SamplesPerPeriod
  <2>5. \E m \in cut * nsamples..Len(dts) : summary.gmin = MinOf(Until(m))
    <3>1. PICK m \in cut * nsamples..Len(dts) : Lowest(summary.gmin, First(m))
      BY <2>3
    <3>2. m \in 0..Len(dts)
      BY <2>4
    <3>3. QED
      BY <2>1, <3>1, <3>2, ExtremesOfParts
  <2>6. \E m \in cut * nsamples..Len(dts) : summary.gmax = MaxOf(Until(m))
    <3>1. PICK m \in cut * nsamples..Len(dts) : Highest(summary.gmax, First(m))
      BY <2>3
    <3>2. m \in 0..Len(dts)
      BY <2>4
    <3>3. QED
      BY <2>1, <3>1, <3>2, ExtremesOfParts
  <2>7. QED
    BY <2>3, <2>5, <2>6 DEF MeanOf, Averages
<1>2. QED
  BY <1>1, InTimeInit, InTimeStep, SummaryInit, SummaryStep, PTL DEF Spec

(***************************************************************************)
(* Histograms                                                              *)
(***************************************************************************)
InBucket(v, c) ==
  IF c < histogram_size - 1 THEN v \in c * bucketsize..(c + 1) * bucketsize - 1
                            ELSE v >= c * bucketsize
Hit(s, c) == {i \in 1..Len(s) : InBucket(s[i], c)}

\* The cell the program increments is that of the bucket the latency is in.
LEMMA CellIsBucket ==
  ASSUME NEW v \in Nat, NEW c \in 0..histogram_size - 1
  PROVE  InBucket(v, c) <=> c = Cell(v)
<1> DEFINE q == v \div bucketsize
           r == v % bucketsize
           cb == c * bucketsize
           qb == q * bucketsize
<1>1. bucketsize \in Nat \ {0} /\ histogram_size \in Nat \ {0}
  BY HistogramAssumption
<1>2. q \in Nat /\ r \in 0..bucketsize - 1 /\ v = qb + r /\ c \in Nat /\ cb \in Nat /\ qb \in Nat
  <2>1. q \in Nat /\ r \in 0..bucketsize - 1 /\ c \in Nat
    BY <1>1
  <2>2. v = bucketsize * q + r
    BY <1>1
  <2>3. QED
    BY <1>1, <2>1, <2>2
<1>3. Cell(v) = IF q < histogram_size THEN q ELSE histogram_size - 1
  BY DEF Cell
<1>4. (c + 1) * bucketsize = cb + bucketsize
  BY <1>1, <1>2
<1>5. v >= cb => q >= c
  <2> SUFFICES ASSUME v >= cb PROVE q >= c
    OBVIOUS
  <2>1. (cb + 0) \div bucketsize = c
    BY <1>1, <1>2, Division
  <2>2. cb \div bucketsize = c
    BY <1>2, <2>1
  <2>3. cb \div bucketsize <= v \div bucketsize
    BY <1>1, <1>2, DivisionGrows
  <2>4. QED
    BY <2>2, <2>3
<1>6. q >= c => v >= cb
  <2> SUFFICES ASSUME q >= c PROVE v >= cb
    OBVIOUS
  <2>1. cb <= qb
    BY <1>1, <1>2, MoreTimes
  <2> HIDE DEF q, r, cb, qb
  <2>2. QED
    BY <1>1, <1>2, <2>1
<1>7. v <= (cb + bucketsize) - 1 => q <= c
  <2> SUFFICES ASSUME v <= (cb + bucketsize) - 1, q > c PROVE FALSE
    BY <1>2
  <2>1. c + 1 <= q /\ c + 1 \in Nat
    BY <1>2
  <2>2. (c + 1) * bucketsize <= q * bucketsize
    BY <1>1, <1>2, <2>1, MoreTimes
  <2>3. cb + bucketsize <= qb
    BY <1>4, <2>2
  <2> HIDE DEF q, r, cb, qb
  <2>4. QED
    BY <1>1, <1>2, <2>3
<1>8. q <= c => v <= (cb + bucketsize) - 1
  <2> SUFFICES ASSUME q <= c PROVE v <= (cb + bucketsize) - 1
    OBVIOUS
  <2>1. qb <= cb
    BY <1>1, <1>2, MoreTimes
  <2> HIDE DEF q, r, cb, qb
  <2>2. QED
    BY <1>1, <1>2, <2>1
<1>9. InBucket(v, c) <=> IF c < histogram_size - 1 THEN v >= cb /\ v <= (cb + bucketsize) - 1
                                                   ELSE v >= cb
  <2>1. (c + 1) * bucketsize - 1 = (cb + bucketsize) - 1
    BY <1>4
  <2>2. cb \in Int /\ (cb + bucketsize) - 1 \in Int
    BY <1>1, <1>2
  <2>3. v \in cb..(cb + bucketsize) - 1 <=> v >= cb /\ v <= (cb + bucketsize) - 1
    <3> HIDE DEF cb
    <3>1. QED
      BY <2>2
  <2>4. QED
    BY <2>1, <2>3 DEF InBucket
<1> HIDE DEF q, r, cb, qb
<1>10. QED
  BY <1>1, <1>2, <1>3, <1>5, <1>6, <1>7, <1>8, <1>9

LEMMA CountsAre ==
  ASSUME NEW s \in Seq(Nat)
  PROVE  /\ Counts(s) = [c \in 0..histogram_size - 1 |-> Cardinality(Hit(s, c))]
         /\ \A c \in 0..histogram_size - 1 :
              Hit(s, c) \subseteq 1..Len(s) /\ IsFiniteSet(Hit(s, c)) /\ Cardinality(Hit(s, c)) \in Nat
<1>1. Counts(s) = [c \in 0..histogram_size - 1 |-> Cardinality(Hit(s, c))]
  BY DEF Counts, Hit, InBucket
<1>2. ASSUME NEW c
      PROVE  Hit(s, c) \subseteq 1..Len(s) /\ IsFiniteSet(Hit(s, c)) /\ Cardinality(Hit(s, c)) \in Nat
  <2>1. Hit(s, c) \in SUBSET (1..Len(s))
    BY DEF Hit
  <2>2. IsFiniteSet(1..Len(s))
    BY FS_Interval
  <2>3. IsFiniteSet(Hit(s, c))
    BY <2>1, <2>2, FS_Subset, Zenon
  <2>4. QED
    BY <2>1, <2>3, FS_CardinalityType, Zenon
<1>3. QED
  BY <1>1, <1>2

\* One more latency is one more in its cell, and the others stay.
LEMMA CountsOfAppend ==
  ASSUME NEW s \in Seq(Nat), NEW x \in Nat
  PROVE  Counts(Append(s, x)) = [Counts(s) EXCEPT ![Cell(x)] = @ + 1]
<1> DEFINE t == Append(s, x)
           n == Len(s)
           C == 0..histogram_size - 1
<1>1. /\ t \in Seq(Nat) /\ n \in Nat /\ Len(t) = n + 1 /\ t[n + 1] = x
      /\ \A i \in 1..n : t[i] = s[i]
  OBVIOUS
<1> HIDE DEF t
<1>2. \A i \in 1..n + 1 : i \in 1..n \/ i = n + 1
  BY <1>1
<1>3. \A i \in 1..n : i \in 1..n + 1 /\ i # n + 1
  BY <1>1
<1>4. n + 1 \in 1..n + 1
  BY <1>1
<1>5. ASSUME NEW c \in C
      PROVE  Cardinality(Hit(t, c)) = IF c = Cell(x) THEN Cardinality(Hit(s, c)) + 1
                                                     ELSE Cardinality(Hit(s, c))
  <2>1. InBucket(x, c) <=> c = Cell(x)
    BY CellIsBucket
  <2>2. n + 1 \notin Hit(s, c)
    BY <1>3 DEF Hit
  <2>3. CASE c = Cell(x)
    <3>1. Hit(t, c) = Hit(s, c) \cup {n + 1}
      <4>1. \A i \in Hit(t, c) : i \in Hit(s, c) \cup {n + 1}
        BY <1>1, <1>2 DEF Hit
      <4>2. \A i \in Hit(s, c) \cup {n + 1} : i \in Hit(t, c)
        BY <1>1, <1>3, <1>4, <2>1, <2>3 DEF Hit
      <4>3. QED
        BY <4>1, <4>2, Zenon
    <3>2. IsFiniteSet(Hit(s, c))
      BY CountsAre
    <3>3. Cardinality(Hit(s, c) \cup {n + 1}) = Cardinality(Hit(s, c)) + 1
      BY <2>2, <3>2, FS_AddElement, Zenon
    <3>4. QED
      BY <2>3, <3>1, <3>3, Zenon
  <2>4. CASE c # Cell(x)
    <3>1. Hit(t, c) = Hit(s, c)
      <4>1. \A i \in Hit(t, c) : i \in Hit(s, c)
        BY <1>1, <1>2, <2>1, <2>4 DEF Hit
      <4>2. \A i \in Hit(s, c) : i \in Hit(t, c)
        BY <1>1, <1>3 DEF Hit
      <4>3. QED
        BY <4>1, <4>2, Zenon
    <3>2. QED
      BY <2>4, <3>1, Zenon
  <2>5. QED
    BY <2>3, <2>4
<1>6. Counts(t) = [c \in C |-> Cardinality(Hit(t, c))]
  BY <1>1, CountsAre, Zenon
<1>7. Counts(s) = [c \in C |-> Cardinality(Hit(s, c))]
  BY CountsAre, Zenon
<1>8. QED
  <2>1. Counts(t) = [Counts(s) EXCEPT ![Cell(x)] = @ + 1]
    BY <1>5, <1>6, <1>7
  <2>2. QED
    BY <2>1 DEF t

LEMMA NoCounts ==
  Counts(<<>>) = [c \in 0..histogram_size - 1 |-> 0]
<1>1. <<>> \in Seq(Nat) /\ Len(<<>>) = 0
  OBVIOUS
<1>2. \A c : Hit(<<>>, c) = {}
  BY <1>1 DEF Hit
<1>3. Cardinality({}) = 0
  BY FS_EmptySet
<1>4. QED
  BY <1>1, <1>2, <1>3, CountsAre

\* The hits of a histogram are the latencies it has counted.
LEMMA HitsGrow ==
  ASSUME NEW h \in [0..histogram_size - 1 -> Nat], NEW c \in 0..histogram_size - 1
  PROVE  /\ Hits([h EXCEPT ![c] = @ + 1]) = Hits(h) + 1
         /\ [h EXCEPT ![c] = @ + 1] \in [0..histogram_size - 1 -> Nat]
<1> DEFINE e == [h EXCEPT ![c] = @ + 1]
           s == [i \in 1..histogram_size |-> h[i - 1]]
           t == [i \in 1..histogram_size |-> e[i - 1]]
<1>1. histogram_size \in Nat \ {0}
  BY HistogramAssumption
<1>2. /\ e \in [0..histogram_size - 1 -> Nat] /\ e[c] = h[c] + 1
      /\ \A d \in 0..histogram_size - 1 : d # c => e[d] = h[d]
  OBVIOUS
<1> HIDE DEF e
<1>3. \A i \in 1..histogram_size : i - 1 \in 0..histogram_size - 1
  BY <1>1
<1>4. s \in Seq(Nat) /\ Len(s) = histogram_size /\ t \in Seq(Nat) /\ Len(t) = histogram_size
  BY <1>1, <1>2, <1>3
<1>5. c + 1 \in 1..histogram_size /\ (c + 1) - 1 = c
  BY <1>1
<1>6. \A i \in 1..histogram_size : i # c + 1 => t[i] = s[i]
  BY <1>1, <1>2, <1>3
<1>7. t[c + 1] = s[c + 1] + 1
  BY <1>2, <1>5
<1> HIDE DEF s, t
<1>8. Total(t) = Total(s) + 1
  BY <1>4, <1>5, <1>6, <1>7, TotalBump, ZenonT(30)
<1>9. Hits(e) = Hits(h) + 1
  BY <1>8 DEF Hits, s, t
<1>10. QED
  BY <1>2, <1>9 DEF e

LEMMA NoHits == Hits([c \in 0..histogram_size - 1 |-> 0]) = 0
<1> DEFINE s == [i \in 1..histogram_size |-> [c \in 0..histogram_size - 1 |-> 0][i - 1]]
<1>1. histogram_size \in Nat \ {0}
  BY HistogramAssumption
<1>2. \A i \in 1..histogram_size : i - 1 \in 0..histogram_size - 1
  BY <1>1
<1>3. s \in Seq(Nat) /\ \A i \in 1..Len(s) : s[i] = 0
  BY <1>1, <1>2
<1> HIDE DEF s
<1>4. Total(s) = 0
  BY <1>3, TotalZero
<1>5. QED
  BY <1>4 DEF Hits, s

LEMMA HeldGrows ==
  ASSUME NEW h \in [0..histogram_size - 1 -> Nat], NEW s \in Seq(Nat), NEW x \in Nat, Held(h, s)
  PROVE  Held([h EXCEPT ![Cell(x)] = @ + 1], Append(s, x))
<1>1. Cell(x) \in 0..histogram_size - 1
  <2>1. x \in Int
    OBVIOUS
  <2>2. QED
    BY <2>1, CellType, Zenon
<1>2. Hits([h EXCEPT ![Cell(x)] = @ + 1]) = Len(s) + 1
  BY <1>1, HitsGrow DEF Held
<1>3. Counts(Append(s, x)) = [h EXCEPT ![Cell(x)] = @ + 1]
  BY CountsOfAppend DEF Held
<1>4. Append(s, x) \in Seq(Nat) /\ Len(Append(s, x)) = Len(s) + 1
  OBVIOUS
<1>5. QED
  BY <1>2, <1>3, <1>4 DEF Held

LEMMA HistoryKept ==
  ASSUME dts \in Seq(Nat), Extends(dts', dts), Measured \in Nat
  PROVE  /\ \A m \in Nat : m <= Len(dts) => Until(m)' = Until(m) /\ m <= Len(dts')
         /\ \A k \in Nat : k <= Measured =>
              Maxima(k)' = Maxima(k) /\ Minima(k)' = Minima(k) /\ k <= Measured'
<1>1. ASSUME NEW m \in Nat, m <= Len(dts) PROVE Until(m)' = Until(m) /\ m <= Len(dts')
  <2>1. m \in 0..Len(dts) /\ Len(dts) \in Nat /\ Len(dts') \in Nat /\ Len(dts) <= Len(dts')
    BY <1>1 DEF Extends
  <2>2. QED
    BY <2>1, PastKept
<1>2. ASSUME NEW k \in Nat, k <= Measured
      PROVE  Maxima(k)' = Maxima(k) /\ Minima(k)' = Minima(k) /\ k <= Measured'
  <2>1. \A j \in 1..k : j \in Nat \ {0} /\ j <= Measured
    BY <1>2
  <2>2. \A j \in 1..k : Period(j)' = Period(j)
    BY <2>1, PastKept
  <2>3. \A j \in 1..k : MaxOf(Period(j))' = MaxOf(Period(j)) /\ MinOf(Period(j))' = MinOf(Period(j))
    BY <2>2 DEF MaxOf, MinOf
  <2>4. Measured <= Measured' /\ Measured' \in Int
    <3>1. Len(dts') \in Int /\ nsamples \in Nat \ {0}
      BY SamplesPerPeriod DEF Extends
    <3>2. QED
      BY <3>1, PastKept DEF Measured
  <2>5. QED
    BY <1>2, <2>3, <2>4 DEF Maxima, Minima
<1>3. QED
  BY <1>1, <1>2

\* A histogram that does not change holds what it held.
LEMMA SamplesAsBefore ==
  ASSUME TypeOK, PlaceInv, Extends(dts', dts), NEW m \in Nat, SamplesHeld(m),
         histogram'.avg = histogram.avg,
         need_histo' /\ ~ finished' /\ ~ warmup' =>
           m = IF smp' \in {"freeze", "check", "add"} THEN Len(dts') - 1 ELSE Len(dts'),
         smp' = "add" => m = Len(dts') - 1
  PROVE  SamplesHeld(m)'
<1>1. dts \in Seq(Nat) /\ Measured \in Nat /\ m <= Len(dts) /\ Held(histogram.avg, Until(m))
  BY TypeParts, MeasuredIs DEF SamplerType, SamplesHeld
<1>2. Until(m)' = Until(m) /\ m <= Len(dts')
  BY <1>1, HistoryKept
<1>3. Held(histogram.avg, Until(m))'
  <2>1. PICK s : s = Until(m)
    OBVIOUS
  <2>2. Held(histogram'.avg, s)
    BY <1>1, <2>1
  <2>3. QED
    BY <1>2, <2>1, <2>2 DEF Held
<1>4. QED
  BY <1>2, <1>3 DEF SamplesHeld

LEMMA PeriodsAsBefore ==
  ASSUME TypeOK, PlaceInv, Extends(dts', dts), NEW k \in Nat, PeriodsHeld(k),
         histogram'.max = histogram.max, histogram'.min = histogram.min,
         need_histo' /\ ~ finished' /\ ~ warmup' =>
           k = IF smp' \in {"loop", "store"} THEN test_loops' ELSE test_loops' - 1,
         smp' = "add_extremes" => k = test_loops' - 1
  PROVE  PeriodsHeld(k)'
<1>1. /\ dts \in Seq(Nat) /\ Measured \in Nat /\ k <= Measured
      /\ Held(histogram.max, Maxima(k)) /\ Held(histogram.min, Minima(k))
  BY TypeParts, MeasuredIs DEF SamplerType, PeriodsHeld
<1>2. Maxima(k)' = Maxima(k) /\ Minima(k)' = Minima(k) /\ k <= Measured'
  BY <1>1, HistoryKept
<1>3. Held(histogram.max, Maxima(k))' /\ Held(histogram.min, Minima(k))'
  <2>1. PICK s : s = Maxima(k)
    OBVIOUS
  <2>2. PICK t : t = Minima(k)
    OBVIOUS
  <2>3. Held(histogram'.max, s) /\ Held(histogram'.min, t)
    BY <1>1, <2>1, <2>2
  <2>4. QED
    BY <1>2, <2>1, <2>2, <2>3 DEF Held
<1>4. QED
  BY <1>2, <1>3 DEF PeriodsHeld

LEMMA NextLatency ==
  ASSUME NEW s \in Seq(Nat), NEW m \in Nat, m + 1 <= Len(s)
  PROVE  SubSeq(s, 1, m + 1) = Append(SubSeq(s, 1, m), s[m + 1]) /\ SubSeq(s, 1, m) \in Seq(Nat)
<1> DEFINE t == SubSeq(s, 1, m)
           u == SubSeq(s, 1, m + 1)
           v == Append(t, s[m + 1])
<1>1. /\ t \in Seq(Nat) /\ Len(t) = m /\ \A i \in 1..m : t[i] = s[i]
      /\ u \in Seq(Nat) /\ Len(u) = m + 1 /\ \A i \in 1..m + 1 : u[i] = s[i]
      /\ s[m + 1] \in Nat
  OBVIOUS
<1> HIDE DEF t, u
<1>2. /\ v \in Seq(Nat) /\ Len(v) = m + 1 /\ \A i \in 1..m : v[i] = s[i]
      /\ v[m + 1] = s[m + 1]
  BY <1>1
<1> HIDE DEF v
<1>3. \A i \in 1..m + 1 : i \in 1..m \/ i = m + 1
  OBVIOUS
<1>4. \A i \in 1..m + 1 : u[i] = v[i]
  BY <1>1, <1>2, <1>3
<1>5. u = v
  BY <1>1, <1>2, <1>4
<1>6. QED
  BY <1>1, <1>5 DEF t, u, v

\* The latency the program counts is the next one.
LEMMA AddSampleHeld ==
  ASSUME TypeOK, PlaceInv, PeriodInv, HistogramInv, AddSample
  PROVE  HistogramInv'
<1>1. PICK m \in Nat : SamplesHeld(m)
  BY DEF HistogramInv
<1>2. PICK k \in Nat : PeriodsHeld(k)
  BY DEF HistogramInv
<1>3. /\ smp = "add" /\ smp' = AfterSample /\ ~ warmup /\ UNCHANGED <<dts, warmup, test_loops>>
      /\ histogram' = [histogram EXCEPT !.avg[Cell(local.dt)] = @ + 1]
      /\ UNCHANGED need_histo /\ UNCHANGED finished /\ local.count > 0
  BY DEF AddSample, PlaceInv, options, mainv
<1>4. smp' \in {"wait", "check_extremes"}
  BY <1>3 DEF AfterSample
<1>5. /\ dts \in Seq(Nat) /\ Len(dts) \in Nat \ {0} /\ Extends(dts', dts)
      /\ histogram \in [{"avg", "min", "max"} -> [0..histogram_size - 1 -> Nat]]
  BY <1>3, BegunIs, TypeParts DEF Extends, HistoType
<1>6. local.dt = dts[Len(dts)] /\ m = Len(dts) - 1 /\ Held(histogram.avg, Until(m))
  BY <1>1, <1>3 DEF PeriodInv, SamplesHeld
<1>7. PICK x \in Nat : x = dts[m + 1] /\ x = local.dt
  BY <1>5, <1>6
<1>8. /\ histogram'.avg = [histogram.avg EXCEPT ![Cell(x)] = @ + 1]
      /\ histogram'.max = histogram.max /\ histogram'.min = histogram.min
  BY <1>3, <1>5, <1>7
<1>9. Until(m + 1) = Append(Until(m), x) /\ Until(m) \in Seq(Nat)
  BY <1>5, <1>6, <1>7, NextLatency DEF Until
<1>10. Held(histogram'.avg, Until(m + 1))
  <2>1. histogram.avg \in [0..histogram_size - 1 -> Nat]
    BY <1>5
  <2>2. Held([histogram.avg EXCEPT ![Cell(x)] = @ + 1], Append(Until(m), x))
    BY <1>6, <1>9, <2>1, HeldGrows, Zenon
  <2>3. QED
    BY <1>8, <1>9, <2>2, Zenon
<1>11. PICK e \in Nat : e = m + 1 /\ e = Len(dts)
  BY <1>5, <1>6
<1>12. SamplesHeld(e)'
  <2>1. Until(e)' = Until(e) /\ e <= Len(dts')
    BY <1>3, <1>5, <1>11 DEF Until
  <2>2. Held(histogram'.avg, Until(e)')
    BY <1>10, <1>11, <2>1
  <2>3. QED
    BY <1>3, <1>4, <1>5, <1>11, <2>1, <2>2 DEF SamplesHeld
<1>13. PeriodsHeld(k)'
  BY <1>2, <1>3, <1>4, <1>5, <1>8, PeriodsAsBefore DEF PeriodsHeld
<1>14. QED
  BY <1>12, <1>13 DEF HistogramInv

\* The extremes the program counts are those of the period that has ended.
LEMMA ExtremesOfPeriod ==
  ASSUME TypeOK, PlaceInv, PeriodInv, smp = "add_extremes"
  PROVE  /\ ~ warmup /\ test_loops \in Nat \ {0} /\ Measured = test_loops
         /\ local.maxj = MaxOf(Period(test_loops)) /\ local.minj = MinOf(Period(test_loops))
         /\ local.maxj \in Nat /\ local.minj \in Nat
<1>1. ~ warmup /\ local.count = nsamples /\ nsamples \in Nat \ {0}
  BY SamplesPerPeriod DEF PlaceInv
<1>2. /\ Begun \in Nat /\ test_loops \in Nat \ {0} /\ Len(dts) = Begun + nsamples
      /\ dts \in Seq(Nat)
  BY <1>1, BegunIs
<1>3. Measured = test_loops
  BY <1>1, MeasuredIs
<1>4. Of(test_loops) = {dts[i] : i \in Begun + 1..Len(dts)}
  <2>1. test_loops * nsamples = (test_loops - 1) * nsamples + nsamples
    BY <1>2, <1>3, PeriodBounds
  <2>2. QED
    BY <1>2, <2>1 DEF Of, Begun
<1>5. Lowest(local.minj, Of(test_loops)) /\ Highest(local.maxj, Of(test_loops))
  BY <1>1, <1>4 DEF PeriodInv
<1>6. local.maxj = MaxOf(Period(test_loops)) /\ local.minj = MinOf(Period(test_loops))
  BY <1>2, <1>3, <1>5, ExtremesOfParts
<1>7. local.minj \in Int /\ local.maxj \in Int /\ TEN_MILLIONS \in Nat
  BY TypeParts, WordAssumption DEF SamplerType, LocalType, Int32
<1>8. dts[Len(dts)] \in Nat /\ dts[Len(dts)] \in Of(test_loops) /\ Of(test_loops) \subseteq Nat
  <2>1. Len(dts) \in Begun + 1..Len(dts) /\ \A i \in Begun + 1..Len(dts) : i \in 1..Len(dts)
    BY <1>1, <1>2
  <2>2. QED
    BY <1>2, <1>4, <2>1
<1>9. local.maxj \in Nat
  <2>1. local.maxj >= dts[Len(dts)]
    BY <1>5, <1>8 DEF Highest
  <2>2. QED
    BY <1>7, <1>8, <2>1
<1>10. local.minj \in Nat
  BY <1>5, <1>7, <1>8 DEF Lowest
<1>11. QED
  BY <1>1, <1>2, <1>3, <1>6, <1>9, <1>10

LEMMA AddExtremesHeld ==
  ASSUME TypeOK, PlaceInv, PeriodInv, HistogramInv, AddExtremes
  PROVE  HistogramInv'
<1>1. PICK m \in Nat : SamplesHeld(m)
  BY DEF HistogramInv
<1>2. PICK k \in Nat : PeriodsHeld(k)
  BY DEF HistogramInv
<1>3. /\ smp = "add_extremes" /\ smp' = "store" /\ UNCHANGED <<dts, warmup, test_loops>>
      /\ histogram' = [histogram EXCEPT !.max[Cell(local.maxj)] = @ + 1,
                                        !.min[Cell(local.minj)] = @ + 1]
      /\ UNCHANGED need_histo /\ UNCHANGED finished
  BY DEF AddExtremes, options, mainv
<1>4. /\ ~ warmup /\ test_loops \in Nat \ {0} /\ Measured = test_loops
      /\ local.maxj = MaxOf(Period(test_loops)) /\ local.minj = MinOf(Period(test_loops))
      /\ local.maxj \in Nat /\ local.minj \in Nat
  BY <1>3, ExtremesOfPeriod
<1>5. dts \in Seq(Nat) /\ Extends(dts', dts)
  BY <1>3, TypeParts DEF SamplerType, Extends
<1>6. /\ histogram \in [{"avg", "min", "max"} -> [0..histogram_size - 1 -> Nat]]
      /\ histogram.max \in [0..histogram_size - 1 -> Nat]
      /\ histogram.min \in [0..histogram_size - 1 -> Nat]
  BY TypeParts DEF HistoType
<1>7. PICK e \in Nat : e = test_loops /\ e = k + 1 /\ e <= Measured
  BY <1>2, <1>3, <1>4 DEF PeriodsHeld
<1>8. PICK x \in Nat : x = local.maxj /\ x = MaxOf(Period(e))
  BY <1>4, <1>7
<1>9. PICK y \in Nat : y = local.minj /\ y = MinOf(Period(e))
  BY <1>4, <1>7
<1>10. Held(histogram.max, Maxima(k)) /\ Held(histogram.min, Minima(k))
       /\ Maxima(k) \in Seq(Nat) /\ Minima(k) \in Seq(Nat)
  BY <1>2 DEF PeriodsHeld, Held
<1>11. /\ histogram'.max = [histogram.max EXCEPT ![Cell(x)] = @ + 1]
       /\ histogram'.min = [histogram.min EXCEPT ![Cell(y)] = @ + 1]
       /\ histogram'.avg = histogram.avg
  BY <1>3, <1>6, <1>8, <1>9
<1>12. Maxima(e) = Append(Maxima(k), x) /\ Minima(e) = Append(Minima(k), y)
  <2>1. \A j \in 1..k + 1 : j \in 1..k \/ j = k + 1
    OBVIOUS
  <2>2. Len(Maxima(k)) = k /\ Len(Minima(k)) = k
    BY DEF Maxima, Minima
  <2>3. /\ \A j \in 1..k + 1 : Append(Maxima(k), x)[j] = MaxOf(Period(j))
        /\ \A j \in 1..k + 1 : Append(Minima(k), y)[j] = MinOf(Period(j))
    <3>1. /\ \A j \in 1..k : Append(Maxima(k), x)[j] = Maxima(k)[j]
          /\ \A j \in 1..k : Append(Minima(k), y)[j] = Minima(k)[j]
          /\ Append(Maxima(k), x)[k + 1] = x /\ Append(Minima(k), y)[k + 1] = y
      BY <1>10, <2>2
    <3>2. /\ \A j \in 1..k : Maxima(k)[j] = MaxOf(Period(j))
          /\ \A j \in 1..k : Minima(k)[j] = MinOf(Period(j))
      BY DEF Maxima, Minima
    <3>3. QED
      BY <1>7, <1>8, <1>9, <2>1, <3>1, <3>2
  <2>4. /\ Append(Maxima(k), x) = [j \in 1..k + 1 |-> Append(Maxima(k), x)[j]]
        /\ Append(Minima(k), y) = [j \in 1..k + 1 |-> Append(Minima(k), y)[j]]
    <3>1. /\ Append(Maxima(k), x) \in Seq(Nat) /\ Len(Append(Maxima(k), x)) = k + 1
          /\ Append(Minima(k), y) \in Seq(Nat) /\ Len(Append(Minima(k), y)) = k + 1
      BY <1>10, <2>2
    <3>2. \A t \in Seq(Nat) : t = [j \in 1..Len(t) |-> t[j]]
      OBVIOUS
    <3>3. QED
      BY <3>1, <3>2, Zenon
  <2>5. QED
    BY <1>7, <2>3, <2>4 DEF Maxima, Minima
<1>13. Held(histogram'.max, Maxima(e)) /\ Held(histogram'.min, Minima(e))
  <2>1. Held([histogram.max EXCEPT ![Cell(x)] = @ + 1], Append(Maxima(k), x))
    BY <1>6, <1>10, HeldGrows, Zenon
  <2>2. Held([histogram.min EXCEPT ![Cell(y)] = @ + 1], Append(Minima(k), y))
    BY <1>6, <1>10, HeldGrows, Zenon
  <2>3. QED
    BY <1>11, <1>12, <2>1, <2>2, Zenon
<1>14. PeriodsHeld(e)'
  <2>1. Measured' = Measured /\ Maxima(e)' = Maxima(e) /\ Minima(e)' = Minima(e)
    <3>1. \A j \in 1..e : Period(j)' = Period(j)
      BY <1>3 DEF Period
    <3>2. \A j \in 1..e : MaxOf(Period(j))' = MaxOf(Period(j)) /\ MinOf(Period(j))' = MinOf(Period(j))
      BY <3>1 DEF MaxOf, MinOf
    <3>3. QED
      BY <1>3, <3>2 DEF Measured, Maxima, Minima
  <2>2. Held(histogram'.max, Maxima(e)') /\ Held(histogram'.min, Minima(e)')
    BY <1>13, <2>1
  <2>3. QED
    BY <1>3, <1>4, <1>7, <2>1, <2>2 DEF PeriodsHeld
<1>15. SamplesHeld(m)'
  BY <1>1, <1>3, <1>5, <1>11, SamplesAsBefore DEF SamplesHeld
<1>16. QED
  BY <1>14, <1>15 DEF HistogramInv

\* What the other steps keep.
LEMMA HistogramElse ==
  ASSUME StartInv, PlaceInv, Main \/ Sampler \/ Display, ~ AddSample, ~ AddExtremes
  PROVE  histogram' = histogram
<1>1. CASE Main \/ Display
  BY <1>1, MainKeepsOthers, DisplayKeepsOthers DEF histov
<1>2. CASE Sampler
  BY <1>2, Zenon DEF Sampler, Start, LoopTop, Sample, WaitFails, sigdebug, Freeze, CheckSample,
     CheckExtremes, Store, WarmUpEnds, histov
<1>3. QED
  BY <1>1, <1>2

\* The place of the sampler says what is counted, also after each of them.
LEMMA PlaceOfCounts ==
  ASSUME InTime, TypeOK, StartInv, PlaceInv, ReleaseInv, LateInv, Main \/ Sampler \/ Display,
         ~ AddSample, ~ AddExtremes,
         NEW m \in Nat, SamplesHeld(m), NEW k \in Nat, PeriodsHeld(k)
  PROVE  /\ need_histo' /\ ~ finished' /\ ~ warmup' =>
              m = IF smp' \in {"freeze", "check", "add"} THEN Len(dts') - 1 ELSE Len(dts')
         /\ smp' = "add" => m = Len(dts') - 1
         /\ need_histo' /\ ~ finished' /\ ~ warmup' =>
              k = IF smp' \in {"loop", "store"} THEN test_loops' ELSE test_loops' - 1
         /\ smp' = "add_extremes" => k = test_loops' - 1
<1>1. need_histo' = need_histo /\ (finished => finished') /\ need_histo \in BOOLEAN
      /\ finished \in BOOLEAN /\ warmup \in BOOLEAN
  BY Finishes, Zenon DEF TypeOK
<1>2. dts \in Seq(Nat) /\ Len(dts) \in Nat /\ test_loops \in Nat
  BY TypeParts DEF SamplerType
<1>3. CASE Main \/ Display \/ WaitFails \/ sigdebug
  <2>1. /\ UNCHANGED <<warmup, test_loops, dts>>
        /\ smp' = smp \/ (smp = "unborn" /\ smp' = "start")
    <3>1. CASE Main
      BY <3>1, MainStarts DEF smpv
    <3>2. CASE Display
      BY <3>2, DisplayKeepsOthers DEF smpv
    <3>3. CASE WaitFails \/ sigdebug
      BY <3>3, Zenon DEF WaitFails, sigdebug, smpv
    <3>4. QED
      BY <1>3, <3>1, <3>2, <3>3
  <2>2. smp = "unborn" => warmup
    BY DEF PlaceInv
  <2>3. QED
    BY <1>1, <2>1, <2>2 DEF SamplesHeld, PeriodsHeld
<1>4. CASE Start
  <2>1. warmup /\ UNCHANGED warmup /\ smp' \in {"loop", "ended"}
    BY <1>4 DEF Start, PlaceInv
  <2>2. QED
    BY <2>1
<1>5. CASE LoopTop
  <2>1. smp = "loop" /\ smp' = "wait" /\ UNCHANGED <<warmup, dts>> /\ test_loops' = test_loops + 1
    BY <1>5 DEF LoopTop
  <2>2. QED
    BY <1>1, <1>2, <2>1 DEF SamplesHeld, PeriodsHeld
<1>6. CASE Sample
  <2>1. PICK x \in 0..Half - 1 : Taken(x)
    BY <1>6, SampleInTime
  <2>2. x \in Nat /\ smp = "wait" /\ smp' \in {"freeze", "check"} /\ UNCHANGED <<warmup, test_loops>>
    BY <1>6, <2>1, WordAssumption DEF Sample
  <2>3. ~ warmup => Len(dts') = Len(dts) + 1
    BY <1>2, <2>1, <2>2 DEF Taken
  <2>4. QED
    BY <1>1, <1>2, <2>2, <2>3 DEF SamplesHeld, PeriodsHeld
<1>7. CASE Freeze
  <2>1. smp = "freeze" /\ smp' = "check" /\ UNCHANGED <<warmup, dts, test_loops>>
    BY <1>7 DEF Freeze
  <2>2. QED
    BY <1>1, <2>1 DEF SamplesHeld, PeriodsHeld
<1>8. CASE CheckSample
  <2>1. /\ smp = "check" /\ smp' = IF Recording THEN "add" ELSE AfterSample
        /\ UNCHANGED <<warmup, dts, test_loops>> /\ UNCHANGED finished
    BY <1>8 DEF CheckSample, mainv
  <2>2. AfterSample \in {"wait", "warm", "check_extremes"}
    BY DEF AfterSample
  <2>3. CASE Recording
    <3>1. ~ finished /\ ~ warmup /\ need_histo /\ smp' = "add"
      BY <2>1, <2>3 DEF Recording
    <3>2. QED
      BY <1>1, <2>1, <3>1 DEF SamplesHeld, PeriodsHeld
  <2>4. CASE ~ Recording
    BY <1>1, <2>1, <2>2, <2>4 DEF Recording
  <2>5. QED
    BY <2>3, <2>4
<1>9. CASE CheckExtremes
  <2>1. /\ smp = "check_extremes" /\ smp' = IF Recording THEN "add_extremes" ELSE "store"
        /\ UNCHANGED <<warmup, dts, test_loops>> /\ UNCHANGED finished
    BY <1>9 DEF CheckExtremes, mainv
  <2>2. CASE Recording
    <3>1. ~ finished /\ ~ warmup /\ need_histo /\ smp' = "add_extremes"
      BY <2>1, <2>2 DEF Recording
    <3>2. QED
      BY <1>1, <2>1, <3>1 DEF SamplesHeld, PeriodsHeld
  <2>3. CASE ~ Recording
    BY <1>1, <2>1, <2>3 DEF Recording
  <2>4. QED
    BY <2>2, <2>3
<1>10. CASE Store
  <2>1. smp = "store" /\ smp' \in {"loop", "store"} /\ UNCHANGED <<warmup, dts, test_loops>>
    BY <1>10 DEF Store
  <2>2. QED
    BY <1>1, <2>1 DEF SamplesHeld, PeriodsHeld
<1>11. CASE WarmUpEnds
  <2>1. smp = "warm" /\ smp' = "loop" /\ UNCHANGED dts /\ warmup
    BY <1>11 DEF WarmUpEnds, PlaceInv
  <2>2. warmup' = warmup \/ test_loops' = 0
    BY <1>11 DEF WarmUpEnds, LoopsReset
  <2>3. dts = <<>> /\ Measured = 0
    BY <2>1, MeasuredIs DEF PlaceInv
  <2>4. m = Len(dts') /\ k = 0
    BY <2>1, <2>3 DEF SamplesHeld, PeriodsHeld
  <2>5. QED
    BY <2>1, <2>2, <2>4
<1>12. QED
  BY <1>3, <1>4, <1>5, <1>6, <1>7, <1>8, <1>9, <1>10, <1>11 DEF Sampler

LEMMA HistogramInit == Init => HistogramInv
<1> SUFFICES ASSUME Init PROVE HistogramInv
  OBVIOUS
<1> DEFINE zero == [c \in 0..histogram_size - 1 |-> 0]
<1>1. /\ smp = "unborn" /\ warmup /\ dts = <<>>
      /\ histogram = [h \in {"avg", "min", "max"} |-> zero]
  BY DEF Init
<1>2. histogram.avg = zero /\ histogram.max = zero /\ histogram.min = zero
  BY <1>1
<1>3. Held(zero, <<>>)
  <2>1. <<>> \in Seq(Nat) /\ Len(<<>>) = 0
    OBVIOUS
  <2>2. QED
    BY <2>1, NoCounts, NoHits DEF Held
<1> HIDE DEF zero
<1>4. Until(0) = <<>> /\ Maxima(0) = <<>> /\ Minima(0) = <<>>
  BY <1>1 DEF Until, Maxima, Minima
<1>5. TypeOK /\ PlaceInv
  BY AnyTimeInit DEF AnyTimeInv
<1>6. 0 \in Nat /\ 0 <= Len(dts) /\ 0 <= Measured
  BY <1>1, <1>5, MeasuredIs
<1>7. SamplesHeld(0) /\ PeriodsHeld(0)
  BY <1>1, <1>2, <1>3, <1>4, <1>6 DEF SamplesHeld, PeriodsHeld
<1>8. QED
  BY <1>6, <1>7 DEF HistogramInv

LEMMA HistogramStep ==
  InTime /\ InTimeInv /\ HistogramInv /\ [Next]_vars => HistogramInv'
<1> SUFFICES ASSUME InTime, InTimeInv, HistogramInv, [Next]_vars PROVE HistogramInv'
  OBVIOUS
<1>1. TypeOK /\ StartInv /\ PlaceInv /\ ReleaseInv /\ LateInv /\ PeriodInv
  BY DEF InTimeInv, AnyTimeInv
<1>2. CASE AddSample
  BY <1>1, <1>2, AddSampleHeld
<1>3. CASE AddExtremes
  BY <1>1, <1>3, AddExtremesHeld
<1>4. PICK m \in Nat : SamplesHeld(m)
  BY DEF HistogramInv
<1>5. PICK k \in Nat : PeriodsHeld(k)
  BY DEF HistogramInv
<1>6. CASE (Main \/ Sampler \/ Display) /\ ~ AddSample /\ ~ AddExtremes
  <2>1. Extends(dts', dts) /\ histogram' = histogram
    BY <1>1, <1>6, DtsGrow, HistogramElse
  <2>2. /\ need_histo' /\ ~ finished' /\ ~ warmup' =>
             m = IF smp' \in {"freeze", "check", "add"} THEN Len(dts') - 1 ELSE Len(dts')
        /\ smp' = "add" => m = Len(dts') - 1
        /\ need_histo' /\ ~ finished' /\ ~ warmup' =>
             k = IF smp' \in {"loop", "store"} THEN test_loops' ELSE test_loops' - 1
        /\ smp' = "add_extremes" => k = test_loops' - 1
    BY <1>1, <1>4, <1>5, <1>6, PlaceOfCounts
  <2>3. SamplesHeld(m)' /\ PeriodsHeld(k)'
    BY <1>1, <1>4, <1>5, <2>1, <2>2, SamplesAsBefore, PeriodsAsBefore
  <2>4. QED
    BY <2>3 DEF HistogramInv
<1>7. CASE UNCHANGED vars
  <2>1. UNCHANGED <<dts, histogram, need_histo, finished, warmup, smp, test_loops>>
    BY <1>7, Zenon DEF vars, options, mainv, smpv, histov
  <2>2. Extends(dts', dts)
    BY <1>1, <2>1, TypeParts DEF SamplerType, Extends
  <2>3. /\ need_histo' /\ ~ finished' /\ ~ warmup' =>
             m = IF smp' \in {"freeze", "check", "add"} THEN Len(dts') - 1 ELSE Len(dts')
        /\ smp' = "add" => m = Len(dts') - 1
    BY <1>4, <2>1 DEF SamplesHeld
  <2>4. /\ need_histo' /\ ~ finished' /\ ~ warmup' =>
             k = IF smp' \in {"loop", "store"} THEN test_loops' ELSE test_loops' - 1
        /\ smp' = "add_extremes" => k = test_loops' - 1
    BY <1>5, <2>1 DEF PeriodsHeld
  <2>5. SamplesHeld(m)' /\ PeriodsHeld(k)'
    BY <1>1, <1>4, <1>5, <2>1, <2>2, <2>3, <2>4, SamplesAsBefore, PeriodsAsBefore
  <2>6. QED
    BY <2>5 DEF HistogramInv
<1>8. QED
  BY <1>2, <1>3, <1>6, <1>7 DEF Next, Terminated

\* What main dumps is exact: the histogram of all samples is that of the first ones
\* since the warm-up, without a gap and each in its bucket, and the others are those of
\* the extremes of the first periods; and before the signal, nothing but the sample and
\* the period at hand is missing (add_histogram and latency, altency.c).  This is for
\* every number and size of buckets, in a test whose samples are in time.
THEOREM HistogramsAreExact == ASSUME InTime PROVE Spec => []HistogramsExact
<1>1. InTimeInv /\ HistogramInv => HistogramsExact
  <2> SUFFICES ASSUME InTimeInv, HistogramInv PROVE HistogramsExact
    OBVIOUS
  <2>1. TypeOK /\ PlaceInv
    BY DEF InTimeInv, AnyTimeInv
  <2>2. PICK m \in Nat : SamplesHeld(m)
    BY DEF HistogramInv
  <2>3. PICK k \in Nat : PeriodsHeld(k)
    BY DEF HistogramInv
  <2>4. /\ Len(dts) \in Nat /\ Measured \in Nat /\ dts \in Seq(Nat) /\ test_loops \in Nat
        /\ warmup => Measured = 0 /\ Len(dts) = 0
        /\ ~ warmup => Measured <= test_loops
    BY <2>1, MeasuredIs, TypeParts DEF SamplerType, PlaceInv
  <2>5. Hits(histogram.avg) = m
    <3>1. Len(Until(m)) = m
      BY <2>2, <2>4 DEF Until, SamplesHeld
    <3>2. QED
      BY <2>2, <3>1 DEF SamplesHeld, Held
  <2>6. Hits(histogram.max) = k
    <3>1. Len(Maxima(k)) = k
      BY DEF Maxima
    <3>2. QED
      BY <2>3, <3>1 DEF PeriodsHeld, Held
  <2>7. m <= Len(dts) /\ k <= Measured
    BY <2>2, <2>3 DEF SamplesHeld, PeriodsHeld
  <2>8. need_histo /\ ~ finished => m >= Len(dts) - 1 /\ k >= Measured - 1
    BY <2>2, <2>3, <2>4 DEF SamplesHeld, PeriodsHeld
  <2>9. /\ histogram.avg = Counts(Until(m)) /\ histogram.max = Counts(Maxima(k))
        /\ histogram.min = Counts(Minima(k))
    BY <2>2, <2>3 DEF SamplesHeld, PeriodsHeld, Held
  <2>10. QED
    BY <2>5, <2>6, <2>7, <2>8, <2>9 DEF HistogramsExact, Maxima, Minima
<1>2. QED
  BY <1>1, InTimeInit, InTimeStep, HistogramInit, HistogramStep, PTL DEF Spec
=============================================================================
