-------------------------- MODULE BootstrapProofs --------------------------
(***************************************************************************)
(* Safety of the bootstrap code for every command line and every size of   *)
(* its first buffer: the vector it builds is the one the process was given,*)
(* it stays in its buffers and leaks nothing, and main works with what     *)
(* xenomai_init left.                                                      *)
(***************************************************************************)
EXTENDS Bootstrap, WellFoundedInduction, TLAPS

Byte   == Nat \ {0}
String == Seq(Byte)

(***************************************************************************)
(* Recursive functions: what holds of 0, and of k if of k - 1, holds of    *)
(* all, since it cannot fail first anywhere.                               *)
(***************************************************************************)
LEMMA LeastNatural ==
  ASSUME NEW T, T \subseteq Nat, T # {}
  PROVE  \E m \in T : \A l \in T : m <= l
<1> DEFINE R == OpToRel(<, Nat)
<1>1. IsWellFoundedOn(R, Nat)
  BY NatLessThanWellFounded
<1>2. \A x, y \in Nat : x < y => <<x, y>> \in R
  BY Zenon DEF OpToRel
<1> HIDE DEF R
<1>3. PICK m \in T : \A l \in T : ~ (<<l, m>> \in R)
  BY <1>1, WFMin
<1>4. ASSUME NEW l \in T PROVE m <= l
  <2>1. m \in Nat /\ l \in Nat
    OBVIOUS
  <2>2. ~ (l < m)
    BY <1>2, <1>3, <2>1
  <2>3. QED
    BY <2>1, <2>2
<1>5. QED
  BY <1>4

LEMMA AllOf ==
  ASSUME NEW N \in Nat, NEW T, T \subseteq 0..N, 0 \in T, \A k \in 1..N : k - 1 \in T => k \in T
  PROVE  \A k \in 0..N : k \in T
<1> DEFINE Rest == (0..N) \ T
<1>1. SUFFICES ASSUME Rest # {} PROVE FALSE
  OBVIOUS
<1>2. Rest \subseteq Nat
  OBVIOUS
<1>3. PICK m \in Rest : \A l \in Rest : m <= l
  BY <1>1, <1>2, LeastNatural
<1>4. m \in 1..N /\ m - 1 \in 0..N /\ m - 1 \notin Rest
  BY <1>3
<1>5. QED
  BY <1>3, <1>4

\* Values of S each of which is made by step from the one before it exist.
MadeBy(f, base, step, N) == f[0] = base /\ \A k \in 1..N : f[k] = step[<<f[k - 1], k>>]

LEMMA Recursion ==
  ASSUME NEW N \in Nat, NEW S, NEW base \in S, NEW step \in [S \X (1..N) -> S]
  PROVE  \E f \in [0..N -> S] : MadeBy(f, base, step, N)
<1> DEFINE Good(f, m) == MadeBy(f, base, step, m)
           T == {m \in 0..N : \E f \in [0..m -> S] : Good(f, m)}
<1>1. 0 \in T
  <2> DEFINE h == [k \in 0..0 |-> base]
  <2>1. h \in [0..0 -> S] /\ Good(h, 0)
    BY DEF MadeBy
  <2> HIDE DEF h, Good
  <2>2. QED
    BY <2>1
<1>2. ASSUME NEW m \in 1..N, m - 1 \in T PROVE m \in T
  <2>1. PICK f \in [0..m - 1 -> S] : Good(f, m - 1)
    BY <1>2
  <2> DEFINE h == [k \in 0..m |-> IF k = m THEN step[<<f[m - 1], m>>] ELSE f[k]]
  <2>2. f[m - 1] \in S
    BY <1>2
  <2>3. step[<<f[m - 1], m>>] \in S
    BY <2>2
  <2>4. h \in [0..m -> S]
    BY <2>3
  <2>5. h[0] = base /\ h[m - 1] = f[m - 1] /\ h[m] = step[<<f[m - 1], m>>]
    BY <2>1 DEF MadeBy
  <2>6. \A k \in 1..m - 1 : h[k] = f[k] /\ h[k - 1] = f[k - 1]
    OBVIOUS
  <2>7. \A k \in 1..m : k = m \/ k \in 1..m - 1
    OBVIOUS
  <2> HIDE DEF h
  <2>8. Good(h, m)
    BY <2>1, <2>5, <2>6, <2>7 DEF MadeBy
  <2>9. QED
    BY <2>4, <2>8
<1>3. T \subseteq 0..N
  OBVIOUS
<1> HIDE DEF T
<1>4. N \in T
  <2>1. \A k \in 1..N : k - 1 \in T => k \in T
    BY <1>2
  <2>2. \A k \in 0..N : k \in T
    BY <1>1, <1>3, <2>1, AllOf, Zenon
  <2>3. QED
    BY <2>2
<1>5. QED
  BY <1>4 DEF T

LEMMA SameSequence ==
  ASSUME NEW S, NEW s \in Seq(S), NEW t \in Seq(S), Len(s) = Len(t),
         \A i \in 1..Len(s) : s[i] = t[i]
  PROVE  s = t
OBVIOUS

(***************************************************************************)
(* The command line as bytes                                               *)
(***************************************************************************)
\* String k is in bytes, with its NUL, from after e[k - 1] to e[k].
Layout(e, s, bytes) ==
  /\ e[0] = 0 /\ e[Len(s)] = Len(bytes)
  /\ \A k \in 1..Len(s) :
       /\ e[k] = e[k - 1] + Len(s[k]) + 1 /\ e[k] <= Len(bytes)
       /\ \A j \in 1..Len(s[k]) : bytes[e[k - 1] + j] = s[k][j]
       /\ bytes[e[k]] = NUL

LEMMA StringType ==
  ASSUME NEW t \in String
  PROVE  t \in Seq(Nat) /\ Len(t) \in Nat
<1>1. Len(t) \in Nat /\ t = [i \in 1..Len(t) |-> t[i]] /\ \A i \in 1..Len(t) : t[i] \in Byte
  BY DEF String
<1>2. \A i \in 1..Len(t) : t[i] \in Nat
  BY <1>1 DEF Byte
<1>3. [i \in 1..Len(t) |-> t[i]] \in Seq(Nat)
  BY <1>1, <1>2
<1>4. QED
  BY <1>1, <1>3

LEMMA OneMoreString ==
  ASSUME NEW b \in Seq(Nat), NEW t \in String
  PROVE  LET c == b \o t \o <<NUL>>
         IN /\ c \in Seq(Nat) /\ Len(c) = Len(b) + Len(t) + 1
            /\ \A i \in 1..Len(b) : c[i] = b[i]
            /\ \A j \in 1..Len(t) : c[Len(b) + j] = t[j]
            /\ c[Len(c)] = NUL
<1> DEFINE a == b \o t
<1>0. t \in Seq(Nat) /\ Len(t) \in Nat /\ Len(b) \in Nat
  BY StringType
<1>1. a \in Seq(Nat) /\ Len(a) = Len(b) + Len(t)
  BY <1>0
<1>2. /\ \A i \in 1..Len(b) : a[i] = b[i]
      /\ \A j \in 1..Len(t) : a[Len(b) + j] = t[j]
  BY <1>0
<1> HIDE DEF a
<1> DEFINE c == a \o <<NUL>>
<1>3. /\ c \in Seq(Nat) /\ Len(c) = Len(a) + 1 /\ c[Len(a) + 1] = NUL
      /\ \A i \in 1..Len(a) : c[i] = a[i]
  BY <1>1 DEF NUL
<1> HIDE DEF c
<1>4. \A j \in 1..Len(t) : Len(b) + j \in 1..Len(a)
  BY <1>0, <1>1
<1>5. 1..Len(b) \subseteq 1..Len(a)
  BY <1>0, <1>1
<1>6. /\ c \in Seq(Nat) /\ Len(c) = Len(b) + Len(t) + 1
      /\ \A i \in 1..Len(b) : c[i] = b[i]
      /\ \A j \in 1..Len(t) : c[Len(b) + j] = t[j]
      /\ c[Len(c)] = NUL
  BY <1>1, <1>2, <1>3, <1>4, <1>5
<1>7. QED
  BY <1>6 DEF c, a

LEMMA CmdlineIs ==
  ASSUME NEW s \in Seq(String)
  PROVE  \E b \in [0..Len(s) -> Seq(Nat)] :
           /\ Cmdline(s) = b[Len(s)] /\ b[0] = <<>>
           /\ \A k \in 1..Len(s) : b[k] = b[k - 1] \o s[k] \o <<NUL>>
<1> DEFINE N == Len(s)
           S == Seq(Nat)
           step == [x \in S \X (1..N) |-> x[1] \o s[x[2]] \o <<NUL>>]
           D(b) == [k \in 0..N |-> IF k = 0 THEN <<>> ELSE b[k - 1] \o s[k] \o <<NUL>>]
           bytes == CHOOSE b : b = D(b)
<1>0. N \in Nat /\ <<>> \in S /\ \A k \in 1..N : s[k] \in String
  OBVIOUS
<1>1. \A x \in S, k \in 1..N : x \o s[k] \o <<NUL>> \in S
  BY <1>0, OneMoreString
<1>2. step \in [S \X (1..N) -> S]
  BY <1>1
<1>3. \A x \in S, k \in 1..N : step[<<x, k>>] = x \o s[k] \o <<NUL>>
  OBVIOUS
<1>4. Cmdline(s) = bytes[N]
  BY DEF Cmdline
<1> HIDE DEF step, N, S
<1>5. PICK f \in [0..N -> S] : f[0] = <<>> /\ \A k \in 1..N : f[k] = step[<<f[k - 1], k>>]
  <2>1. \E f \in [0..N -> S] : MadeBy(f, <<>>, step, N)
    BY <1>0, <1>2, Recursion
  <2>2. QED
    BY <2>1 DEF MadeBy
<1>6. \A k \in 1..N : f[k] = f[k - 1] \o s[k] \o <<NUL>>
  <2> TAKE k \in 1..N
  <2>1. f[k - 1] \in S
    BY <1>0, <1>5
  <2>2. QED
    BY <1>3, <1>5, <2>1
<1>7. f = D(f)
  <2>1. \A k \in 0..N : f[k] = IF k = 0 THEN <<>> ELSE f[k - 1] \o s[k] \o <<NUL>>
    <3>1. \A k \in 0..N : k = 0 \/ k \in 1..N
      BY <1>0
    <3>2. QED
      BY <1>5, <1>6, <3>1
  <2>2. f = [k \in 0..N |-> f[k]]
    BY <1>5
  <2>3. QED
    BY <2>1, <2>2, Zenon
<1>8. bytes = D(bytes)
  BY <1>7
<1> HIDE DEF bytes
<1>9. bytes[0] = <<>> /\ \A k \in 1..N : bytes[k] = bytes[k - 1] \o s[k] \o <<NUL>>
  <2>1. \A k \in 0..N : bytes[k] = IF k = 0 THEN <<>> ELSE bytes[k - 1] \o s[k] \o <<NUL>>
    BY <1>8, Zenon
  <2>2. 0 \in 0..N /\ \A k \in 1..N : k \in 0..N /\ k # 0
    BY <1>0
  <2>3. QED
    BY <2>1, <2>2, Zenon
<1>10. \A k \in 0..N : bytes[k] \in S
  <2> DEFINE T == {k \in 0..N : bytes[k] \in S}
  <2>1. T \subseteq 0..N /\ 0 \in T
    BY <1>0, <1>9
  <2>2. ASSUME NEW k \in 1..N, k - 1 \in T PROVE k \in T
    <3>1. k \in 0..N /\ bytes[k - 1] \in S
      BY <1>0, <2>2
    <3>2. bytes[k] \in S
      BY <1>1, <1>9, <3>1, Zenon
    <3>3. QED
      BY <3>1, <3>2
  <2> HIDE DEF T
  <2>3. \A k \in 0..N : k \in T
    BY <1>0, <2>1, <2>2, AllOf
  <2>4. QED
    BY <2>3 DEF T
<1>11. bytes \in [0..N -> S]
  BY <1>8, <1>10
<1>12. QED
  BY <1>4, <1>9, <1>11 DEF N, S

LEMMA CmdlineLayout ==
  ASSUME NEW s \in Seq(String)
  PROVE  /\ Cmdline(s) \in Seq(Nat)
         /\ \E e \in [0..Len(s) -> Nat] : Layout(e, s, Cmdline(s))
<1> DEFINE N == Len(s)
<1>1. PICK b \in [0..N -> Seq(Nat)] :
        /\ Cmdline(s) = b[N] /\ b[0] = <<>>
        /\ \A k \in 1..N : b[k] = b[k - 1] \o s[k] \o <<NUL>>
  BY CmdlineIs
<1> DEFINE e == [k \in 0..N |-> Len(b[k])]
           Holds(m) == \A k \in 1..m :
             /\ e[k] <= e[m] /\ \A j \in 1..Len(s[k]) : b[m][e[k - 1] + j] = s[k][j]
             /\ b[m][e[k]] = NUL
           T == {m \in 0..N : Holds(m)}
<1>2. /\ N \in Nat /\ e \in [0..N -> Nat] /\ e[0] = 0
      /\ \A k \in 0..N : e[k] = Len(b[k]) /\ b[k] \in Seq(Nat)
      /\ \A k \in 1..N : s[k] \in String /\ Len(s[k]) \in Nat
  <2>1. N \in Nat /\ \A k \in 1..N : s[k] \in String /\ Len(s[k]) \in Nat
    BY DEF String
  <2>2. \A k \in 0..N : b[k] \in Seq(Nat) /\ Len(b[k]) \in Nat
    BY <1>1
  <2>3. Len(b[0]) = 0
    BY <1>1
  <2>4. QED
    BY <2>1, <2>2, <2>3
<1> HIDE DEF N, e
<1>3. ASSUME NEW m \in 1..N
      PROVE  /\ e[m] = e[m - 1] + Len(s[m]) + 1
             /\ \A i \in 1..e[m - 1] : b[m][i] = b[m - 1][i]
             /\ \A j \in 1..Len(s[m]) : b[m][e[m - 1] + j] = s[m][j]
             /\ b[m][e[m]] = NUL
  <2>1. m - 1 \in 0..N /\ m \in 0..N
    BY <1>2
  <2>2. b[m] = b[m - 1] \o s[m] \o <<NUL>> /\ b[m - 1] \in Seq(Nat) /\ s[m] \in String
    BY <1>1, <1>2, <2>1
  <2>3. e[m] = Len(b[m]) /\ e[m - 1] = Len(b[m - 1])
    BY <1>2, <2>1
  <2> DEFINE c == b[m - 1] \o s[m] \o <<NUL>>
  <2>4. /\ Len(c) = Len(b[m - 1]) + Len(s[m]) + 1
        /\ \A i \in 1..Len(b[m - 1]) : c[i] = b[m - 1][i]
        /\ \A j \in 1..Len(s[m]) : c[Len(b[m - 1]) + j] = s[m][j]
        /\ c[Len(c)] = NUL
    BY <2>2, OneMoreString, Zenon
  <2>5. b[m] = c
    BY <2>2
  <2> HIDE DEF c
  <2>6. QED
    BY <2>3, <2>4, <2>5
<1>4. \A k \in 1..N : e[k] \in Nat /\ e[k - 1] \in Nat /\ e[k] >= 1
                      /\ \A j \in 1..Len(s[k]) : e[k - 1] + j \in 1..e[k]
  <2> TAKE k \in 1..N
  <2>1. k - 1 \in 0..N /\ k \in 0..N
    BY <1>2
  <2>2. e[k] \in Nat /\ e[k - 1] \in Nat /\ Len(s[k]) \in Nat
    BY <1>2, <2>1
  <2>3. QED
    BY <1>3, <2>2
<1>5. ASSUME NEW m \in 1..N, m - 1 \in T PROVE m \in T
  <2>1. Holds(m - 1)
    BY <1>5
  <2>2. ASSUME NEW k \in 1..m
        PROVE  /\ e[k] <= e[m] /\ \A j \in 1..Len(s[k]) : b[m][e[k - 1] + j] = s[k][j]
               /\ b[m][e[k]] = NUL
    <3>1. CASE k = m
      <4>1. e[m] \in Nat /\ b[m][e[m]] = NUL
            /\ \A j \in 1..Len(s[m]) : b[m][e[m - 1] + j] = s[m][j]
        BY <1>3, <1>4
      <4>2. e[m] <= e[m]
        BY <4>1
      <4>3. QED
        BY <3>1, <4>1, <4>2, Zenon
    <3>2. CASE k \in 1..m - 1
      <4>1. k \in 1..N /\ m - 1 \in Nat
        BY <1>2, <3>2
      <4>2. /\ e[k] <= e[m - 1] /\ \A j \in 1..Len(s[k]) : b[m - 1][e[k - 1] + j] = s[k][j]
            /\ b[m - 1][e[k]] = NUL
        BY <2>1, <3>2
      <4>3. e[m - 1] <= e[m] /\ e[m - 1] \in Nat /\ e[m] \in Nat
        <5>1. e[m - 1] \in Nat /\ e[m] \in Nat
          BY <1>4
        <5>2. e[m] = e[m - 1] + Len(s[m]) + 1 /\ Len(s[m]) \in Nat
          BY <1>2, <1>3
        <5>3. QED
          BY <5>1, <5>2
      <4>4. e[k] \in 1..e[m - 1]
        BY <1>4, <4>1, <4>2, <4>3
      <4>5. \A j \in 1..Len(s[k]) : e[k - 1] + j \in 1..e[m - 1]
        <5> TAKE j \in 1..Len(s[k])
        <5>1. e[k - 1] + j \in 1..e[k] /\ e[k] \in Nat
          BY <1>4, <4>1
        <5>2. QED
          BY <4>2, <4>3, <5>1
      <4>6. e[k] <= e[m]
        BY <4>3, <4>4
      <4>7. b[m][e[k]] = NUL
        BY <1>3, <4>2, <4>4
      <4>8. \A j \in 1..Len(s[k]) : b[m][e[k - 1] + j] = s[k][j]
        BY <1>3, <4>2, <4>5
      <4>9. QED
        BY <4>6, <4>7, <4>8
    <3>3. QED
      BY <1>2, <3>1, <3>2
  <2>3. QED
    BY <1>2, <2>2
<1>6. N \in T
  <2>1. T \subseteq 0..N /\ 0 \in T
    BY <1>2
  <2>2. \A k \in 1..N : k - 1 \in T => k \in T
    BY <1>5
  <2> HIDE DEF T
  <2>3. \A k \in 0..N : k \in T
    BY <1>2, <2>1, <2>2, AllOf
  <2>4. QED
    BY <1>2, <2>3
<1>7. Holds(N)
  BY <1>6
<1>8. Cmdline(s) \in Seq(Nat) /\ e[N] = Len(Cmdline(s))
  BY <1>1, <1>2
<1>9. Layout(e, s, Cmdline(s))
  BY <1>1, <1>2, <1>3, <1>7, <1>8, SMTT(30) DEF Layout, N
<1>10. QED
  BY <1>2, <1>8, <1>9 DEF N

\* One turn of either loop of _xenomai_init_fetchargv.
LEMMA NextString ==
  ASSUME buf \in Seq(Nat), NEW s \in Seq(String), NEW e \in [0..Len(s) -> Nat],
         Layout(e, s, buf), NEW k \in 1..Len(s)
  PROVE  /\ e[k - 1] + 1 <= Len(buf) /\ e[k] <= Len(buf)
         /\ AfterNul(e[k - 1] + 1) = e[k] + 1 /\ StringAt(e[k - 1] + 1) = s[k]
<1> DEFINE q == e[k - 1] + 1
           nuls == {j \in q..Len(buf) : buf[j] = NUL} \cup {Len(buf) + 1}
           first == CHOOSE j \in nuls : \A i \in nuls : j <= i
<1>1. /\ e[k] \in Nat /\ e[k - 1] \in Nat /\ Len(buf) \in Nat /\ Len(s[k]) \in Nat
      /\ s[k] \in String /\ k - 1 \in 0..Len(s)
  <2>1. Len(s) \in Nat /\ s[k] \in String
    OBVIOUS
  <2>2. k \in 0..Len(s) /\ k - 1 \in 0..Len(s)
    BY <2>1
  <2>3. Len(s[k]) \in Nat
    BY <2>1 DEF String
  <2>4. QED
    BY <2>1, <2>2, <2>3, SMTT(30)
<1>2. /\ e[k] = e[k - 1] + Len(s[k]) + 1 /\ e[k] <= Len(buf) /\ buf[e[k]] = NUL
      /\ \A j \in 1..Len(s[k]) : buf[e[k - 1] + j] = s[k][j]
  BY DEF Layout
<1>3. \A j \in 1..Len(s[k]) : s[k][j] # NUL
  BY <1>1 DEF String, Byte, NUL
<1>4. \A j \in q..e[k] - 1 : j - e[k - 1] \in 1..Len(s[k]) /\ e[k - 1] + (j - e[k - 1]) = j
  <2> DEFINE low == e[k - 1]  size == Len(s[k])
  <2>1. low \in Nat /\ size \in Nat /\ e[k] = low + size + 1 /\ q = low + 1
    BY <1>1, <1>2
  <2> HIDE DEF low, size, q
  <2>2. \A j \in q..e[k] - 1 : j - low \in 1..size /\ low + (j - low) = j
    BY <2>1
  <2>3. QED
    BY <2>2 DEF low, size
<1>5. \A j \in q..e[k] - 1 : buf[j] # NUL
  <2> TAKE j \in q..e[k] - 1
  <2> DEFINE i == j - e[k - 1]
  <2>1. i \in 1..Len(s[k]) /\ e[k - 1] + i = j
    BY <1>4
  <2> HIDE DEF i
  <2>2. QED
    BY <1>2, <1>3, <2>1
<1>6. e[k] \in nuls
  BY <1>1, <1>2
<1>7. \A i \in nuls : e[k] <= i /\ i \in Nat
  <2> TAKE i \in nuls
  <2>1. CASE i = Len(buf) + 1
    BY <1>1, <1>2, <2>1
  <2>2. CASE i \in q..Len(buf) /\ buf[i] = NUL
    <3>1. ~ (i \in q..e[k] - 1) /\ i \in Nat
      BY <1>1, <1>5, <2>2
    <3>2. QED
      BY <1>1, <2>2, <3>1
  <2>3. QED
    BY <2>1, <2>2
<1>8. first \in nuls /\ \A i \in nuls : first <= i
  <2>1. \E j \in nuls : \A i \in nuls : j <= i
    BY <1>6, <1>7
  <2> HIDE DEF nuls
  <2>2. QED
    BY <2>1
<1>9. AfterNul(q) = 1 + first
  BY DEF AfterNul
<1> HIDE DEF nuls, first
<1>10. first = e[k]
  <2>1. first <= e[k] /\ e[k] <= first /\ first \in Nat
    BY <1>6, <1>7, <1>8
  <2>2. QED
    BY <1>1, <2>1
<1>11. AfterNul(q) = e[k] + 1
  BY <1>1, <1>9, <1>10
<1>12. StringAt(q) = s[k]
  <2> DEFINE t == SubSeq(buf, q, e[k] - 1)
  <2>1. StringAt(q) = t
    <3>1. AfterNul(q) - 2 = e[k] - 1
      BY <1>1, <1>11
    <3>2. QED
      BY <3>1, Zenon DEF StringAt
  <2>2. t \in Seq(Nat) /\ Len(t) = Len(s[k]) /\ \A j \in 1..Len(s[k]) : t[j] = buf[e[k - 1] + j]
    <3>1. q \in Nat /\ q >= 1 /\ e[k] - 1 <= Len(buf) /\ e[k] - 1 >= q - 1
          /\ e[k] - 1 - q + 1 = Len(s[k])
      <4> DEFINE low == e[k - 1]  size == Len(s[k])
      <4>1. low \in Nat /\ size \in Nat /\ e[k] = low + size + 1 /\ q = low + 1
            /\ e[k] <= Len(buf) /\ Len(buf) \in Nat
        BY <1>1, <1>2
      <4> HIDE DEF low, size, q
      <4>2. QED
        BY <4>1 DEF size
    <3>2. \A j \in 1..Len(s[k]) : q + j - 1 = e[k - 1] + j
      BY <1>1
    <3> DEFINE to == e[k] - 1
    <3>3. to \in Nat /\ to <= Len(buf) /\ q <= to + 1 /\ to - q + 1 = Len(s[k])
      BY <1>1, <3>1, SMTT(30)
    <3> HIDE DEF to, q
    <3>4. /\ SubSeq(buf, q, to) \in Seq(Nat) /\ Len(SubSeq(buf, q, to)) = to - q + 1
          /\ \A j \in 1..to - q + 1 : SubSeq(buf, q, to)[j] = buf[q + j - 1]
      BY <3>1, <3>3, SMTT(30)
    <3>5. QED
      BY <3>2, <3>3, <3>4 DEF to
  <2> HIDE DEF t
  <2>3. s[k] \in Seq(Nat)
    BY <1>1, StringType
  <2>4. t = s[k]
    BY <1>2, <2>2, <2>3, SameSequence
  <2>5. QED
    BY <2>1, <2>4
<1>13. QED
  BY <1>1, <1>2, <1>11, <1>12

\* xenomai_init leaves at least the program's name.
LEMMA NameIsLeft ==
  ASSUME NEW s \in Seq(String), s # <<>>
  PROVE  Len(Reduced(s)) # 0
<1> DEFINE N == Len(s)
           S == Seq(String)
           D(f) == [k \in 0..N |-> IF k = 0 THEN <<>>
                                   ELSE IF Dropped(s, k) THEN f[k - 1] ELSE Append(f[k - 1], s[k])]
           step == [x \in S \X (1..N) |->
                      IF Dropped(s, x[2]) THEN x[1] ELSE Append(x[1], s[x[2]])]
           left == CHOOSE f : f = D(f)
<1>0. N \in Nat /\ <<>> \in S /\ N >= 1 /\ \A k \in 1..N : s[k] \in String
  OBVIOUS
<1>1. \A x \in S, k \in 1..N : (IF Dropped(s, k) THEN x ELSE Append(x, s[k])) \in S
  BY <1>0
<1>2. step \in [S \X (1..N) -> S]
  BY <1>1
<1>3. \A x \in S, k \in 1..N :
        step[<<x, k>>] = IF Dropped(s, k) THEN x ELSE Append(x, s[k])
  OBVIOUS
<1>4. Reduced(s) = left[N]
  BY DEF Reduced
<1> HIDE DEF step, N, S
<1>5. PICK f \in [0..N -> S] : f[0] = <<>> /\ \A k \in 1..N : f[k] = step[<<f[k - 1], k>>]
  <2>1. \E f \in [0..N -> S] : MadeBy(f, <<>>, step, N)
    BY <1>0, <1>2, Recursion
  <2>2. QED
    BY <2>1 DEF MadeBy
<1>6. \A k \in 1..N : f[k] = IF Dropped(s, k) THEN f[k - 1] ELSE Append(f[k - 1], s[k])
  <2> TAKE k \in 1..N
  <2>1. f[k - 1] \in S
    BY <1>0, <1>5
  <2>2. QED
    BY <1>3, <1>5, <2>1
<1>7. f = D(f)
  <2>1. \A k \in 0..N : f[k] = IF k = 0 THEN <<>>
                               ELSE IF Dropped(s, k) THEN f[k - 1] ELSE Append(f[k - 1], s[k])
    <3>1. \A k \in 0..N : k = 0 \/ k \in 1..N
      BY <1>0
    <3>2. QED
      BY <1>5, <1>6, <3>1
  <2>2. f = [k \in 0..N |-> f[k]]
    BY <1>5
  <2>3. QED
    BY <2>1, <2>2, Zenon
<1>8. left = D(left)
  BY <1>7
<1> HIDE DEF left
<1>9. /\ left[0] = <<>>
      /\ \A k \in 1..N :
           left[k] = IF Dropped(s, k) THEN left[k - 1] ELSE Append(left[k - 1], s[k])
  <2>1. \A k \in 0..N : left[k] = IF k = 0 THEN <<>> ELSE IF Dropped(s, k) THEN left[k - 1]
                                  ELSE Append(left[k - 1], s[k])
    BY <1>8, Zenon
  <2>2. 0 \in 0..N /\ \A k \in 1..N : k \in 0..N /\ k # 0
    BY <1>0
  <2>3. QED
    BY <2>1, <2>2, Zenon
<1>10. \A k \in 0..N : left[k] \in S /\ (k # 0 => Len(left[k]) # 0)
  <2> DEFINE T == {k \in 0..N : left[k] \in S /\ (k # 0 => Len(left[k]) # 0)}
  <2>1. T \subseteq 0..N /\ 0 \in T
    BY <1>0, <1>9
  <2>2. ASSUME NEW k \in 1..N, k - 1 \in T PROVE k \in T
    <3>1. k \in 0..N /\ left[k - 1] \in S /\ (k # 1 => Len(left[k - 1]) # 0)
      BY <1>0, <2>2
    <3>2. CASE Dropped(s, k)
      <4>1. k # 1
        BY <1>0, <3>2 DEF Dropped
      <4>2. left[k] = left[k - 1]
        BY <1>9, <3>2
      <4>3. QED
        BY <3>1, <4>1, <4>2
    <3>3. CASE ~ Dropped(s, k)
      <4>1. left[k] = Append(left[k - 1], s[k]) /\ s[k] \in String
        BY <1>0, <1>9, <3>3
      <4>2. Append(left[k - 1], s[k]) \in S /\ Len(Append(left[k - 1], s[k])) # 0
        BY <3>1, <4>1 DEF S
      <4>3. QED
        BY <3>1, <4>1, <4>2
    <3>4. QED
      BY <3>2, <3>3
  <2> HIDE DEF T
  <2>3. \A k \in 0..N : k \in T
    BY <1>0, <2>1, <2>2, AllOf
  <2>4. QED
    BY <2>3 DEF T
<1>11. QED
  BY <1>0, <1>4, <1>10

(***************************************************************************)
(* The inductive invariant                                                 *)
(***************************************************************************)
\* Where the strings of a command line end.
EndsOf(s) == CHOOSE e \in [0..Len(s) -> Nat] : Layout(e, s, Cmdline(s))

\* A pass of _xenomai_init_fetchargv is at the start of a string, and has counted, or
\* noted the starts of, those before it.
FetchInv ==
  /\ line \in CommandLines /\ buf \in Seq(Nat) /\ p <= Len(buf) + 1
  /\ pc \in {"open", "malloc", "read"} => p = 1 /\ n = 0 /\ v = <<>>
  /\ pc \in {"count", "valloc", "fill"} => buf = Cmdline(line)
  /\ pc \in {"count", "fill"} => p = EndsOf(line)[n] + 1
  /\ pc = "count" => v = <<>>
  /\ pc = "valloc" => n = Len(line) /\ v = <<>>
  /\ pc = "fill" =>
       /\ slots = Len(line) + 1 /\ v \in Seq(Nat) /\ Len(v) = n
       /\ \A i \in 1..n : v[i] = EndsOf(line)[i - 1] + 1
  /\ pc = "init" => argv = line

\* What is held at each place.
MemoryInv ==
  /\ fd <=> pc \in {"malloc", "read"}
  /\ pc \in {"open", "malloc"} => heap = {}
  /\ pc \in {"read", "count", "valloc"} => heap = {"arglist"}
  /\ pc = "fill" => heap = {"arglist", "v"}
  /\ heap \in {{}, {"arglist"}, {"arglist", "v"}}
  /\ pc \in {"constructor", "init", "xenomai_main", "main", "running"} => heap # {"arglist"}

\* Each image is initialised by its constructor at most once, and knows the vector then.
ImageInv ==
  /\ wrapped => "exe" \in images
  /\ early = [i \in Images |-> IF inits[i] = 0 THEN <<>> ELSE Reduced(line)]
  /\ pc \in {"xenomai_main", "main", "running"} <=> image = NoImage
  /\ image \in Images => image \in images /\ inits[image] = 0 /\ inits["exe"] = 0
  /\ pc # "running" => inits["exe"] <= 1
  /\ inits["dso"] <= 1
  /\ pc = "xenomai_main" => wrapped
  /\ pc = "main" => ~ wrapped

RunInv == MainSeesReduced /\ WrapperInitialises

IInv == TypeOK /\ FetchInv /\ MemoryInv /\ ImageInv /\ RunInv

LEMMA LineType ==
  ASSUME line \in CommandLines
  PROVE  /\ line \in Seq(String) /\ Len(line) \in Nat
         /\ Cmdline(line) \in Seq(Nat) /\ EndsOf(line) \in [0..Len(line) -> Nat]
         /\ Layout(EndsOf(line), line, Cmdline(line))
<1>1. line \in Seq(String)
  BY LinesAssumption DEF String, Byte
<1>2. Cmdline(line) \in Seq(Nat)
      /\ \E e \in [0..Len(line) -> Nat] : Layout(e, line, Cmdline(line))
  BY <1>1, CmdlineLayout
<1>3. /\ EndsOf(line) \in [0..Len(line) -> Nat]
      /\ Layout(EndsOf(line), line, Cmdline(line))
  BY <1>2, Zenon DEF EndsOf
<1>4. QED
  BY <1>1, <1>2, <1>3

LEMMA Initially == Init => IInv
<1> SUFFICES ASSUME Init PROVE IInv
  OBVIOUS
<1> USE DEF Init, Images, FirstImage, NoImage
<1>1. /\ line \in CommandLines /\ pc = "constructor" /\ fd = FALSE /\ heap = {} /\ len = FirstLen
      /\ buf = <<>> /\ p = 1 /\ n = 0 /\ slots = 0 /\ v = <<>>
      /\ early = [i \in Images |-> <<>>] /\ inits = [i \in Images |-> 0]
  BY Zenon
<1>2. glibc \in BOOLEAN /\ wrapped \in BOOLEAN
  BY Zenon
<1>3. images \subseteq Images /\ image \in images /\ image \in Images
      /\ (wrapped => "exe" \in images)
  OBVIOUS
<1>4. Len(line) \in Nat
  BY <1>1, LineType
<1>5. TypeOK
  <2>1. fd \in BOOLEAN
    BY <1>1, Zenon
  <2>2. inits \in [Images -> 0..2] /\ heap \subseteq {"arglist", "v"} /\ n \in 0..Len(line)
        /\ len \in Nat /\ p \in Nat \ {0} /\ slots \in Nat
    BY <1>1, <1>4, LenAssumption
  <2>3. QED
    BY <1>1, <1>2, <1>3, <2>1, <2>2, Zenon DEF TypeOK
<1>6. FetchInv
  BY <1>1 DEF FetchInv
<1>7. MemoryInv
  BY <1>1 DEF MemoryInv
<1>8. ImageInv
  BY <1>1, <1>3 DEF ImageInv
<1>9. RunInv
  BY <1>1 DEF RunInv, MainSeesReduced, WrapperInitialises
<1>10. QED
  BY <1>5, <1>6, <1>7, <1>8, <1>9 DEF IInv

\* After a constructor, whether it failed or not.
LEMMA LeaveKeeps ==
  ASSUME IInv, image \in Images, Leave, UNCHANGED <<build, len, buf, p, n, slots, v>>,
         fd' = FALSE, heap' \in {{}, {"arglist", "v"}},
         inits' \in [Images -> 0..1], \A i \in Images : i # image => inits'[i] = inits[i],
         early' = [i \in Images |-> IF inits'[i] = 0 THEN <<>> ELSE Reduced(line)]
  PROVE  IInv'
<1> USE DEF Images, NoImage, build
<1>1. TypeOK /\ FetchInv /\ ImageInv
  BY DEF IInv
<1>2. \/ image = "dso" /\ "exe" \in images /\ image' = "exe" /\ pc' = "constructor"
      \/ image' = NoImage /\ pc' = "xenomai_main" /\ wrapped
      \/ image' = NoImage /\ pc' = "main" /\ ~ wrapped
  BY DEF Leave
<1>3. TypeOK'
  <2>1. inits' \in [Images -> 0..2]
    OBVIOUS
  <2>2. fd' \in BOOLEAN /\ glibc' \in BOOLEAN /\ wrapped' \in BOOLEAN
    <3>1. UNCHANGED <<glibc, wrapped>>
      BY DEF build
    <3>2. QED
      BY <1>1, <3>1, Zenon DEF TypeOK
  <2>3. QED
    BY <1>1, <1>2, <2>1, <2>2 DEF TypeOK
<1>4. FetchInv'
  BY <1>1, <1>2 DEF FetchInv
<1>5. MemoryInv'
  BY <1>2 DEF MemoryInv
<1>6. ImageInv'
  BY <1>1, <1>2 DEF ImageInv
<1>7. RunInv'
  BY <1>2 DEF RunInv, MainSeesReduced, WrapperInitialises
<1>8. QED
  BY <1>3, <1>4, <1>5, <1>6, <1>7 DEF IInv

LEMMA FailKeeps ==
  ASSUME IInv, pc \notin {"xenomai_main", "main", "running"},
         NEW blocks, heap \ blocks = {}, Fail(blocks)
  PROVE  IInv'
<1>1. TypeOK /\ ImageInv
  BY DEF IInv
<1>2. image \in Images /\ inits \in [Images -> 0..1]
  <2>1. image \in Images
    BY <1>1 DEF TypeOK, ImageInv
  <2>2. inits["exe"] \in 0..1 /\ inits["dso"] \in 0..1
    BY <1>1 DEF TypeOK, ImageInv, Images
  <2>3. QED
    BY <1>1, <2>1, <2>2 DEF TypeOK, Images
<1>3. /\ fd' = FALSE /\ heap' = {} /\ Leave
      /\ UNCHANGED <<build, early, inits, argv, len, buf, p, n, slots, v>>
  BY DEF Fail
<1>4. early' = [i \in Images |-> IF inits'[i] = 0 THEN <<>> ELSE Reduced(line)]
  BY <1>1, <1>3 DEF ImageInv
<1>5. QED
  BY <1>2, <1>3, <1>4, LeaveKeeps

(***************************************************************************)
(* Each step                                                               *)
(***************************************************************************)
LEMMA BootstrapKeeps == ASSUME IInv, xenomai_bootstrap PROVE IInv'
<1> USE DEF Images, NoImage, build, fetch
<1>1. TypeOK /\ FetchInv /\ MemoryInv /\ ImageInv
  BY DEF IInv
<1>2. /\ pc = "constructor" /\ UNCHANGED <<line, glibc, images, wrapped, early, inits, image>>
      /\ \/ argv' = line /\ pc' = "init" /\ UNCHANGED fetch
         \/ /\ pc' = "open" /\ fd' = FALSE /\ heap' = {} /\ len' = FirstLen
            /\ buf' = <<>> /\ p' = 1 /\ n' = 0 /\ slots' = 0 /\ v' = <<>>
  BY DEF xenomai_bootstrap
<1>3. TypeOK'
  <2>1. fd' \in BOOLEAN /\ glibc' \in BOOLEAN /\ wrapped' \in BOOLEAN
    <3>1. fd' = FALSE \/ fd' = fd
      BY <1>2, Zenon DEF fetch
    <3>2. QED
      BY <1>1, <1>2, <3>1, Zenon DEF TypeOK
  <2>2. /\ len' \in Nat /\ n' \in 0..Len(line)' /\ p' \in Nat \ {0} /\ slots' \in Nat
        /\ heap' \subseteq {"arglist", "v"}
    <3>1. Len(line) \in Nat
      BY <1>1, LineType DEF FetchInv
    <3>2. \/ UNCHANGED <<heap, len, p, n, slots>>
          \/ heap' = {} /\ len' = FirstLen /\ p' = 1 /\ n' = 0 /\ slots' = 0
      BY <1>2
    <3>3. FirstLen \in Nat /\ line' = line
      BY <1>2, LenAssumption
    <3>4. /\ len \in Nat /\ n \in 0..Len(line) /\ p \in Nat \ {0} /\ slots \in Nat
          /\ heap \subseteq {"arglist", "v"}
      BY <1>1 DEF TypeOK
    <3>5. Len(line)' = Len(line)
      BY <3>3, Zenon
    <3>6. CASE UNCHANGED <<heap, len, p, n, slots>>
      BY <3>4, <3>5, <3>6
    <3>7. CASE heap' = {} /\ len' = FirstLen /\ p' = 1 /\ n' = 0 /\ slots' = 0
      BY <3>1, <3>3, <3>5, <3>7
    <3>8. QED
      BY <3>2, <3>6, <3>7
  <2>3. QED
    BY <1>1, <1>2, <2>1, <2>2 DEF TypeOK
<1>4. FetchInv'
  <2>1. CASE argv' = line /\ pc' = "init" /\ UNCHANGED fetch
    BY <1>1, <1>2, <2>1 DEF FetchInv
  <2>2. CASE pc' = "open" /\ buf' = <<>> /\ p' = 1 /\ n' = 0 /\ v' = <<>>
    <3>1. buf' \in Seq(Nat) /\ p' <= Len(buf') + 1
      BY <2>2
    <3>2. line' \in CommandLines
      BY <1>1, <1>2 DEF FetchInv
    <3>3. QED
      BY <2>2, <3>1, <3>2 DEF FetchInv
  <2>3. QED
    BY <1>2, <2>1, <2>2
<1>5. MemoryInv'
  BY <1>1, <1>2 DEF MemoryInv
<1>6. ImageInv' /\ RunInv'
  BY <1>1, <1>2 DEF ImageInv, RunInv, MainSeesReduced, WrapperInitialises
<1>7. QED
  BY <1>3, <1>4, <1>5, <1>6 DEF IInv

\* The steps of a fetch change nothing of the images.
LEMMA FetchKeepsImages ==
  ASSUME IInv, UNCHANGED <<build, early, inits, image>>,
         pc \notin {"xenomai_main", "main", "running"},
         pc' \notin {"xenomai_main", "main", "running"}
  PROVE  ImageInv' /\ RunInv'
BY DEF IInv, ImageInv, RunInv, MainSeesReduced, WrapperInitialises, build

LEMMA OpenKeeps == ASSUME IInv, Open \/ MallocList PROVE IInv'
<1>1. TypeOK /\ FetchInv /\ MemoryInv
  BY DEF IInv
<1>2. pc \in {"open", "malloc"} /\ heap = {}
  BY <1>1 DEF Open, MallocList, MemoryInv
<1>3. CASE Fail({})
  <2>1. heap \ {} = {} /\ pc \notin {"xenomai_main", "main", "running"}
    BY <1>2
  <2>2. QED
    BY <1>3, <2>1, FailKeeps
<1>4. CASE ~ Fail({})
  <2>1. /\ UNCHANGED <<build, early, inits, image, argv, len, buf, p, n, slots, v>>
        /\ \/ pc' = "malloc" /\ fd' = TRUE /\ heap' = {}
           \/ pc = "malloc" /\ pc' = "read" /\ fd' = fd /\ heap' = {"arglist"}
    BY <1>2, <1>4 DEF Open, MallocList
  <2>2. TypeOK'
    <3>1. fd' \in BOOLEAN /\ glibc' \in BOOLEAN /\ wrapped' \in BOOLEAN
      <4>1. (fd' = TRUE \/ fd' = fd) /\ UNCHANGED <<glibc, wrapped>>
        BY <2>1, Zenon DEF build
      <4>2. QED
        BY <1>1, <4>1, Zenon DEF TypeOK
    <3>2. QED
      BY <1>1, <2>1, <3>1 DEF TypeOK, build
  <2>3. FetchInv'
    BY <1>1, <1>2, <2>1 DEF FetchInv, build
  <2>4. MemoryInv'
    BY <1>1, <2>1 DEF MemoryInv
  <2>5. ImageInv' /\ RunInv'
    BY <1>2, <2>1, FetchKeepsImages
  <2>6. QED
    BY <2>2, <2>3, <2>4, <2>5 DEF IInv
<1>5. QED
  BY <1>3, <1>4

LEMMA ReadKeeps == ASSUME IInv, Read PROVE IInv'
<1>1. TypeOK /\ FetchInv /\ MemoryInv
  BY DEF IInv
<1>2. pc = "read" /\ heap = {"arglist"}
  BY <1>1 DEF Read, MemoryInv
<1>3. CASE Fail({"arglist"})
  <2>1. heap \ {"arglist"} = {} /\ pc \notin {"xenomai_main", "main", "running"}
    BY <1>2
  <2>2. QED
    BY <1>3, <2>1, FailKeeps
<1>4. CASE ~ Fail({"arglist"})
  <2> DEFINE bytes == Cmdline(line)
             ret   == IF Len(bytes) < len THEN Len(bytes) ELSE len
  <2>1. /\ fd' = FALSE /\ UNCHANGED <<build, early, inits, image, argv, p, n, slots, v>>
        /\ \/ /\ ret < len /\ buf' = SubSeq(bytes, 1, ret) /\ pc' = "count"
              /\ UNCHANGED <<heap, len>>
           \/ heap' = heap \ {"arglist"} /\ len' = 2 * len /\ pc' = "open" /\ UNCHANGED buf
    BY <1>2, <1>4 DEF Read, ReadIsWhole, LenDoubled
  <2>2. bytes \in Seq(Nat) /\ Len(bytes) \in Nat /\ len \in Nat
    <3>1. bytes \in Seq(Nat) /\ len \in Nat
      BY <1>1, LineType DEF FetchInv, TypeOK
    <3> HIDE DEF bytes
    <3>2. QED
      BY <3>1
  <2>3. EndsOf(line)[0] = 0
    BY <1>1, LineType DEF FetchInv, Layout
  <2> HIDE DEF bytes
  <2>4. \/ buf' = bytes /\ pc' = "count" /\ UNCHANGED <<heap, len>>
        \/ heap' = {} /\ len' = 2 * len /\ pc' = "open" /\ UNCHANGED buf
    <3>1. ret < len => ret = Len(bytes)
      BY <2>2
    <3>2. SubSeq(bytes, 1, Len(bytes)) = bytes
      BY <2>2
    <3>3. QED
      BY <1>2, <2>1, <3>1, <3>2
  <2>5. TypeOK'
    <3>1. fd' \in BOOLEAN /\ glibc' \in BOOLEAN /\ wrapped' \in BOOLEAN
      <4>1. UNCHANGED <<glibc, wrapped>>
        BY <2>1 DEF build
      <4>2. QED
        BY <1>1, <2>1, <4>1, Zenon DEF TypeOK
    <3>2. len' \in Nat
      BY <2>2, <2>4
    <3>3. QED
      BY <1>1, <2>1, <2>4, <3>1, <3>2 DEF TypeOK, build
  <2>6. FetchInv'
    <3>1. line' \in CommandLines /\ UNCHANGED <<line, p, n, v, argv>> /\ p = 1 /\ n = 0 /\ v = <<>>
      BY <1>1, <1>2, <2>1 DEF FetchInv, build
    <3>2. buf' \in Seq(Nat) /\ p <= Len(buf') + 1
      BY <1>1, <2>2, <2>4, <3>1 DEF FetchInv
    <3>3. pc' = "count" => buf' = Cmdline(line) /\ p = EndsOf(line)[n] + 1
      BY <2>3, <2>4, <3>1 DEF bytes
    <3>4. pc' \in {"count", "open"}
      BY <2>4
    <3>5. QED
      BY <3>1, <3>2, <3>3, <3>4 DEF FetchInv
  <2>7. MemoryInv'
    BY <1>2, <2>1, <2>4 DEF MemoryInv
  <2>8. ImageInv' /\ RunInv'
    BY <1>2, <2>1, <2>4, FetchKeepsImages
  <2>9. QED
    BY <2>5, <2>6, <2>7, <2>8 DEF IInv
<1>5. QED
  BY <1>3, <1>4

\* A loop ends when all strings are seen, and until then gets from one to the next.
LEMMA Turn ==
  ASSUME line \in CommandLines, buf = Cmdline(line), n \in 0..Len(line),
         p = EndsOf(line)[n] + 1
  PROVE  /\ ~ (p <= Len(buf)) => n = Len(line)
         /\ p <= Len(buf) =>
              /\ n + 1 \in 1..Len(line) /\ AfterNul(p) = EndsOf(line)[n + 1] + 1
              /\ AfterNul(p) \in Nat \ {0} /\ AfterNul(p) <= Len(buf) + 1
<1> DEFINE e == EndsOf(line)
<1>1. /\ line \in Seq(String) /\ Len(line) \in Nat /\ buf \in Seq(Nat) /\ Len(buf) \in Nat
      /\ e \in [0..Len(line) -> Nat] /\ Layout(e, line, buf)
  <2>1. line \in Seq(String) /\ Len(line) \in Nat /\ buf \in Seq(Nat)
        /\ e \in [0..Len(line) -> Nat] /\ Layout(e, line, buf)
    BY LineType
  <2>2. QED
    BY <2>1
<1> HIDE DEF e
<1>2. e[Len(line)] = Len(buf)
  BY <1>1 DEF Layout
<1>3. CASE n = Len(line)
  <2>1. p = Len(buf) + 1
    BY <1>2, <1>3 DEF e
  <2>2. QED
    BY <1>1, <1>3, <2>1
<1>4. CASE n # Len(line)
  <2> DEFINE k == n + 1
  <2>1. k \in 1..Len(line) /\ k - 1 = n
    BY <1>1, <1>4
  <2> HIDE DEF k
  <2>2. /\ e[k - 1] + 1 <= Len(buf) /\ e[k] <= Len(buf) /\ AfterNul(e[k - 1] + 1) = e[k] + 1
    BY <1>1, <2>1, NextString
  <2>3. e[k] \in Nat
    BY <1>1, <2>1
  <2>4. p = e[k - 1] + 1
    BY <2>1 DEF e
  <2>5. p <= Len(buf) /\ AfterNul(p) = e[k] + 1
    BY <2>2, <2>4
  <2>6. AfterNul(p) \in Nat \ {0} /\ AfterNul(p) <= Len(buf) + 1
    BY <1>1, <2>2, <2>3, <2>5
  <2>7. QED
    BY <2>1, <2>5, <2>6 DEF k, e
<1>5. QED
  BY <1>3, <1>4

LEMMA CountKeeps == ASSUME IInv, Count PROVE IInv'
<1>1. TypeOK /\ FetchInv /\ MemoryInv
  BY DEF IInv
<1>2. /\ pc = "count" /\ UNCHANGED <<build, early, inits, image, argv, fd, heap, len, buf, slots, v>>
      /\ \/ p <= Len(buf) /\ n' = n + 1 /\ p' = AfterNul(p) /\ pc' = "count"
         \/ ~ (p <= Len(buf)) /\ pc' = "valloc" /\ UNCHANGED <<n, p>>
  BY DEF Count
<1>3. /\ line \in CommandLines /\ buf = Cmdline(line) /\ p = EndsOf(line)[n] + 1 /\ v = <<>>
      /\ n \in 0..Len(line) /\ Len(line) \in Nat /\ buf \in Seq(Nat) /\ p <= Len(buf) + 1
  BY <1>1, <1>2, LineType DEF FetchInv, TypeOK
<1>4. UNCHANGED <<line, glibc, wrapped, images>>
  BY <1>2 DEF build
<1>5. n' \in 0..Len(line) /\ p' \in Nat \ {0} /\ p' <= Len(buf) + 1
      /\ (pc' = "count" => p' = EndsOf(line)[n'] + 1) /\ (pc' = "valloc" => n' = Len(line))
  <2>1. CASE p <= Len(buf)
    BY <1>2, <1>3, <2>1, Turn
  <2>2. CASE ~ (p <= Len(buf))
    BY <1>1, <1>2, <1>3, <2>2, Turn DEF TypeOK
  <2>3. QED
    BY <2>1, <2>2
<1>6. pc' \in {"count", "valloc"}
  BY <1>2
<1>7. TypeOK'
  <2>1. fd' \in BOOLEAN /\ glibc' \in BOOLEAN /\ wrapped' \in BOOLEAN
    BY <1>1, <1>2, <1>4, Zenon DEF TypeOK
  <2>2. QED
    BY <1>1, <1>2, <1>4, <1>5, <1>6, <2>1 DEF TypeOK
<1>8. FetchInv'
  BY <1>2, <1>3, <1>4, <1>5, <1>6 DEF FetchInv
<1>9. MemoryInv'
  BY <1>1, <1>2, <1>6 DEF MemoryInv
<1>10. ImageInv' /\ RunInv'
  BY <1>2, <1>6, FetchKeepsImages
<1>11. QED
  BY <1>7, <1>8, <1>9, <1>10 DEF IInv

LEMMA MallocVectorKeeps == ASSUME IInv, MallocVector PROVE IInv'
<1>1. TypeOK /\ FetchInv /\ MemoryInv
  BY DEF IInv
<1>2. pc = "valloc" /\ heap = {"arglist"}
  BY <1>1 DEF MallocVector, MemoryInv
<1>3. CASE Fail(ErrorFreesList)
  <2>1. heap \ ErrorFreesList = {} /\ pc \notin {"xenomai_main", "main", "running"}
    BY <1>2 DEF ErrorFreesList
  <2>2. QED
    BY <1>3, <2>1, FailKeeps
<1>4. CASE ~ Fail(ErrorFreesList)
  <2>1. /\ heap' = heap \cup {"v"} /\ slots' = n + 1 /\ p' = 1 /\ n' = 0 /\ pc' = "fill"
        /\ UNCHANGED <<build, early, inits, image, argv, fd, len, buf, v>>
    BY <1>2, <1>4 DEF MallocVector
  <2>2. /\ line \in CommandLines /\ buf = Cmdline(line) /\ v = <<>> /\ n = Len(line)
        /\ Len(line) \in Nat /\ buf \in Seq(Nat) /\ EndsOf(line)[0] = 0
    BY <1>1, <1>2, LineType DEF FetchInv, Layout
  <2>3. UNCHANGED <<line, glibc, wrapped, images>>
    BY <2>1 DEF build
  <2>4. TypeOK'
    <3>1. fd' \in BOOLEAN /\ glibc' \in BOOLEAN /\ wrapped' \in BOOLEAN
      BY <1>1, <2>1, <2>3, Zenon DEF TypeOK
    <3>2. QED
      BY <1>1, <2>1, <2>2, <2>3, <3>1 DEF TypeOK
  <2>5. FetchInv'
    <3>1. Len(v') = 0 /\ v' \in Seq(Nat) /\ Len(buf') \in Nat
      BY <2>1, <2>2
    <3>2. QED
      BY <2>1, <2>2, <2>3, <3>1 DEF FetchInv
  <2>6. MemoryInv'
    BY <1>1, <1>2, <2>1 DEF MemoryInv
  <2>7. ImageInv' /\ RunInv'
    BY <1>2, <2>1, FetchKeepsImages
  <2>8. QED
    BY <2>4, <2>5, <2>6, <2>7 DEF IInv
<1>5. QED
  BY <1>3, <1>4

LEMMA FillKeeps == ASSUME IInv, Fill PROVE IInv'
<1>1. TypeOK /\ FetchInv /\ MemoryInv
  BY DEF IInv
<1>2. /\ pc = "fill" /\ UNCHANGED <<build, early, inits, image, fd, heap, len, buf, slots>>
      /\ \/ /\ p <= Len(buf) /\ v' = Append(v, p) /\ n' = n + 1 /\ p' = AfterNul(p)
            /\ UNCHANGED <<argv, pc>>
         \/ /\ ~ (p <= Len(buf)) /\ argv' = [i \in 1..n |-> StringAt(v[i])] /\ pc' = "init"
            /\ UNCHANGED <<n, p, v>>
  BY DEF Fill
<1>3. /\ line \in CommandLines /\ buf = Cmdline(line) /\ p = EndsOf(line)[n] + 1
      /\ n \in 0..Len(line) /\ Len(line) \in Nat /\ buf \in Seq(Nat) /\ p <= Len(buf) + 1
      /\ slots = Len(line) + 1 /\ v \in Seq(Nat) /\ Len(v) = n
      /\ \A i \in 1..n : v[i] = EndsOf(line)[i - 1] + 1
  BY <1>1, <1>2, LineType DEF FetchInv, TypeOK
<1>4. UNCHANGED <<line, glibc, wrapped, images>>
  BY <1>2 DEF build
<1>5. CASE p <= Len(buf)
  <2>1. n' \in 0..Len(line) /\ p' \in Nat \ {0} /\ p' <= Len(buf) + 1
        /\ p' = EndsOf(line)[n'] + 1 /\ pc' = "fill"
    BY <1>2, <1>3, <1>5, Turn
  <2>2. v' \in Seq(Nat) /\ Len(v') = n' /\ \A i \in 1..n' : v'[i] = EndsOf(line)[i - 1] + 1
    <3>1. p \in Nat /\ n \in Nat /\ v' = Append(v, p) /\ n' = n + 1
      BY <1>1, <1>2, <1>3, <1>5 DEF TypeOK
    <3>2. v' \in Seq(Nat) /\ Len(v') = n + 1 /\ v'[n + 1] = p /\ \A i \in 1..n : v'[i] = v[i]
      BY <1>3, <3>1
    <3>3. \A i \in 1..n + 1 : i \in 1..n \/ i = n + 1
      BY <3>1
    <3>4. p = EndsOf(line)[n + 1 - 1] + 1
      <4>1. n + 1 - 1 = n
        BY <3>1
      <4>2. QED
        BY <1>3, <4>1
    <3>5. QED
      BY <1>3, <3>1, <3>2, <3>3, <3>4
  <2>3. TypeOK'
    <3>1. fd' \in BOOLEAN /\ glibc' \in BOOLEAN /\ wrapped' \in BOOLEAN
      BY <1>1, <1>2, <1>4, Zenon DEF TypeOK
    <3>2. QED
      BY <1>1, <1>2, <1>4, <2>1, <3>1 DEF TypeOK
  <2>4. FetchInv'
    BY <1>2, <1>3, <1>4, <2>1, <2>2 DEF FetchInv
  <2>5. MemoryInv'
    BY <1>1, <1>2, <2>1 DEF MemoryInv
  <2>6. ImageInv' /\ RunInv'
    BY <1>2, <2>1, FetchKeepsImages
  <2>7. QED
    BY <2>3, <2>4, <2>5, <2>6 DEF IInv
<1>6. CASE ~ (p <= Len(buf))
  <2>1. n = Len(line) /\ pc' = "init" /\ UNCHANGED <<n, p, v>>
        /\ argv' = [i \in 1..n |-> StringAt(v[i])]
    BY <1>2, <1>3, <1>6, Turn
  <2>2. argv' = line
    <3>1. /\ line \in Seq(String) /\ EndsOf(line) \in [0..Len(line) -> Nat]
          /\ Layout(EndsOf(line), line, buf)
      BY <1>3, LineType
    <3>2. \A i \in 1..Len(line) : StringAt(v[i]) = line[i]
      <4> TAKE i \in 1..Len(line)
      <4>1. StringAt(EndsOf(line)[i - 1] + 1) = line[i]
        BY <1>3, <3>1, NextString
      <4>2. QED
        BY <1>3, <2>1, <4>1
    <3>3. line = [i \in 1..Len(line) |-> line[i]]
      BY <3>1
    <3>4. QED
      BY <2>1, <3>2, <3>3
  <2>3. TypeOK'
    <3>1. fd' \in BOOLEAN /\ glibc' \in BOOLEAN /\ wrapped' \in BOOLEAN
      BY <1>1, <1>2, <1>4, Zenon DEF TypeOK
    <3>2. QED
      BY <1>1, <1>2, <1>4, <2>1, <3>1 DEF TypeOK
  <2>4. FetchInv'
    BY <1>2, <1>3, <1>4, <2>1, <2>2 DEF FetchInv
  <2>5. MemoryInv'
    BY <1>1, <1>2, <2>1 DEF MemoryInv
  <2>6. ImageInv' /\ RunInv'
    BY <1>2, <2>1, FetchKeepsImages
  <2>7. QED
    BY <2>3, <2>4, <2>5, <2>6 DEF IInv
<1>7. QED
  BY <1>5, <1>6

LEMMA CallInitKeeps == ASSUME IInv, CallInit PROVE IInv'
<1>1. TypeOK /\ FetchInv /\ MemoryInv /\ ImageInv
  BY DEF IInv
<1>2. /\ pc = "init" /\ Leave /\ UNCHANGED <<build, fetch>> /\ argv = line
      /\ inits' = [inits EXCEPT ![image] = @ + 1]
      /\ early' = [early EXCEPT ![image] = Reduced(line)]
  BY <1>1 DEF CallInit, InitFrom, FetchInv
<1>3. image \in Images /\ inits[image] = 0 /\ inits \in [Images -> 0..1]
  <2>1. image \in Images /\ inits[image] = 0
    BY <1>1, <1>2 DEF TypeOK, ImageInv
  <2>2. inits["exe"] \in 0..1 /\ inits["dso"] \in 0..1
    BY <1>1, <1>2 DEF TypeOK, ImageInv, Images
  <2>3. QED
    BY <1>1, <2>1, <2>2 DEF TypeOK, Images
<1>4. UNCHANGED <<build, len, buf, p, n, slots, v, fd, heap>>
  BY <1>2 DEF fetch
<1>5. fd' = FALSE /\ heap' \in {{}, {"arglist", "v"}}
  BY <1>1, <1>2, <1>4 DEF MemoryInv, TypeOK
<1>6. inits' \in [Images -> 0..1] /\ \A i \in Images : i # image => inits'[i] = inits[i]
  BY <1>2, <1>3
<1>7. early' = [i \in Images |-> IF inits'[i] = 0 THEN <<>> ELSE Reduced(line)]
  <2>1. early = [i \in Images |-> IF inits[i] = 0 THEN <<>> ELSE Reduced(line)]
    BY <1>1 DEF ImageInv
  <2> DEFINE left == Reduced(line)
  <2> HIDE DEF left
  <2>2. /\ early = [i \in Images |-> IF inits[i] = 0 THEN <<>> ELSE left]
        /\ early' = [early EXCEPT ![image] = left]
    BY <1>2, <2>1 DEF left
  <2>3. inits'[image] # 0 /\ \A i \in Images : i # image => inits'[i] = inits[i]
    BY <1>2, <1>3
  <2>4. early' = [i \in Images |-> IF inits'[i] = 0 THEN <<>> ELSE left]
    BY <1>3, <2>2, <2>3
  <2>5. QED
    BY <2>4 DEF left
<1>8. QED
  BY <1>2, <1>3, <1>4, <1>5, <1>6, <1>7, LeaveKeeps

\* What an image knows when main or its wrapper asks.
LEMMA Known ==
  ASSUME IInv, line # <<>>, NEW i \in Images
  PROVE  /\ inits[i] = 0 => Len(early[i]) = 0
         /\ inits[i] # 0 => early[i] = Reduced(line) /\ Len(early[i]) # 0
<1>1. line \in Seq(String) /\ early[i] = IF inits[i] = 0 THEN <<>> ELSE Reduced(line)
  BY LineType DEF IInv, FetchInv, ImageInv
<1>2. Len(Reduced(line)) # 0
  BY <1>1, NameIsLeft
<1>3. QED
  BY <1>1, <1>2

LEMMA MainWrapperKeeps == ASSUME IInv, xenomai_main PROVE IInv'
<1>1. TypeOK /\ FetchInv /\ MemoryInv /\ ImageInv
  BY DEF IInv
<1>2. /\ pc = "xenomai_main" /\ pc' = "running" /\ UNCHANGED <<build, image, fetch>>
      /\ \/ /\ NeedsInit("exe") /\ argv' = Reduced(line)
            /\ inits' = [inits EXCEPT !["exe"] = @ + 1]
            /\ early' = [early EXCEPT !["exe"] = Reduced(line)]
         \/ ~ NeedsInit("exe") /\ argv' = GetArgv("exe", line) /\ UNCHANGED <<early, inits>>
  BY DEF xenomai_main, InitFrom
<1>3. wrapped /\ "exe" \in images /\ image = NoImage /\ inits["exe"] \in 0..1 /\ inits["dso"] \in 0..1
  BY <1>1, <1>2 DEF ImageInv, TypeOK, Images
<1>4. UNCHANGED <<line, glibc, images, wrapped, fd, heap, len, buf, p, n, slots, v>>
  BY <1>2 DEF build, fetch
<1>5. /\ inits \in [Images -> 0..2]
      /\ early = [i \in Images |-> IF inits[i] = 0 THEN <<>> ELSE Reduced(line)]
  BY <1>1 DEF TypeOK, ImageInv
<1>6. inits' \in [Images -> 0..2] /\ inits'["dso"] = inits["dso"]
  BY <1>2, <1>3, <1>5 DEF Images
<1>7. early' = [i \in Images |-> IF inits'[i] = 0 THEN <<>> ELSE Reduced(line)]
  BY <1>2, <1>3, <1>5 DEF Images
<1>8. TypeOK'
  <2>1. fd' \in BOOLEAN /\ glibc' \in BOOLEAN /\ wrapped' \in BOOLEAN
    BY <1>1, <1>4, Zenon DEF TypeOK
  <2>2. QED
    BY <1>1, <1>2, <1>4, <1>6, <2>1 DEF TypeOK
<1>9. FetchInv' /\ MemoryInv'
  BY <1>1, <1>2, <1>4 DEF FetchInv, MemoryInv
<1>10. ImageInv'
  BY <1>1, <1>2, <1>3, <1>4, <1>6, <1>7 DEF ImageInv, NoImage, Images
<1>11. ASSUME line # <<>> PROVE inits'["exe"] = 1 /\ argv' = Reduced(line)
  <2>1. /\ inits["exe"] = 0 => Len(early["exe"]) = 0
        /\ inits["exe"] # 0 => early["exe"] = Reduced(line) /\ Len(early["exe"]) # 0
    BY <1>11, Known DEF Images
  <2>2. CASE inits["exe"] = 0
    BY <1>2, <1>5, <2>1, <2>2 DEF NeedsInit, Images
  <2>3. CASE inits["exe"] = 1
    BY <1>2, <2>1, <2>3 DEF NeedsInit, GetArgv
  <2>4. QED
    BY <1>3, <2>2, <2>3
<1>12. RunInv'
  BY <1>3, <1>4, <1>11 DEF RunInv, MainSeesReduced, WrapperInitialises, Asked
<1>13. QED
  BY <1>8, <1>9, <1>10, <1>12 DEF IInv

LEMMA MainKeeps == ASSUME IInv, main PROVE IInv'
<1>1. TypeOK /\ FetchInv /\ MemoryInv /\ ImageInv
  BY DEF IInv
<1>2. /\ pc = "main" /\ pc' = "running" /\ UNCHANGED <<build, early, inits, image, fetch>>
      /\ argv' = GetArgv(Asked, line)
  BY DEF main, Asked
<1>3. ~ wrapped /\ image = NoImage /\ Asked \in Images
  BY <1>1, <1>2 DEF ImageInv, Asked, Images
<1>4. UNCHANGED <<line, glibc, images, wrapped, fd, heap, len, buf, p, n, slots, v>>
  BY <1>2 DEF build, fetch
<1>5. TypeOK'
  <2>1. fd' \in BOOLEAN /\ glibc' \in BOOLEAN /\ wrapped' \in BOOLEAN
    BY <1>1, <1>4, Zenon DEF TypeOK
  <2>2. QED
    BY <1>1, <1>2, <1>4, <2>1 DEF TypeOK
<1>6. FetchInv' /\ MemoryInv'
  BY <1>1, <1>2, <1>4 DEF FetchInv, MemoryInv
<1>7. ImageInv'
  BY <1>1, <1>2, <1>3, <1>4 DEF ImageInv
<1>8. RunInv'
  <2>1. ASSUME line # <<>> PROVE argv' = IF inits[Asked] > 0 THEN Reduced(line) ELSE line
    <3>1. inits[Asked] \in 0..2
      BY <1>1, <1>3 DEF TypeOK
    <3>2. /\ inits[Asked] = 0 => Len(early[Asked]) = 0
          /\ inits[Asked] # 0 => early[Asked] = Reduced(line) /\ Len(early[Asked]) # 0
      BY <1>3, <2>1, Known
    <3>3. QED
      BY <1>2, <3>1, <3>2 DEF GetArgv
  <2>2. Asked' = Asked
    BY <1>4 DEF Asked
  <2>3. QED
    BY <1>2, <1>3, <1>4, <2>1, <2>2 DEF RunInv, MainSeesReduced, WrapperInitialises
<1>9. QED
  BY <1>5, <1>6, <1>7, <1>8 DEF IInv

LEMMA StepInv == IInv /\ [Next]_vars => IInv'
<1> SUFFICES ASSUME IInv, [Next]_vars PROVE IInv'
  OBVIOUS
<1>1. CASE xenomai_bootstrap
  BY <1>1, BootstrapKeeps
<1>2. CASE Open \/ MallocList
  BY <1>2, OpenKeeps
<1>3. CASE Read
  BY <1>3, ReadKeeps
<1>4. CASE Count
  BY <1>4, CountKeeps
<1>5. CASE MallocVector
  BY <1>5, MallocVectorKeeps
<1>6. CASE Fill
  BY <1>6, FillKeeps
<1>7. CASE CallInit
  BY <1>7, CallInitKeeps
<1>8. CASE xenomai_main
  BY <1>8, MainWrapperKeeps
<1>9. CASE main
  BY <1>9, MainKeeps
<1>10. CASE UNCHANGED vars
  <2>1. UNCHANGED <<line, glibc, images, wrapped, early, inits, image, pc, argv,
                    fd, heap, len, buf, p, n, slots, v>>
    BY <1>10 DEF vars, build, fetch
  <2>2. TypeOK' /\ FetchInv' /\ MemoryInv'
    <3>1. fd' \in BOOLEAN /\ glibc' \in BOOLEAN /\ wrapped' \in BOOLEAN
      BY <2>1, Zenon DEF IInv, TypeOK
    <3>2. QED
      BY <2>1, <3>1 DEF IInv, TypeOK, FetchInv, MemoryInv
  <2>3. ImageInv' /\ RunInv'
    BY <2>1 DEF IInv, ImageInv, RunInv, MainSeesReduced, WrapperInitialises, Asked
  <2>4. QED
    BY <2>2, <2>3 DEF IInv
<1>11. QED
  BY <1>1, <1>2, <1>3, <1>4, <1>5, <1>6, <1>7, <1>8, <1>9, <1>10 DEF Next, Steps, Terminated

LEMMA Invariant == Spec => []IInv
<1>1. QED
  BY Initially, StepInv, PTL DEF Spec

(***************************************************************************)
(* The theorems                                                            *)
(***************************************************************************)
\* Every variable keeps its range: no image calls xenomai_init three times.
THEOREM BootstrapTypeCorrect == Spec => []TypeOK
<1>1. IInv => TypeOK
  BY DEF IInv
<1>2. QED
  BY <1>1, Invariant, PTL

\* Neither loop of _xenomai_init_fetchargv reads beyond the bytes that were
\* read, and the second writes no entry the first did not count.
THEOREM FetchStaysInBounds == Spec => []InBounds
<1>1. IInv => InBounds
  <2> SUFFICES ASSUME IInv PROVE InBounds
    OBVIOUS
  <2>1. line \in CommandLines /\ p <= Len(buf) + 1 /\ n \in 0..Len(line)
        /\ (pc = "fill" => Len(v) = n /\ slots = Len(line) + 1)
    BY DEF IInv, FetchInv, TypeOK
  <2>2. Len(line) \in Nat
    BY <2>1, LineType
  <2>3. QED
    BY <2>1, <2>2 DEF InBounds
<1>2. QED
  BY <1>1, Invariant, PTL

\* Whatever its length compared with the buffers tried, the command line read
\* from /proc/self/cmdline becomes the vector the process was started with.
THEOREM FetchBuildsTheVector == Spec => []VectorIsCommandLine
<1>1. IInv => VectorIsCommandLine
  BY DEF IInv, FetchInv, VectorIsCommandLine
<1>2. QED
  BY <1>1, Invariant, PTL

\* Every way out of a constructor closes the descriptor and frees the list,
\* unless the vector in use points into it.
THEOREM BootstrapLeaksNothing == Spec => []NoLeak
<1>1. IInv => NoLeak
  BY DEF IInv, MemoryInv, NoLeak
<1>2. QED
  BY <1>1, Invariant, PTL

\* main works with the vector xenomai_init has reduced, or with the untouched
\* one when the image it asks was not initialised.
THEOREM MainGetsTheReducedVector == Spec => []MainSeesReduced
<1>1. IInv => MainSeesReduced
  BY DEF IInv, RunInv
<1>2. QED
  BY <1>1, Invariant, PTL

\* Behind the wrapper the executable is initialised when main runs, and only
\* once, whatever its constructor failed at.
THEOREM WrapperInitialisesOnce == Spec => []WrapperInitialises
<1>1. IInv => WrapperInitialises
  BY DEF IInv, RunInv
<1>2. QED
  BY <1>1, Invariant, PTL
=============================================================================
