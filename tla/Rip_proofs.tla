----------------------------- MODULE Rip_proofs -----------------------------
(***************************************************************************)
(* Proofs about Rip, for every network of routers, every metric, value of  *)
(* the attributes and bound: the tables stay consistent, no router         *)
(* believes in a path shorter than the shortest one there ever was, and    *)
(* over a link that lost nothing a router has what its gateway told last.  *)
(* The distances of Rip, those of walks of a bounded length, are shown to  *)
(* be those of walks of any length first.                                  *)
(***************************************************************************)
EXTENDS Rip, FiniteSetTheorems, WellFoundedInduction, SequenceTheorems, TLAPS

-----------------------------------------------------------------------------
(* Facts about numbers and sequences *)

\* A set of naturals, unless it is empty, has a least element.
LEMMA Least ==
    ASSUME NEW S \in SUBSET Nat, S # {}
    PROVE  \E m \in S : \A n \in S : m <= n
  <1> DEFINE Less == {p \in Nat \X Nat : p[1] < p[2]}
  <1>1. IsWellFoundedOn(Less, Nat)
    BY NatLessThanWellFounded DEF OpToRel
  <1> HIDE DEF Less
  <1>2. PICK m \in S : \A n \in S : ~(<<n, m>> \in Less)
    BY <1>1, WFMin
  <1>3. \A n \in S : ~(n < m)
    BY <1>2 DEF Less
  <1> QED
    BY <1>3

\* Induction: a set of naturals with 0 and with n + 1 for each n holds all.
LEMMA Induct ==
    ASSUME NEW S \in SUBSET Nat, 0 \in S, \A n \in S : n + 1 \in S
    PROVE  S = Nat
  <1> SUFFICES ASSUME Nat \ S # {} PROVE FALSE
    OBVIOUS
  <1>1. PICK m \in Nat \ S : \A n \in Nat \ S : m <= n
    BY Least
  <1>2. m # 0 /\ m - 1 \in Nat
    BY <1>1
  <1>3. m - 1 \in S
    BY <1>1, <1>2
  <1> QED
    BY <1>1, <1>2, <1>3

\* A sequence with one more element.
LEMMA AppendFacts ==
    ASSUME NEW S, NEW s \in Seq(S), NEW x \in S
    PROVE  /\ Append(s, x) \in Seq(S) /\ Len(s) \in Nat /\ DOMAIN s = 1..Len(s)
           /\ Len(Append(s, x)) = Len(s) + 1
           /\ DOMAIN Append(s, x) = 1..(Len(s) + 1)
           /\ Append(s, x)[Len(s) + 1] = x
           /\ \A i \in 1..Len(s) : Append(s, x)[i] = s[i]
           /\ Append(s, x) = [i \in 1..(Len(s) + 1) |-> IF i = Len(s) + 1 THEN x ELSE s[i]]
  <1>1. Len(s) \in Nat /\ DOMAIN s = 1..Len(s)
    OBVIOUS
  <1>2. /\ Append(s, x) \in Seq(S) /\ Len(Append(s, x)) = Len(s) + 1
        /\ DOMAIN Append(s, x) = 1..(Len(s) + 1)
        /\ Append(s, x)[Len(s) + 1] = x
        /\ \A i \in 1..Len(s) : Append(s, x)[i] = s[i]
    OBVIOUS
  <1>3. \A i \in 1..(Len(s) + 1) : i = Len(s) + 1 \/ i \in 1..Len(s)
    BY <1>1
  <1>4. \A w \in Seq(S) : w = [i \in 1..Len(w) |-> w[i]]
    OBVIOUS
  <1>5. Append(s, x) = [i \in 1..(Len(s) + 1) |-> Append(s, x)[i]]
    BY <1>2, <1>4
  <1>6. Append(s, x) = [i \in 1..(Len(s) + 1) |-> IF i = Len(s) + 1 THEN x ELSE s[i]]
    BY <1>2, <1>3, <1>5
  <1> QED
    BY <1>1, <1>2, <1>6

\* A sequence without its first element.
LEMMA TailFacts ==
    ASSUME NEW S, NEW s \in Seq(S), s # <<>>
    PROVE  /\ Tail(s) \in Seq(S) /\ Len(s) \in Nat \ {0}
           /\ Len(Tail(s)) = Len(s) - 1 /\ Head(s) = s[1]
           /\ \A i \in 1..(Len(s) - 1) : Tail(s)[i] = s[i + 1]
  OBVIOUS

\* A part of a sequence.
LEMMA SubSeqFacts ==
    ASSUME NEW S, NEW s \in Seq(S), NEW m \in 1..(Len(s) + 1), NEW n \in 0..Len(s), m <= n + 1
    PROVE  /\ SubSeq(s, m, n) \in Seq(S)
           /\ Len(SubSeq(s, m, n)) = n - m + 1
           /\ \A i \in 1..(n - m + 1) : SubSeq(s, m, n)[i] = s[m + i - 1]
  <1>1. Len(s) \in Nat /\ m \in Nat \ {0} /\ n \in Nat
    OBVIOUS
  <1>2. \A i \in m..n : s[i] \in S
    <2>1. \A i \in 1..Len(s) : s[i] \in S
      OBVIOUS
    <2> QED
      BY <1>1, <2>1
  <1>3. SubSeq(s, m, n) \in Seq(S)
    BY <1>1, <1>2
  <1>4. Len(SubSeq(s, m, n)) = n - m + 1
    BY <1>1
  <1>5. \A i \in 1..(n - m + 1) : SubSeq(s, m, n)[i] = s[m + i - 1]
    BY <1>1
  <1> QED
    BY <1>3, <1>4, <1>5

\* What takes one value of a recursive function on 0..N to the next.
Steps(T, N) == [1..N -> [T -> T]]

\* The recursive function exists.
LEMMA Iterated ==
    ASSUME NEW T, NEW N \in Nat, NEW start \in T, NEW step \in Steps(T, N)
    PROVE  \E f \in [0..N -> T] : f[0] = start /\ \A i \in 1..N : f[i] = step[i][f[i - 1]]
  <1> DEFINE Upto(f, n) == /\ f \in [0..N -> T] /\ f[0] = start
                           /\ \A i \in 1..n : f[i] = step[i][f[i - 1]]
             S == {n \in Nat : n <= N => \E f : Upto(f, n)}
  <1>1. 0 \in S
    <2> DEFINE f == [i \in 0..N |-> start]
    <2>1. f \in [0..N -> T] /\ f[0] = start
      OBVIOUS
    <2> HIDE DEF f
    <2>2. Upto(f, 0)
      BY <2>1
    <2> QED
      BY <2>2
  <1>2. ASSUME NEW n \in S PROVE n + 1 \in S
    <2> SUFFICES ASSUME n + 1 <= N PROVE \E f : Upto(f, n + 1)
      OBVIOUS
    <2>1. n \in Nat /\ n <= N /\ n + 1 \in 1..N /\ n \in 0..N /\ n + 1 \in 0..N
      OBVIOUS
    <2>2. PICK f : Upto(f, n)
      BY <2>1
    <2> DEFINE h == [f EXCEPT ![n + 1] = step[n + 1][f[n]]]
    <2>3. step[n + 1][f[n]] \in T
      BY <2>1, <2>2 DEF Steps
    <2>4. h \in [0..N -> T] /\ h[n + 1] = step[n + 1][f[n]] /\ \A i \in 0..n : h[i] = f[i]
      <3>1. \A i \in 0..n : i \in 0..N /\ i # n + 1
        BY <2>1
      <3> QED
        BY <2>1, <2>2, <2>3, <3>1
    <2> HIDE DEF h
    <2>5. ASSUME NEW i \in 1..(n + 1) PROVE h[i] = step[i][h[i - 1]]
      <3>1. CASE i = n + 1
        <4>1. i - 1 = n /\ n \in 0..n
          BY <2>1, <3>1
        <4> QED
          BY <2>4, <3>1, <4>1
      <3>2. CASE i # n + 1
        <4>1. i \in 1..n /\ i \in 0..n /\ i - 1 \in 0..n
          BY <2>1, <3>2
        <4> QED
          BY <2>2, <2>4, <4>1
      <3> QED
        BY <3>1, <3>2
    <2>6. h[0] = start
      <3>1. 0 \in 0..n
        BY <2>1
      <3> QED
        BY <2>2, <2>4, <3>1
    <2> QED
      BY <2>4, <2>5, <2>6
  <1> HIDE DEF S, Upto
  <1>3. S \in SUBSET Nat
    BY DEF S
  <1>4. N \in S
    BY <1>1, <1>2, <1>3, Induct
  <1>5. PICK f : Upto(f, N)
    BY <1>4 DEF S
  <1> QED
    BY <1>5 DEF Upto

-----------------------------------------------------------------------------

Metrics == [Router -> Metric]

(* What the assumption says of numbers and links. *)
LEMMA Constants ==
    /\ LinkDown \in Nat \ {0} /\ Metric \subseteq Nat \ {0}
    /\ 1 \in Metric /\ LinkDown \in Metric
    /\ \A m \in Metric : m <= LinkDown
    /\ \A i \in Interface : Cost[i] \in Metric /\ i = <<i[1], i[2]>> /\ i[1] \in Router
    /\ \A l \in Links : l[2] \in Router /\ l[2] # Stub /\ <<l[2], l[1]>> \in Links
    /\ Stub \notin Router
  <1>1. /\ LinkDown \in Nat \ {0} /\ Stub \notin Router
        /\ Interface \subseteq Router \X (Router \cup {Stub})
        /\ \A i \in Interface : i[2] # Stub => <<i[2], i[1]>> \in Interface
        /\ Cost \in [Interface -> 1..LinkDown]
    BY RipAssumption
  <1>2. /\ Metric \subseteq Nat \ {0} /\ 1 \in Metric /\ LinkDown \in Metric
        /\ \A m \in Metric : m <= LinkDown
    BY <1>1 DEF Metric
  <1>3. \A i \in Interface : Cost[i] \in Metric /\ i = <<i[1], i[2]>> /\ i[1] \in Router
    BY <1>1 DEF Metric
  <1>4. \A l \in Links : l[2] \in Router /\ l[2] # Stub /\ <<l[2], l[1]>> \in Links
    BY <1>1 DEF Links
  <1> QED
    BY <1>1, <1>2, <1>3, <1>4

-----------------------------------------------------------------------------
(* Distances *)

LEMMA MinFacts ==
    ASSUME NEW S \in SUBSET Nat, S # {}
    PROVE  Min(S) \in S /\ \A x \in S : Min(S) <= x
  <1>1. \E m \in S : \A n \in S : m <= n
    BY Least
  <1> QED
    BY <1>1 DEF Min

\* One more step of r goes nowhere or to a neighbour.
LEMMA RelaxedFacts ==
    ASSUME NEW I \in SUBSET Interface, NEW d \in Metrics
    PROVE  /\ Relaxed(I, d) \in Metrics
           /\ \A r \in Router :
                IF <<r, Stub>> \in I THEN Relaxed(I, d)[r] = 1
                ELSE /\ \A x \in Neighbours(I, r) : Relaxed(I, d)[r] <= d[x] + Cost[<<r, x>>]
                     /\ \/ Relaxed(I, d)[r] = LinkDown
                        \/ \E x \in Neighbours(I, r) : Relaxed(I, d)[r] = d[x] + Cost[<<r, x>>]
  <1> DEFINE steps(r) == {d[x] + Cost[<<r, x>>] : x \in Neighbours(I, r)}
             ends(r) == {LinkDown} \cup steps(r)
  <1>1. ASSUME NEW r \in Router, NEW x \in Neighbours(I, r)
        PROVE  d[x] \in Nat \ {0} /\ Cost[<<r, x>>] \in Nat \ {0} /\ d[x] + Cost[<<r, x>>] \in Nat \ {0}
    <2>1. x \in Router /\ <<r, x>> \in Interface
      BY DEF Neighbours
    <2>2. d[x] \in Nat \ {0} /\ Cost[<<r, x>>] \in Nat \ {0}
      BY <2>1, Constants DEF Metrics
    <2> QED
      BY <2>2
  <1>2. ASSUME NEW r \in Router
        PROVE  /\ Min(ends(r)) \in ends(r) /\ \A y \in ends(r) : Min(ends(r)) <= y
               /\ Min(ends(r)) \in Metric
    <2>1. ends(r) \in SUBSET (Nat \ {0}) /\ LinkDown \in ends(r)
      <3>1. steps(r) \in SUBSET (Nat \ {0})
        BY <1>1
      <3>2. LinkDown \in Nat \ {0}
        BY Constants
      <3> HIDE DEF steps
      <3> QED
        BY <3>1, <3>2
    <2> HIDE DEF ends
    <2>2. Min(ends(r)) \in ends(r) /\ \A y \in ends(r) : Min(ends(r)) <= y
      BY <2>1, MinFacts
    <2>3. Min(ends(r)) <= LinkDown /\ Min(ends(r)) \in Nat \ {0}
      BY <2>1, <2>2
    <2>4. Min(ends(r)) \in Metric
      BY <2>3, Constants DEF Metric
    <2> QED
      BY <2>2, <2>4
  <1>3. \A r \in Router : Relaxed(I, d)[r] = IF <<r, Stub>> \in I THEN 1 ELSE Min(ends(r))
    BY DEF Relaxed
  <1>4. Relaxed(I, d) \in Metrics
    <2>1. \A r \in Router : (IF <<r, Stub>> \in I THEN 1 ELSE Min(ends(r))) \in Metric
      BY <1>2, Constants
    <2>2. Relaxed(I, d) = [r \in Router |-> IF <<r, Stub>> \in I THEN 1 ELSE Min(ends(r))]
      BY DEF Relaxed
    <2> HIDE DEF ends
    <2> QED
      BY <2>1, <2>2 DEF Metrics
  <1>5. ASSUME NEW r \in Router, <<r, Stub>> \notin I
        PROVE  /\ \A x \in Neighbours(I, r) : Relaxed(I, d)[r] <= d[x] + Cost[<<r, x>>]
               /\ \/ Relaxed(I, d)[r] = LinkDown
                  \/ \E x \in Neighbours(I, r) : Relaxed(I, d)[r] = d[x] + Cost[<<r, x>>]
    <2>1. Relaxed(I, d)[r] = Min(ends(r))
      BY <1>3, <1>5
    <2>2. \A x \in Neighbours(I, r) : d[x] + Cost[<<r, x>>] \in ends(r)
      OBVIOUS
    <2>3. \A y \in ends(r) : y = LinkDown \/ \E x \in Neighbours(I, r) : y = d[x] + Cost[<<r, x>>]
      OBVIOUS
    <2> HIDE DEF ends
    <2> QED
      BY <1>2, <2>1, <2>2, <2>3
  <1> QED
    BY <1>3, <1>4, <1>5

\* The metrics of walks of up to n steps, for n to the number of routers and one
\* more.
Walks(I, e) ==
    /\ e \in [0..(Cardinality(Router) + 1) -> Metrics]
    /\ e[0] = Start(I)
    /\ \A k \in 0..Cardinality(Router) : e[k + 1] = Relaxed(I, e[k])

\* Longer walks are no worse.
LEMMA WalksShrink ==
    ASSUME NEW I \in SUBSET Interface, NEW e, Walks(I, e), Cardinality(Router) \in Nat
    PROVE  \A n \in 0..(Cardinality(Router) + 1) : \A k \in 0..n : \A r \in Router : e[n][r] <= e[k][r]
  <1> DEFINE N == Cardinality(Router)
             better(k) == \A r \in Router : e[k + 1][r] <= e[k][r]
             S == {k \in Nat : k <= N => better(k)}
             T == {n \in Nat : n <= N + 1 => \A k \in 0..n : \A r \in Router : e[n][r] <= e[k][r]}
  <1>1. /\ N \in Nat /\ e[0] = Start(I)
        /\ \A k \in 0..(N + 1) : e[k] \in Metrics /\ \A r \in Router : e[k][r] \in Nat \ {0} /\ e[k][r] <= LinkDown
        /\ \A k \in 0..N : e[k + 1] = Relaxed(I, e[k]) /\ k \in 0..(N + 1) /\ k + 1 \in 0..(N + 1)
    <2>1. N \in Nat /\ e[0] = Start(I) /\ e \in [0..(N + 1) -> Metrics] /\ \A k \in 0..N : e[k + 1] = Relaxed(I, e[k])
      BY DEF Walks
    <2> HIDE DEF N
    <2>2. \A k \in 0..(N + 1) : e[k] \in Metrics
      BY <2>1
    <2>3. ASSUME NEW k \in 0..(N + 1), NEW r \in Router PROVE e[k][r] \in Nat \ {0} /\ e[k][r] <= LinkDown
      BY <2>2, Constants DEF Metrics
    <2>4. \A k \in 0..N : k \in 0..(N + 1) /\ k + 1 \in 0..(N + 1)
      BY <2>1
    <2> QED
      BY <2>1, <2>2, <2>3, <2>4
  <1> HIDE DEF N
  <1>2. 0 \in S
    <2>1. 0 \in 0..N /\ e[0 + 1] = Relaxed(I, e[0]) /\ e[0] \in Metrics /\ 0 + 1 \in 0..(N + 1)
      BY <1>1
    <2>2. ASSUME NEW r \in Router PROVE e[0 + 1][r] <= e[0][r]
      <3>1. e[0][r] = IF <<r, Stub>> \in I THEN 1 ELSE LinkDown
        BY <1>1 DEF Start
      <3>2. CASE <<r, Stub>> \in I
        <4>1. Relaxed(I, e[0])[r] = 1
          BY <2>1, <3>2, RelaxedFacts
        <4>2. e[0 + 1][r] = 1
          BY <2>1, <4>1
        <4> QED
          BY <3>1, <3>2, <4>2
      <3>3. CASE <<r, Stub>> \notin I
        BY <1>1, <2>1, <3>1, <3>3
      <3> QED
        BY <3>2, <3>3
    <2> QED
      BY <2>2
  <1>3. ASSUME NEW k \in S PROVE k + 1 \in S
    <2> SUFFICES ASSUME k + 1 <= N PROVE better(k + 1)
      OBVIOUS
    <2>1. k \in 0..N /\ k + 1 \in 0..N /\ k + 1 \in 0..(N + 1) /\ k + 1 + 1 \in 0..(N + 1) /\ k \in 0..(N + 1)
      BY <1>1
    <2>2. better(k)
      BY <2>1
    <2> DEFINE a == e[k]
               b == e[k + 1]
               c == e[k + 1 + 1]
    <2>3. a \in Metrics /\ b \in Metrics /\ c \in Metrics /\ b = Relaxed(I, a) /\ c = Relaxed(I, b)
      BY <1>1, <2>1
    <2>4. \A r \in Router : b[r] <= a[r] /\ a[r] \in Nat /\ b[r] \in Nat /\ c[r] \in Nat /\ c[r] <= LinkDown
      BY <1>1, <2>1, <2>2
    <2> HIDE DEF a, b, c
    <2>5. ASSUME NEW r \in Router PROVE c[r] <= b[r]
      <3>1. CASE <<r, Stub>> \in I
        <4>1. b[r] = 1 /\ c[r] = 1
          BY <2>3, <3>1, RelaxedFacts
        <4> QED
          BY <4>1
      <3>2. CASE <<r, Stub>> \notin I
        <4>1. CASE b[r] = LinkDown
          BY <2>4, <4>1
        <4>2. ASSUME NEW x \in Neighbours(I, r), b[r] = a[x] + Cost[<<r, x>>] PROVE c[r] <= b[r]
          <5>1. c[r] <= b[x] + Cost[<<r, x>>]
            BY <2>3, <3>2, RelaxedFacts
          <5>2. x \in Router /\ Cost[<<r, x>>] \in Nat
            BY Constants DEF Neighbours
          <5> QED
            BY <2>4, <4>2, <5>1, <5>2
        <4>3. b[r] = LinkDown \/ \E x \in Neighbours(I, r) : b[r] = a[x] + Cost[<<r, x>>]
          <5>1. \/ Relaxed(I, a)[r] = LinkDown
                \/ \E x \in Neighbours(I, r) : Relaxed(I, a)[r] = a[x] + Cost[<<r, x>>]
            <6>1. a \in Metrics /\ r \in Router
              BY <2>3
            <6>2. \A q \in Router :
                    IF <<q, Stub>> \in I THEN Relaxed(I, a)[q] = 1
                    ELSE /\ \A x \in Neighbours(I, q) : Relaxed(I, a)[q] <= a[x] + Cost[<<q, x>>]
                         /\ \/ Relaxed(I, a)[q] = LinkDown
                            \/ \E x \in Neighbours(I, q) : Relaxed(I, a)[q] = a[x] + Cost[<<q, x>>]
              BY <6>1, RelaxedFacts
            <6> QED
              BY <3>2, <6>1, <6>2
          <5> QED
            BY <2>3, <5>1
        <4> QED
          BY <4>1, <4>2, <4>3
      <3> QED
        BY <3>1, <3>2
    <2> QED
      BY <2>5 DEF b, c
  <1>4. \A k \in 0..N : better(k)
    <2> HIDE DEF S
    <2>1. S = Nat
      <3>1. S \in SUBSET Nat
        BY DEF S
      <3> QED
        BY <1>2, <1>3, <3>1, Induct
    <2>2. \A k \in S : k <= N => better(k)
      BY DEF S
    <2> HIDE DEF better
    <2> QED
      BY <1>1, <2>1, <2>2
  <1>5. 0 \in T
    <2>1. \A k \in 0..0 : k = 0 /\ 0 \in 0..(N + 1)
      BY <1>1
    <2> QED
      BY <1>1, <2>1
  <1>6. ASSUME NEW n \in T PROVE n + 1 \in T
    <2> SUFFICES ASSUME n + 1 <= N + 1, NEW k \in 0..(n + 1), NEW r \in Router PROVE e[n + 1][r] <= e[k][r]
      OBVIOUS
    <2>1. n \in 0..N /\ n <= N + 1 /\ n \in 0..(N + 1) /\ n + 1 \in 0..(N + 1) /\ k \in 0..(N + 1)
      BY <1>1
    <2>2. e[n + 1][r] <= e[n][r]
      BY <1>4, <2>1
    <2>3. e[n + 1][r] \in Nat /\ e[n][r] \in Nat /\ e[k][r] \in Nat
      BY <1>1, <2>1
    <2>4. CASE k = n + 1
      BY <2>3, <2>4
    <2>5. CASE k # n + 1
      <3>1. k \in 0..n
        BY <2>1, <2>5
      <3>2. e[n][r] <= e[k][r]
        BY <2>1, <3>1
      <3> QED
        BY <2>2, <2>3, <3>2
    <2> QED
      BY <2>4, <2>5
  <1>7. T = Nat
    <2>1. T \in SUBSET Nat
      OBVIOUS
    <2> HIDE DEF T
    <2> QED
      BY <1>5, <1>6, <2>1, Induct
  <1>8. ASSUME NEW n \in 0..(N + 1) PROVE \A k \in 0..n : \A r \in Router : e[n][r] <= e[k][r]
    <2>1. n \in T /\ n <= N + 1
      BY <1>1, <1>7
    <2> QED
      BY <2>1
  <1> QED
    BY <1>8 DEF N

\* With each step one more router has the metric it ends with, the one with the
\* least of those that do not have it yet: in the end all do.
LEMMA WalksSettle ==
    ASSUME NEW I \in SUBSET Interface, NEW e, Walks(I, e)
    PROVE  e[Cardinality(Router)] = e[Cardinality(Router) + 1]
  <1> DEFINE N == Cardinality(Router)
             last == e[N + 1]
             Done(n) == {r \in Router : e[n][r] = last[r]}
             S == {n \in Nat : n <= N => Done(n) = Router \/ Cardinality(Done(n)) >= n}
  <1>0. IsFiniteSet(Router) /\ N \in Nat
    BY RipAssumption, FS_CardinalityType
  <1>1. /\ e[0] = Start(I)
        /\ \A k \in 0..(N + 1) : e[k] \in Metrics
        /\ \A k \in 0..N : e[k + 1] = Relaxed(I, e[k])
    BY <1>0 DEF Walks
  <1>2. \A n \in 0..(N + 1) : \A k \in 0..n : \A r \in Router : e[n][r] <= e[k][r]
    BY <1>0, WalksShrink
  <1> HIDE DEF N
  <1>3. \A k \in 0..(N + 1) : \A r \in Router : e[k][r] \in Nat \ {0} /\ e[k][r] <= LinkDown
    BY <1>1, Constants DEF Metrics
  <1>4. N + 1 \in 0..(N + 1) /\ N \in 0..N /\ N \in 0..(N + 1)
    BY <1>0
  <1>5. \A k \in 0..(N + 1) : \A r \in Router : last[r] <= e[k][r]
    <2>1. \A k \in 0..(N + 1) : k \in 0..(N + 1)
      OBVIOUS
    <2> QED
      BY <1>2, <1>4
  <1>6. \A r \in Router : last[r] \in Nat \ {0} /\ last[r] <= LinkDown
    BY <1>3, <1>4
  <1>7. last = Relaxed(I, e[N])
    BY <1>1, <1>4
  <1> HIDE DEF last
  <1>8. ASSUME NEW n \in 0..N PROVE Done(n) \subseteq Done(n + 1)
    <2>1. n \in 0..(n + 1) /\ n + 1 \in 0..(N + 1) /\ n \in 0..(N + 1)
      BY <1>0
    <2> SUFFICES ASSUME NEW r \in Router, e[n][r] = last[r] PROVE e[n + 1][r] = last[r]
      OBVIOUS
    <2>2. e[n + 1][r] <= e[n][r] /\ last[r] <= e[n + 1][r]
      BY <1>2, <1>5, <2>1
    <2>3. e[n + 1][r] \in Nat /\ last[r] \in Nat
      BY <1>3, <1>6, <2>1
    <2> QED
      BY <2>2, <2>3
  <1>9. ASSUME NEW n \in 0..N, Done(n) # Router
        PROVE  \E r \in Router \ Done(n) : r \in Done(n + 1)
    <2>1. n \in Nat /\ n + 1 \in 0..(N + 1) /\ n \in 0..(N + 1) /\ n \in 0..N
      BY <1>0
    <2> DEFINE Late == {last[r] : r \in Router \ Done(n)}
    <2>2. PICK m \in Late : \A y \in Late : m <= y
      <3>1. Late \in SUBSET Nat /\ Late # {}
        BY <1>6, <1>9
      <3> HIDE DEF Late
      <3> QED
        BY <3>1, Least
    <2>3. PICK r \in Router \ Done(n) : m = last[r]
      OBVIOUS
    <2>4. \A x \in Router : last[x] < last[r] => x \in Done(n)
      <3> SUFFICES ASSUME NEW x \in Router \ Done(n), last[x] < last[r] PROVE FALSE
        OBVIOUS
      <3>1. last[x] \in Late
        OBVIOUS
      <3>2. last[r] <= last[x]
        BY <2>2, <2>3, <3>1
      <3> QED
        BY <1>6, <3>2
    <2>5. last[r] < e[n][r] /\ last[r] < LinkDown /\ last[r] \in Nat
      <3>1. r \in Router /\ e[n][r] # last[r]
        OBVIOUS
      <3>2. last[r] <= e[n][r] /\ e[n][r] \in Nat /\ e[n][r] <= LinkDown /\ last[r] \in Nat /\ LinkDown \in Nat
        BY <1>3, <1>5, <1>6, <2>1, <3>1, Constants
      <3> QED
        BY <3>1, <3>2
    <2>6. <<r, Stub>> \notin I
      <3> SUFFICES ASSUME <<r, Stub>> \in I PROVE FALSE
        OBVIOUS
      <3>1. last[r] \in Nat \ {0} /\ 0 \in 0..n /\ e[n][r] <= e[0][r] /\ e[n][r] \in Nat
        BY <1>2, <1>3, <1>6, <2>1
      <3>2. e[0][r] = 1
        BY <1>1 DEF Start
      <3> QED
        BY <2>5, <3>1, <3>2
    <2>7. PICK x \in Neighbours(I, r) : last[r] = e[N][x] + Cost[<<r, x>>]
      <3> DEFINE d == e[N]
      <3>1. d \in Metrics /\ r \in Router /\ last = Relaxed(I, d)
        BY <1>1, <1>4, <1>7
      <3> HIDE DEF d
      <3>2. \A q \in Router :
              IF <<q, Stub>> \in I THEN Relaxed(I, d)[q] = 1
              ELSE /\ \A x \in Neighbours(I, q) : Relaxed(I, d)[q] <= d[x] + Cost[<<q, x>>]
                   /\ \/ Relaxed(I, d)[q] = LinkDown
                      \/ \E x \in Neighbours(I, q) : Relaxed(I, d)[q] = d[x] + Cost[<<q, x>>]
        BY <3>1, RelaxedFacts
      <3>3. Relaxed(I, d)[r] = LinkDown \/ \E x \in Neighbours(I, r) : Relaxed(I, d)[r] = d[x] + Cost[<<r, x>>]
        BY <2>6, <3>1, <3>2
      <3>4. Relaxed(I, d)[r] # LinkDown
        BY <2>5, <3>1, Constants
      <3> QED
        BY <3>1, <3>3, <3>4 DEF d
    <2>8. x \in Router /\ Cost[<<r, x>>] \in Nat \ {0} /\ e[N][x] \in Nat /\ e[n][x] \in Nat
      BY <1>3, <1>4, <2>1, Constants DEF Neighbours
    <2>9. x \in Done(n)
      <3>1. last[x] <= e[N][x]
        BY <1>4, <1>5, <2>8
      <3>2. last[x] < last[r]
        BY <1>6, <2>7, <2>8, <3>1
      <3> QED
        BY <2>4, <2>8, <3>2
    <2>10. e[n][x] = e[N][x]
      <3>1. e[n][x] = last[x] /\ e[N][x] <= e[n][x] /\ last[x] <= e[N][x]
        BY <1>2, <1>4, <1>5, <2>1, <2>8, <2>9
      <3> QED
        BY <1>6, <2>8, <3>1
    <2>11. e[n + 1][r] <= e[n][x] + Cost[<<r, x>>]
      <3>1. e[n] \in Metrics /\ r \in Router /\ e[n + 1] = Relaxed(I, e[n])
        BY <1>1, <2>1
      <3> QED
        BY <2>6, <3>1, RelaxedFacts
    <2>12. last[r] <= e[n + 1][r] /\ e[n + 1][r] \in Nat
      BY <1>3, <1>5, <2>1
    <2>13. e[n + 1][r] = last[r]
      BY <2>5, <2>7, <2>8, <2>10, <2>11, <2>12
    <2> QED
      BY <2>13
  <1>10. \A n \in 0..(N + 1) : IsFiniteSet(Done(n)) /\ Cardinality(Done(n)) \in Nat /\ Done(n) \subseteq Router
    <2>1. \A n \in 0..(N + 1) : Done(n) \subseteq Router
      OBVIOUS
    <2> HIDE DEF Done
    <2> QED
      BY <1>0, <2>1, FS_Subset, FS_CardinalityType
  <1>11. 0 \in S
    <2>1. 0 \in 0..(N + 1)
      BY <1>0
    <2>2. Cardinality(Done(0)) \in Nat
      BY <1>10, <2>1
    <2> HIDE DEF Done
    <2> QED
      BY <2>2
  <1>12. ASSUME NEW n \in S PROVE n + 1 \in S
    <2> SUFFICES ASSUME n + 1 <= N PROVE Done(n + 1) = Router \/ Cardinality(Done(n + 1)) >= n + 1
      OBVIOUS
    <2>1. n \in 0..N /\ n \in 0..(N + 1) /\ n + 1 \in 0..(N + 1) /\ n \in Nat /\ n <= N
      BY <1>0
    <2>2. Done(n) = Router \/ Cardinality(Done(n)) >= n
      BY <2>1
    <2>3. Done(n) \subseteq Done(n + 1) /\ Done(n + 1) \subseteq Router
      BY <1>8, <1>10, <2>1
    <2>4. Done(n) # Router => \E r \in Router \ Done(n) : r \in Done(n + 1)
      BY <1>9, <2>1
    <2>5. /\ IsFiniteSet(Done(n)) /\ Cardinality(Done(n)) \in Nat
          /\ IsFiniteSet(Done(n + 1)) /\ Cardinality(Done(n + 1)) \in Nat
      BY <1>10, <2>1
    <2> DEFINE a == Done(n)
               b == Done(n + 1)
    <2> HIDE DEF a, b, Done
    <2>6. CASE a = Router
      BY <2>3, <2>6 DEF a, b
    <2>7. CASE a # Router /\ Cardinality(a) >= n
      <3>1. PICK r \in Router \ a : r \in b
        BY <2>4, <2>7 DEF a, b
      <3>2. IsFiniteSet(a \cup {r}) /\ Cardinality(a \cup {r}) = Cardinality(a) + 1
        BY <2>5, <3>1, FS_AddElement DEF a
      <3>3. a \cup {r} \subseteq b /\ IsFiniteSet(b)
        BY <2>3, <2>5, <3>1 DEF a, b
      <3>4. Cardinality(a \cup {r}) <= Cardinality(b)
        BY <3>3, FS_Subset
      <3>5. Cardinality(a) \in Nat /\ Cardinality(b) \in Nat
        BY <2>5 DEF a, b
      <3>6. Cardinality(b) >= n + 1
        BY <2>1, <2>7, <3>2, <3>4, <3>5
      <3> QED
        BY <3>6 DEF b
    <2> QED
      BY <2>2, <2>6, <2>7 DEF a
  <1>13. Done(N) = Router
    <2>1. S = Nat
      <3>1. S \in SUBSET Nat
        OBVIOUS
      <3> HIDE DEF S
      <3> QED
        BY <1>11, <1>12, <3>1, Induct
    <2>2. Done(N) = Router \/ Cardinality(Done(N)) >= N
      <3>1. N \in S
        BY <1>0, <2>1
      <3> QED
        BY <1>0, <3>1
    <2>3. Done(N) \subseteq Router /\ Cardinality(Done(N)) \in Nat
      BY <1>4, <1>10
    <2> HIDE DEF Done
    <2>4. Cardinality(Done(N)) <= N /\ (Cardinality(Done(N)) = N => Done(N) = Router)
      BY <1>0, <2>3, FS_Subset DEF N
    <2> QED
      BY <1>0, <2>2, <2>3, <2>4
  <1>14. \A r \in Router : e[N][r] = last[r]
    BY <1>13
  <1>15. e[N] \in Metrics /\ last \in Metrics
    BY <1>1, <1>4 DEF last
  <1>16. e[N] = last
    BY <1>14, <1>15 DEF Metrics
  <1> QED
    BY <1>16 DEF last, N

LEMMA StartFacts ==
    ASSUME NEW I \in SUBSET Interface
    PROVE  Start(I) \in Metrics
  <1>1. \A r \in Router : (IF <<r, Stub>> \in I THEN 1 ELSE LinkDown) \in Metric
    BY Constants
  <1> QED
    BY <1>1 DEF Start, Metrics

\* The distances are those of walks of as many steps as there are routers.
LEMMA DistanceSteps ==
    ASSUME NEW I \in SUBSET Interface
    PROVE  \E d \in [0..Cardinality(Router) -> Metrics] :
             /\ d[0] = Start(I)
             /\ \A n \in 1..Cardinality(Router) : d[n] = Relaxed(I, d[n - 1])
             /\ Distance(I) = d[Cardinality(Router)]
  <1> DEFINE N == Cardinality(Router)
             F(g) == [n \in 0..N |-> IF n = 0 THEN Start(I) ELSE Relaxed(I, g[n - 1])]
             d == CHOOSE g : g = F(g)
             step == [n \in 1..N |-> [m \in Metrics |-> Relaxed(I, m)]]
  <1>1. N \in Nat
    BY RipAssumption, FS_CardinalityType
  <1>2. Distance(I) = d[N]
    BY DEF Distance
  <1> HIDE DEF N
  <1>3. PICK g \in [0..N -> Metrics] : g[0] = Start(I) /\ \A i \in 1..N : g[i] = step[i][g[i - 1]]
    <2>1. step \in Steps(Metrics, N)
      <3>1. \A m \in Metrics : Relaxed(I, m) \in Metrics
        BY RelaxedFacts
      <3> QED
        BY <3>1 DEF Steps
    <2> DEFINE start == Start(I)
    <2>2. start \in Metrics
      BY StartFacts
    <2> HIDE DEF step, start
    <2>3. \E f \in [0..N -> Metrics] : f[0] = start /\ \A i \in 1..N : f[i] = step[i][f[i - 1]]
      BY <1>1, <2>1, <2>2, Iterated
    <2> QED
      BY <2>3 DEF start
  <1>4. \A n \in 1..N : n \in 0..N /\ n - 1 \in 0..N /\ n # 0
    BY <1>1
  <1>5. g = F(g)
    <2>1. ASSUME NEW n \in 0..N, n # 0 PROVE g[n] = Relaxed(I, g[n - 1])
      <3>1. n \in 1..N
        BY <1>1, <2>1
      <3>2. g[n - 1] \in Metrics /\ g[n] = step[n][g[n - 1]]
        BY <1>3, <1>4, <3>1
      <3> QED
        BY <3>1, <3>2
    <2> HIDE DEF step
    <2>2. ASSUME NEW n \in 0..N PROVE g[n] = IF n = 0 THEN Start(I) ELSE Relaxed(I, g[n - 1])
      BY <1>3, <2>1
    <2>3. g = [n \in 0..N |-> g[n]]
      BY <1>3
    <2> QED
      BY <2>2, <2>3
  <1>6. d = F(d)
    <2> HIDE DEF F
    <2> QED
      BY <1>5
  <1> HIDE DEF d, step
  <1>7. d[0] = Start(I) /\ \A n \in 1..N : d[n] = Relaxed(I, d[n - 1])
    <2>1. \A n \in 0..N : d[n] = IF n = 0 THEN Start(I) ELSE Relaxed(I, d[n - 1])
      BY <1>6
    <2>2. 0 \in 0..N
      BY <1>1
    <2> QED
      BY <1>4, <2>1, <2>2
  <1>8. \A n \in 0..N : d[n] \in Metrics
    <2> DEFINE S == {n \in Nat : n <= N => d[n] \in Metrics}
    <2>1. 0 \in S
      BY <1>7, StartFacts
    <2>2. ASSUME NEW n \in S PROVE n + 1 \in S
      <3> SUFFICES ASSUME n + 1 <= N PROVE d[n + 1] \in Metrics
        OBVIOUS
      <3>1. n + 1 \in 1..N /\ n + 1 - 1 = n /\ n <= N
        BY <1>1
      <3>2. d[n] \in Metrics /\ d[n + 1] = Relaxed(I, d[n])
        BY <1>7, <3>1
      <3>3. Relaxed(I, d[n]) \in Metrics
        BY <3>2, RelaxedFacts
      <3> QED
        BY <3>2, <3>3
    <2>3. S = Nat
      <3>1. S \in SUBSET Nat
        OBVIOUS
      <3> HIDE DEF S
      <3> QED
        BY <2>1, <2>2, <3>1, Induct
    <2>4. \A n \in 0..N : n \in S /\ n <= N
      BY <1>1, <2>3
    <2> QED
      BY <2>4
  <1>9. d \in [0..N -> Metrics]
    <2>1. d = [n \in 0..N |-> d[n]]
      <3>1. F(d) = [n \in 0..N |-> F(d)[n]]
        OBVIOUS
      <3> HIDE DEF F
      <3> QED
        BY <1>6, <3>1
    <2> QED
      BY <1>8, <2>1
  <1> QED
    BY <1>2, <1>7, <1>9 DEF N

\* One step more changes nothing.
LEMMA DistanceFacts ==
    ASSUME NEW I \in SUBSET Interface
    PROVE  Distance(I) \in Metrics /\ Distance(I) = Relaxed(I, Distance(I))
  <1> DEFINE N == Cardinality(Router)
  <1>1. N \in Nat
    BY RipAssumption, FS_CardinalityType
  <1>2. PICK d \in [0..N -> Metrics] :
          /\ d[0] = Start(I)
          /\ \A n \in 1..N : d[n] = Relaxed(I, d[n - 1])
          /\ Distance(I) = d[N]
    BY DistanceSteps
  <1> DEFINE e == [n \in 0..(N + 1) |-> IF n \in 0..N THEN d[n] ELSE Relaxed(I, d[N])]
  <1>3. d[N] \in Metrics /\ Relaxed(I, d[N]) \in Metrics
    <2>1. d[N] \in Metrics
      <3> HIDE DEF N
      <3> QED
        BY <1>1, <1>2
    <2> QED
      BY <2>1, RelaxedFacts
  <1>4. Walks(I, e) /\ e[N] = d[N] /\ e[N + 1] = Relaxed(I, d[N])
    <2> HIDE DEF N
    <2>1. N \in 0..N /\ N \in 0..(N + 1) /\ N + 1 \notin 0..N /\ N + 1 \in 0..(N + 1)
      BY <1>1
    <2>2. e[N] = d[N] /\ e[N + 1] = Relaxed(I, d[N])
      BY <2>1
    <2>3. e \in [0..(N + 1) -> Metrics]
      BY <1>2, <1>3
    <2>4. e[0] = Start(I)
      BY <1>1, <1>2
    <2>5. ASSUME NEW k \in 0..N PROVE e[k + 1] = Relaxed(I, e[k])
      <3>1. CASE k = N
        BY <2>2, <3>1
      <3>2. CASE k # N
        <4>1. k + 1 \in 1..N /\ k + 1 \in 0..N /\ k + 1 \in 0..(N + 1) /\ k \in 0..(N + 1) /\ k + 1 - 1 = k
          BY <1>1, <3>2
        <4>2. e[k + 1] = d[k + 1] /\ e[k] = d[k]
          BY <4>1
        <4>3. d[k + 1] = Relaxed(I, d[k])
          BY <1>2, <4>1
        <4> QED
          BY <4>2, <4>3
      <3> QED
        BY <3>1, <3>2
    <2> HIDE DEF e
    <2> QED
      BY <2>2, <2>3, <2>4, <2>5 DEF Walks, N
  <1> HIDE DEF e
  <1>5. e[N] = e[N + 1]
    BY <1>4, WalksSettle
  <1> QED
    BY <1>2, <1>3, <1>4, <1>5

\* Distances are the only metrics that one step more does not change: were there
\* two, take the router with the least metric of those that they disagree on.
THEOREM DistancesAreUnique ==
    ASSUME NEW I \in SUBSET Interface
    PROVE  \A d \in [Router -> 1..LinkDown] : d = Relaxed(I, d) <=> d = Distance(I)
  <1> DEFINE D == Distance(I)
  <1>1. D \in Metrics /\ D = Relaxed(I, D)
    BY DistanceFacts
  <1> HIDE DEF D
  <1>2. ASSUME NEW a \in Metrics, NEW b \in Metrics, a = Relaxed(I, a), b = Relaxed(I, b),
               NEW r \in Router, a[r] < b[r],
               \A x \in Router : a[x] < a[r] => a[x] = b[x]
        PROVE  FALSE
    <2>1. \A x \in Router : a[x] \in Nat \ {0} /\ b[x] \in Nat \ {0} /\ b[x] <= LinkDown
      BY Constants DEF Metrics
    <2>2. <<r, Stub>> \notin I
      <3> SUFFICES ASSUME <<r, Stub>> \in I PROVE FALSE
        OBVIOUS
      <3>1. Relaxed(I, a)[r] = 1 /\ Relaxed(I, b)[r] = 1
        BY RelaxedFacts
      <3>2. a[r] = b[r]
        BY <1>2, <3>1
      <3> QED
        BY <1>2, <2>1, <3>2
    <2>3. PICK x \in Neighbours(I, r) : a[r] = a[x] + Cost[<<r, x>>]
      <3>1. \A q \in Router :
              IF <<q, Stub>> \in I THEN Relaxed(I, a)[q] = 1
              ELSE /\ \A x \in Neighbours(I, q) : Relaxed(I, a)[q] <= a[x] + Cost[<<q, x>>]
                   /\ \/ Relaxed(I, a)[q] = LinkDown
                      \/ \E x \in Neighbours(I, q) : Relaxed(I, a)[q] = a[x] + Cost[<<q, x>>]
        BY RelaxedFacts
      <3>2. Relaxed(I, a)[r] = LinkDown \/ \E x \in Neighbours(I, r) : Relaxed(I, a)[r] = a[x] + Cost[<<r, x>>]
        BY <2>2, <3>1
      <3>3. a[r] # LinkDown
        BY <1>2, <2>1, Constants
      <3> QED
        BY <1>2, <3>2, <3>3
    <2>4. x \in Router /\ Cost[<<r, x>>] \in Nat \ {0}
      BY Constants DEF Neighbours
    <2>5. a[x] = b[x]
      <3>1. a[x] < a[r]
        BY <2>1, <2>3, <2>4
      <3> QED
        BY <1>2, <2>4, <3>1
    <2>6. b[r] <= b[x] + Cost[<<r, x>>]
      <3>1. Relaxed(I, b)[r] <= b[x] + Cost[<<r, x>>]
        BY <2>2, RelaxedFacts
      <3> QED
        BY <1>2, <3>1
    <2> QED
      BY <1>2, <2>1, <2>3, <2>4, <2>5, <2>6
  <1>3. ASSUME NEW a \in Metrics, NEW b \in Metrics, a = Relaxed(I, a), b = Relaxed(I, b), NEW q \in Router, a[q] # b[q]
        PROVE  FALSE
    <2> DEFINE less(x) == IF a[x] < b[x] THEN a[x] ELSE b[x]
               T == {less(x) : x \in {y \in Router : a[y] # b[y]}}
    <2>1. \A x \in Router : a[x] \in Nat /\ b[x] \in Nat /\ less(x) \in Nat
      BY Constants DEF Metrics
    <2>2. PICK m \in T : \A y \in T : m <= y
      <3>1. T \in SUBSET Nat /\ T # {}
        BY <1>3, <2>1
      <3> HIDE DEF T
      <3> QED
        BY <3>1, Least
    <2>3. PICK r \in Router : a[r] # b[r] /\ m = less(r)
      OBVIOUS
    <2>4. ASSUME NEW x \in Router, a[x] # b[x] PROVE less(r) <= less(x)
      <3>1. less(x) \in T
        BY <2>4
      <3> QED
        BY <2>2, <2>3, <3>1
    <2>5. CASE a[r] < b[r]
      <3>1. \A x \in Router : a[x] < a[r] => a[x] = b[x]
        <4> SUFFICES ASSUME NEW x \in Router, a[x] < a[r], a[x] # b[x] PROVE FALSE
          OBVIOUS
        <4>1. less(r) <= less(x) /\ less(r) = a[r]
          BY <2>4, <2>5
        <4> QED
          BY <2>1, <4>1
      <3> QED
        BY <1>2, <1>3, <2>5, <3>1
    <2>6. CASE b[r] < a[r]
      <3>1. \A x \in Router : b[x] < b[r] => b[x] = a[x]
        <4> SUFFICES ASSUME NEW x \in Router, b[x] < b[r], a[x] # b[x] PROVE FALSE
          OBVIOUS
        <4>1. less(r) <= less(x)
          BY <2>4
        <4>2. less(r) = b[r]
          BY <2>1, <2>6
        <4> QED
          BY <2>1, <4>1, <4>2
      <3> QED
        BY <1>2, <1>3, <2>6, <3>1
    <2> QED
      BY <2>1, <2>3, <2>5, <2>6
  <1>4. ASSUME NEW d \in Metrics, d = Relaxed(I, d) PROVE d = D
    <2>1. \A q \in Router : d[q] = D[q]
      BY <1>1, <1>3, <1>4
    <2> QED
      BY <1>1, <2>1 DEF Metrics
  <1> QED
    BY <1>1, <1>4 DEF D, Metrics, Metric

-----------------------------------------------------------------------------
(* What routers may believe and tell *)

LEMMA ShortestFacts ==
    /\ ShortestEver \in Metrics
    /\ \A r \in Router : <<r, Stub>> \in Interface => ShortestEver[r] = 1
    /\ \A r \in Router : ShortestEver[r] \in Nat \ {0} /\ ShortestEver[r] <= LinkDown
  <1> DEFINE d == Distance(Interface)
  <1>1. d \in Metrics /\ d = Relaxed(Interface, d)
    BY DistanceFacts
  <1> HIDE DEF d
  <1>2. \A r \in Router : <<r, Stub>> \in Interface => Relaxed(Interface, d)[r] = 1
    BY <1>1, RelaxedFacts
  <1>3. \A r \in Router : d[r] \in Nat \ {0} /\ d[r] <= LinkDown
    BY <1>1, Constants DEF Metrics
  <1> QED
    BY <1>1, <1>2, <1>3 DEF d, ShortestEver

\* The metrics router r may tell, and the routes it may have.
Tellable(r) == {m \in Metric : m >= ShortestEver[r]}

Believable(r) ==
    {e \in Entry :
       /\ e.metric \in Tellable(r)
       /\ e.status = "RIP_INVALID" => e.metric = LinkDown
       /\ e.event = "none" => e.status = "RIP_VALID" /\ e.gateway = Stub
       /\ e.event = "InvalidateRoute" => e.gateway # Stub
       /\ e.event = "DeleteRoute" => e.status = "RIP_INVALID"}

Sendable(r) ==
    {m \in Message : m.command = "RESPONSE" => m.rtes \in Seq(Tellable(r)) /\ m.rtes # <<>>}

\* Infinity may always be told; what comes in by a link may be believed.
LEMMA OfferFacts ==
    ASSUME NEW l \in Links
    PROVE  /\ l[1] \in Router /\ l[2] \in Router /\ l[1] # Stub
           /\ LinkDown \in Tellable(l[2])
           /\ \A m \in Tellable(l[1]) : Offer(m, l) \in Tellable(l[2])
  <1> DEFINE g == l[1]
             r == l[2]
  <1>1. /\ g \in Router /\ r \in Router /\ <<g, r>> \in Interface /\ <<r, g>> \in Interface
        /\ Cost[<<r, g>>] \in Nat \ {0} /\ LinkDown \in Nat \ {0}
    <2>1. l \in Interface /\ r \in Router /\ <<r, g>> \in Links
      BY Constants DEF Links
    <2>2. l = <<g, r>> /\ g \in Router
      BY <2>1, Constants
    <2>3. <<r, g>> \in Interface
      BY <2>1 DEF Links
    <2> QED
      BY <2>1, <2>2, <2>3, Constants
  <1>2. LinkDown \in Tellable(r)
    BY <1>1, ShortestFacts, Constants DEF Tellable
  <1>3. \A m \in Tellable(g) : Offer(m, l) \in Tellable(r)
    <2> DEFINE d == ShortestEver
    <2>1. d \in Metrics /\ d = Relaxed(Interface, d)
      BY DistanceFacts DEF ShortestEver
    <2> HIDE DEF d
    <2>2. d[r] \in Nat /\ d[g] \in Nat /\ d[r] <= LinkDown
      BY <1>1, ShortestFacts DEF d
    <2>3. d[r] <= d[g] + Cost[<<r, g>>]
      <3>1. CASE <<r, Stub>> \in Interface
        <4>1. d[r] = 1
          BY <1>1, <3>1, ShortestFacts DEF d
        <4> HIDE DEF g, r
        <4> QED
          BY <1>1, <2>2, <4>1
      <3>2. CASE <<r, Stub>> \notin Interface
        <4>1. g \in Neighbours(Interface, r)
          BY <1>1 DEF Neighbours
        <4> HIDE DEF g, r
        <4>2. Relaxed(Interface, d)[r] <= d[g] + Cost[<<r, g>>]
          BY <1>1, <2>1, <3>2, <4>1, RelaxedFacts
        <4> QED
          BY <2>1, <4>2
      <3> QED
        BY <3>1, <3>2
    <2>4. ASSUME NEW m \in Tellable(g) PROVE Offer(m, l) \in Tellable(r)
      <3>1. m \in Nat /\ m >= d[g]
        BY Constants DEF Tellable, d
      <3>2. Offer(m, l) = IF m + Cost[<<r, g>>] > LinkDown THEN LinkDown ELSE m + Cost[<<r, g>>]
        BY DEF Offer
      <3> HIDE DEF g, r
      <3>3. Offer(m, l) \in Nat \ {0} /\ Offer(m, l) <= LinkDown /\ Offer(m, l) >= d[r]
        BY <1>1, <2>2, <2>3, <3>1, <3>2
      <3>4. Offer(m, l) \in Metric
        BY <1>1, <3>3 DEF Metric
      <3> QED
        BY <3>3, <3>4 DEF Tellable, d
    <2> QED
      BY <2>4
  <1> QED
    BY <1>1, <1>2, <1>3, Constants

\* How a route fares.
LEMMA LearnedFacts ==
    ASSUME NEW r, NEW m \in Tellable(r), NEW g \in Router
    PROVE  Learned(m, g) \in Believable(r)
  <1>1. TimeoutDelay \in 0..(TimeoutDelay + GarbageCollectionDelay)
    BY RipAssumption
  <1>2. m \in Metric /\ g # Stub
    BY Constants DEF Tellable
  <1>3. Learned(m, g) \in Entry
    BY <1>1, <1>2 DEF Learned, Entry
  <1> QED
    BY <1>2, <1>3 DEF Learned, Believable

LEMMA InvalidatedFacts ==
    ASSUME NEW r \in Router, NEW e \in Believable(r)
    PROVE  Invalidated(e) \in Believable(r)
  <1>1. GarbageCollectionDelay \in 0..(TimeoutDelay + GarbageCollectionDelay)
    BY RipAssumption
  <1>2. e \in Entry /\ LinkDown \in Tellable(r) /\ LinkDown \in Metric
    BY ShortestFacts, Constants DEF Believable, Tellable
  <1>3. /\ Invalidated(e) \in Entry
        /\ Invalidated(e).status = "RIP_INVALID" /\ Invalidated(e).metric = LinkDown
        /\ Invalidated(e).event = "DeleteRoute"
    BY <1>1, <1>2 DEF Invalidated, Entry
  <1> QED
    BY <1>2, <1>3 DEF Believable

LEMMA AfterFacts ==
    ASSUME NEW r \in Router, NEW e \in Believable(r), NEW m \in Tellable(r), NEW g \in Router
    PROVE  After(e, m, g) \in Believable(r)
  <1>0. /\ Shorter(e, m, g) \/ AsGood(e, m, g) => ~Repeated(e, m, g) /\ ~Worse(e, m, g)
        /\ Repeated(e, m, g) => ~Worse(e, m, g)
    <2>1. m \in Nat /\ e.metric \in Nat
      BY Constants DEF Tellable, Believable
    <2> QED
      BY <2>1 DEF Shorter, AsGood, Repeated, Worse
  <1>1. CASE Shorter(e, m, g) \/ AsGood(e, m, g)
    <2>1. After(e, m, g) = Learned(m, g)
      BY <1>0, <1>1 DEF After
    <2> QED
      BY <2>1, LearnedFacts
  <1>2. CASE Repeated(e, m, g) /\ ~(Shorter(e, m, g) \/ AsGood(e, m, g))
    <2> DEFINE f == [e EXCEPT !.event = "InvalidateRoute", !.left = TimeoutDelay]
    <2>1. TimeoutDelay \in 0..(TimeoutDelay + GarbageCollectionDelay)
      BY RipAssumption
    <2>2. e \in Entry /\ g # Stub /\ e.gateway = g
      BY <1>2, Constants DEF Believable, Repeated
    <2>3. f \in Entry /\ f.status = e.status /\ f.metric = e.metric /\ f.gateway = e.gateway /\ f.event = "InvalidateRoute"
      BY <2>1, <2>2 DEF Entry
    <2>4. After(e, m, g) = f
      BY <1>0, <1>2 DEF After
    <2> HIDE DEF f
    <2> QED
      BY <2>2, <2>3, <2>4 DEF Believable
  <1>3. CASE Worse(e, m, g) /\ ~Repeated(e, m, g) /\ ~(Shorter(e, m, g) \/ AsGood(e, m, g))
    <2>1. After(e, m, g) = IF m < LinkDown THEN Learned(m, g) ELSE Invalidated(e)
      BY <1>3 DEF After
    <2> QED
      BY <2>1, LearnedFacts, InvalidatedFacts
  <1>4. CASE ~Worse(e, m, g) /\ ~Repeated(e, m, g) /\ ~(Shorter(e, m, g) \/ AsGood(e, m, g))
    BY <1>4 DEF After
  <1> QED
    BY <1>1, <1>2, <1>3, <1>4

LEMMA ProcessedFacts ==
    ASSUME NEW r \in Router, NEW table \in Seq(Believable(r)), NEW m \in Tellable(r), NEW g \in Router
    PROVE  Processed(table, m, g) \in Seq(Believable(r))
  <1>1. CASE table = <<>>
    <2>1. Learned(m, g) \in Believable(r)
      BY LearnedFacts
    <2> QED
      BY <1>1, <2>1 DEF Processed
  <1>2. CASE table # <<>>
    <2> DEFINE n == Len(table)
               t == [k \in 1..n |-> After(table[k], m, g)]
    <2>1. n \in Nat /\ DOMAIN table = 1..n /\ \A k \in 1..n : table[k] \in Believable(r)
      OBVIOUS
    <2>2. \A k \in 1..n : After(table[k], m, g) \in Believable(r)
      BY <2>1, AfterFacts
    <2>3. Processed(table, m, g) = t
      BY <1>2, <2>1 DEF Processed
    <2> HIDE DEF n
    <2>4. t \in Seq(Believable(r))
      BY <2>1, <2>2
    <2> QED
      BY <2>3, <2>4
  <1> QED
    BY <1>1, <1>2

\* What a router tells of its routes is a sequence of metrics that it may tell,
\* the last one that of one of the routes.
LEMMA RtesFacts ==
    ASSUME NEW r \in Router, NEW n, NEW chosen, routes[r] \in Seq(Believable(r))
    PROVE  LET rtes == Rtes(r, n, chosen)
           IN  /\ rtes \in Seq(Tellable(r))
               /\ rtes # <<>> => \E k \in DOMAIN routes[r] \cap chosen : rtes[Len(rtes)] = Told(routes[r][k], n)
               /\ strategy # "SPLIT_HORIZON" /\ DOMAIN routes[r] \cap chosen # {} => rtes # <<>>
  <1> DEFINE table == routes[r]
             N == Len(table)
             T == Seq(Tellable(r))
             picks(k) == k \in chosen /\ (strategy = "SPLIT_HORIZON" => table[k].gateway # n)
             more(k, s) == IF picks(k) THEN Append(s, Told(table[k], n)) ELSE s
             F(f) == [k \in 0..N |-> IF k = 0 THEN <<>> ELSE more(k, f[k - 1])]
             rtes == CHOOSE f : f = F(f)
             step == [k \in 1..N |-> [s \in T |-> more(k, s)]]
  <1>1. N \in Nat /\ \A k \in 1..N : table[k] \in Believable(r)
    OBVIOUS
  <1>2. Rtes(r, n, chosen) = rtes[N]
    BY DEF Rtes
  <1> HIDE DEF N, picks
  <1>3. ASSUME NEW k \in 1..N PROVE Told(table[k], n) \in Tellable(r)
    <2>1. LinkDown \in Tellable(r)
      BY ShortestFacts, Constants DEF Tellable
    <2>2. table[k].metric \in Tellable(r)
      BY <1>1 DEF Believable
    <2> QED
      BY <2>1, <2>2 DEF Told
  <1>4. ASSUME NEW k \in 1..N, NEW s \in T PROVE more(k, s) \in T
    <2>1. Told(table[k], n) \in Tellable(r)
      BY <1>3
    <2> QED
      BY <2>1
  <1> HIDE DEF more, table
  <1>5. step \in Steps(T, N)
    BY <1>4 DEF Steps
  <1>6. <<>> \in T
    OBVIOUS
  <1>7. PICK f \in [0..N -> T] : f[0] = <<>> /\ \A k \in 1..N : f[k] = step[k][f[k - 1]]
    <2> DEFINE start == <<>>
    <2>1. start \in T
      BY <1>6
    <2> HIDE DEF step, T, start
    <2>2. \E f \in [0..N -> T] : f[0] = start /\ \A k \in 1..N : f[k] = step[k][f[k - 1]]
      BY <1>1, <1>5, <2>1, Iterated
    <2> QED
      BY <2>2 DEF start
  <1>8. f = F(f)
    <2>1. ASSUME NEW k \in 1..N PROVE f[k] = more(k, f[k - 1])
      <3>1. k - 1 \in 0..N
        BY <1>1
      <3>2. f[k - 1] \in T
        BY <1>7, <3>1
      <3> QED
        BY <1>7, <3>2
    <2>2. ASSUME NEW k \in 0..N PROVE f[k] = IF k = 0 THEN <<>> ELSE more(k, f[k - 1])
      <3>1. k = 0 \/ k \in 1..N
        BY <1>1
      <3> QED
        BY <1>7, <2>1, <3>1
    <2>3. f = [k \in 0..N |-> f[k]]
      BY <1>7
    <2> QED
      BY <2>2, <2>3
  <1>9. rtes = F(rtes)
    <2> HIDE DEF F
    <2> QED
      BY <1>8
  <1> HIDE DEF rtes, T
  <1> DEFINE P(i, s) ==
               /\ s \in T
               /\ s # <<>> => \E k \in 1..i : k \in chosen /\ s[Len(s)] = Told(table[k], n)
               /\ strategy # "SPLIT_HORIZON" /\ (\E k \in 1..i : k \in chosen) => s # <<>>
             S == {i \in Nat : i <= N => P(i, rtes[i])}
  <1>10. 0 \in S
    <2>1. rtes[0] = <<>>
      BY <1>1, <1>9
    <2>2. P(0, <<>>)
      BY <1>6
    <2> HIDE DEF P
    <2> QED
      BY <2>1, <2>2
  <1>11. ASSUME NEW i \in S PROVE i + 1 \in S
    <2> SUFFICES ASSUME i + 1 <= N PROVE P(i + 1, rtes[i + 1])
      OBVIOUS
    <2>1. /\ i + 1 \in 1..N /\ i + 1 \in 0..N /\ i + 1 # 0 /\ i + 1 - 1 = i /\ i <= N
          /\ i + 1 \in 1..(i + 1) /\ \A k \in 1..(i + 1) : k \in 1..i \/ k = i + 1
          /\ \A k \in 1..i : k \in 1..(i + 1)
      BY <1>1
    <2> DEFINE s == rtes[i]
               u == rtes[i + 1]
               m == Told(table[i + 1], n)
    <2>2. P(i, s) /\ u = more(i + 1, s)
      BY <1>9, <2>1
    <2>3. u \in T
      BY <1>4, <2>1, <2>2
    <2>4. m \in Tellable(r)
      BY <1>3, <2>1
    <2> HIDE DEF s, u
    <2>5. CASE picks(i + 1)
      <3>1. u = Append(s, m) /\ s \in T
        BY <2>2, <2>5 DEF more
      <3> HIDE DEF m
      <3>2. u # <<>> /\ u[Len(u)] = m
        <4>1. Len(u) = Len(s) + 1 /\ u[Len(s) + 1] = m /\ Len(s) \in Nat
          BY <2>4, <3>1, AppendFacts DEF T
        <4>2. Len(u) # 0
          BY <4>1
        <4> QED
          BY <4>1, <4>2
      <3>3. i + 1 \in chosen
        BY <2>5 DEF picks
      <3> QED
        BY <2>1, <2>3, <3>2, <3>3 DEF m, u
    <2>6. CASE ~picks(i + 1)
      <3>1. u = s
        BY <2>2, <2>6 DEF more
      <3>2. s # <<>> => \E k \in 1..(i + 1) : k \in chosen /\ s[Len(s)] = Told(table[k], n)
        BY <2>1, <2>2
      <3>3. strategy # "SPLIT_HORIZON" /\ (\E k \in 1..(i + 1) : k \in chosen) => s # <<>>
        <4>1. strategy # "SPLIT_HORIZON" => i + 1 \notin chosen
          BY <2>6 DEF picks
        <4> QED
          BY <2>1, <2>2, <4>1
      <3> QED
        BY <2>3, <3>1, <3>2, <3>3 DEF u
    <2> QED
      BY <2>5, <2>6
  <1> HIDE DEF P
  <1>12. S = Nat
    <2>1. S \in SUBSET Nat
      OBVIOUS
    <2> HIDE DEF S
    <2> QED
      BY <1>10, <1>11, <2>1, Induct
  <1>13. P(N, rtes[N])
    <2>1. N \in S
      BY <1>1, <1>12
    <2> QED
      BY <1>1, <2>1
  <1>14. DOMAIN table = 1..N
    BY DEF N, table
  <1> QED
    BY <1>2, <1>13, <1>14 DEF P, T, table

\* How a table follows an offer m of gateway g: what uses g has the metric and a
\* new timeout, all else is as it was; what changes is marked, and what is going
\* to be deleted for it has all its time.
Marked(t) == \E k \in DOMAIN t : t[k].changed

Follows(new, old, m, g) ==
    /\ \A k \in DOMAIN new :
          /\ new[k].gateway = g
               => new[k].metric = m /\ (m # LinkDown => new[k].left = TimeoutDelay)
          /\ new[k].gateway # g => k \in DOMAIN old /\ new[k] = old[k]
          /\ new[k].event = "DeleteRoute"
               => new[k].left = GarbageCollectionDelay \/ (k \in DOMAIN old /\ new[k] = old[k])
    /\ ~Marked(new)
         => /\ DOMAIN new = DOMAIN old
            /\ \A k \in DOMAIN old : /\ ~old[k].changed
                                    /\ new[k].metric = old[k].metric /\ new[k].gateway = old[k].gateway
    /\ Len(new) <= 1 \/ Len(new) = Len(old)

LEMMA EntryFollows ==
    ASSUME NEW r \in Router, NEW e \in Believable(r), NEW m \in Tellable(r), NEW g \in Router
    PROVE  LET f == After(e, m, g)
           IN  /\ f.gateway = g => f.metric = m /\ (m # LinkDown => f.left = TimeoutDelay)
               /\ f.gateway # g => f = e
               /\ f.event = "DeleteRoute" => f.left = GarbageCollectionDelay \/ f = e
               /\ ~f.changed => ~e.changed /\ f.metric = e.metric /\ f.gateway = e.gateway
  <1> DEFINE f == After(e, m, g)
  <1>1. e \in Entry /\ m \in Nat /\ m <= LinkDown /\ e.metric \in Nat /\ LinkDown \in Nat
    BY Constants DEF Believable, Tellable, Entry
  <1>2. /\ Shorter(e, m, g) \/ AsGood(e, m, g) => ~Repeated(e, m, g) /\ ~Worse(e, m, g)
        /\ Repeated(e, m, g) => ~Worse(e, m, g)
    BY <1>1 DEF Shorter, AsGood, Repeated, Worse
  <1>3. CASE Shorter(e, m, g) \/ AsGood(e, m, g)
    <2>1. f = Learned(m, g)
      BY <1>2, <1>3 DEF After
    <2> HIDE DEF f
    <2>2. f.gateway = g /\ f.metric = m /\ f.left = TimeoutDelay /\ f.event = "InvalidateRoute" /\ f.changed
      BY <2>1 DEF Learned
    <2> QED
      BY <2>2 DEF f
  <1>4. CASE Repeated(e, m, g)
    <2>1. f = [e EXCEPT !.event = "InvalidateRoute", !.left = TimeoutDelay]
      BY <1>2, <1>4 DEF After
    <2> HIDE DEF f
    <2>2. /\ f.gateway = e.gateway /\ f.metric = e.metric /\ f.left = TimeoutDelay
          /\ f.event = "InvalidateRoute" /\ f.changed = e.changed
      BY <1>1, <2>1 DEF Entry
    <2>3. e.metric = m /\ e.gateway = g
      BY <1>4 DEF Repeated
    <2> QED
      BY <2>2, <2>3 DEF f
  <1>5. CASE Worse(e, m, g)
    <2>1. f = IF m < LinkDown THEN Learned(m, g) ELSE Invalidated(e)
      BY <1>2, <1>5 DEF After
    <2> HIDE DEF f
    <2>2. e.gateway = g
      BY <1>5 DEF Worse
    <2>3. CASE m < LinkDown
      <3>1. f.gateway = g /\ f.metric = m /\ f.left = TimeoutDelay /\ f.event = "InvalidateRoute" /\ f.changed
        BY <2>1, <2>3 DEF Learned
      <3> QED
        BY <3>1 DEF f
    <2>4. CASE ~(m < LinkDown)
      <3>1. m = LinkDown
        BY <1>1, <2>4
      <3>2. /\ f.gateway = e.gateway /\ f.metric = LinkDown /\ f.left = GarbageCollectionDelay
            /\ f.event = "DeleteRoute" /\ f.changed
        BY <1>1, <2>1, <2>4 DEF Invalidated, Entry
      <3> QED
        BY <2>2, <3>1, <3>2 DEF f
    <2> QED
      BY <2>3, <2>4
  <1>6. CASE ~(Shorter(e, m, g) \/ AsGood(e, m, g)) /\ ~Repeated(e, m, g) /\ ~Worse(e, m, g)
    <2>1. f = e
      BY <1>6 DEF After
    <2>2. e.gateway # g
      BY <1>1, <1>6 DEF Shorter, Repeated, Worse
    <2> HIDE DEF f
    <2> QED
      BY <2>1, <2>2 DEF f
  <1> QED
    BY <1>3, <1>4, <1>5, <1>6

LEMMA ProcessedFollows ==
    ASSUME NEW r \in Router, NEW table \in Seq(Believable(r)), NEW m \in Tellable(r), NEW g \in Router
    PROVE  Follows(Processed(table, m, g), table, m, g)
  <1> DEFINE new == Processed(table, m, g)
  <1>1. CASE table = <<>> /\ m = LinkDown
    <2>1. new = <<>>
      BY <1>1 DEF Processed
    <2> HIDE DEF new
    <2>2. DOMAIN new = {} /\ DOMAIN table = {} /\ Len(new) = 0
      BY <1>1, <2>1
    <2> QED
      BY <2>2 DEF Follows, new
  <1>2. CASE table = <<>> /\ m # LinkDown
    <2>1. new = <<Learned(m, g)>>
      BY <1>2 DEF Processed
    <2>2. Learned(m, g).gateway = g /\ Learned(m, g).metric = m /\ Learned(m, g).left = TimeoutDelay
          /\ Learned(m, g).event = "InvalidateRoute" /\ Learned(m, g).changed
      BY DEF Learned
    <2> DEFINE e == Learned(m, g)
    <2> HIDE DEF new, e
    <2>3. DOMAIN new = {1} /\ new[1] = e /\ Len(new) = 1
      BY <2>1 DEF e
    <2>4. /\ e.gateway = g /\ e.metric = m /\ e.left = TimeoutDelay
          /\ e.event = "InvalidateRoute" /\ e.changed
      BY <2>2 DEF e
    <2>5. Marked(new)
      BY <2>3, <2>4 DEF Marked
    <2> QED
      BY <2>3, <2>4, <2>5 DEF Follows, new
  <1>3. CASE table # <<>>
    <2>1. new = [k \in DOMAIN table |-> After(table[k], m, g)]
      BY <1>3 DEF Processed
    <2>2. \A k \in DOMAIN table : table[k] \in Believable(r)
      OBVIOUS
    <2> HIDE DEF new
    <2>3. /\ DOMAIN new = DOMAIN table /\ Len(new) = Len(table)
          /\ \A k \in DOMAIN table : new[k] = After(table[k], m, g)
      <3> DEFINE n == Len(table)
      <3>1. n \in Nat /\ DOMAIN table = 1..n
        OBVIOUS
      <3> HIDE DEF n
      <3>2. DOMAIN new = 1..n
        BY <2>1, <3>1
      <3>3. Len(new) = n
        BY <3>1, <3>2
      <3> QED
        BY <2>1, <3>3 DEF n
    <2>4. \A k \in DOMAIN table :
            /\ new[k].gateway = g => new[k].metric = m /\ (m # LinkDown => new[k].left = TimeoutDelay)
            /\ new[k].gateway # g => new[k] = table[k]
            /\ new[k].event = "DeleteRoute" => new[k].left = GarbageCollectionDelay \/ new[k] = table[k]
            /\ ~new[k].changed => /\ ~table[k].changed
                                  /\ new[k].metric = table[k].metric /\ new[k].gateway = table[k].gateway
      <3> SUFFICES ASSUME NEW k \in DOMAIN table
                   PROVE /\ new[k].gateway = g => new[k].metric = m /\ (m # LinkDown => new[k].left = TimeoutDelay)
                         /\ new[k].gateway # g => new[k] = table[k]
                         /\ new[k].event = "DeleteRoute" => new[k].left = GarbageCollectionDelay \/ new[k] = table[k]
                         /\ ~new[k].changed => /\ ~table[k].changed
                                               /\ new[k].metric = table[k].metric /\ new[k].gateway = table[k].gateway
        OBVIOUS
      <3> DEFINE e == table[k]
      <3>1. e \in Believable(r) /\ new[k] = After(e, m, g)
        BY <2>2, <2>3
      <3> HIDE DEF e
      <3> QED
        BY <3>1, EntryFollows DEF e
    <2> QED
      BY <2>3, <2>4 DEF Follows, Marked, new
  <1> QED
    BY <1>1, <1>2, <1>3

LEMMA FollowsTwice ==
    ASSUME NEW t0, NEW t1, NEW t2, NEW m1, NEW m2, NEW g,
           Follows(t1, t0, m1, g), Follows(t2, t1, m2, g),
           Len(t0) \in Nat, Len(t1) \in Nat, Len(t2) \in Nat
    PROVE  Follows(t2, t0, m2, g)
  <1>1. ASSUME NEW k \in DOMAIN t2
        PROVE  /\ t2[k].gateway = g => t2[k].metric = m2 /\ (m2 # LinkDown => t2[k].left = TimeoutDelay)
               /\ t2[k].gateway # g => k \in DOMAIN t0 /\ t2[k] = t0[k]
               /\ t2[k].event = "DeleteRoute"
                    => t2[k].left = GarbageCollectionDelay \/ (k \in DOMAIN t0 /\ t2[k] = t0[k])
    BY DEF Follows
  <1>2. ASSUME ~Marked(t2)
        PROVE  /\ DOMAIN t2 = DOMAIN t0
               /\ \A k \in DOMAIN t0 : /\ ~t0[k].changed
                                       /\ t2[k].metric = t0[k].metric /\ t2[k].gateway = t0[k].gateway
    <2>1. /\ DOMAIN t2 = DOMAIN t1
          /\ \A k \in DOMAIN t1 : /\ ~t1[k].changed
                                  /\ t2[k].metric = t1[k].metric /\ t2[k].gateway = t1[k].gateway
      BY <1>2 DEF Follows
    <2>2. ~Marked(t1)
      BY <2>1 DEF Marked
    <2>3. /\ DOMAIN t1 = DOMAIN t0
          /\ \A k \in DOMAIN t0 : /\ ~t0[k].changed
                                  /\ t1[k].metric = t0[k].metric /\ t1[k].gateway = t0[k].gateway
      BY <2>2 DEF Follows
    <2> QED
      BY <2>1, <2>3
  <1>3. Len(t2) <= 1 \/ Len(t2) = Len(t0)
    BY DEF Follows
  <1> QED
    BY <1>1, <1>2, <1>3 DEF Follows

\* The tables of a router while it works through a response.
LEMMA TablesFacts ==
    ASSUME NEW l \in Links, NEW rtes \in Seq(Tellable(l[1])), routes[l[2]] \in Seq(Believable(l[2]))
    PROVE  LET table[k \in 0..Len(rtes)] ==
                 IF k = 0 THEN routes[l[2]]
                 ELSE Processed(table[k - 1], Offer(rtes[k], l), l[1])
           IN  /\ table[Len(rtes)] \in Seq(Believable(l[2]))
               /\ rtes # <<>> => Follows(table[Len(rtes)], routes[l[2]], Offer(rtes[Len(rtes)], l), l[1])
  <1> DEFINE g == l[1]
             r == l[2]
             N == Len(rtes)
             T == Seq(Believable(r))
             more(k, t) == Processed(t, Offer(rtes[k], l), g)
             F(f) == [k \in 0..N |-> IF k = 0 THEN routes[r] ELSE more(k, f[k - 1])]
             table == CHOOSE f : f = F(f)
             step == [k \in 1..N |-> [t \in T |-> more(k, t)]]
  <1>1. N \in Nat /\ \A k \in 1..N : rtes[k] \in Tellable(g)
    OBVIOUS
  <1> SUFFICES table[N] \in T /\ (N # 0 => Follows(table[N], routes[r], Offer(rtes[N], l), g))
    <2>1. rtes # <<>> => N # 0
      OBVIOUS
    <2> QED
      BY <2>1
  <1> HIDE DEF N
  <1>2. g \in Router /\ r \in Router /\ \A k \in 1..N : Offer(rtes[k], l) \in Tellable(r)
    BY <1>1, OfferFacts
  <1> HIDE DEF g, r
  <1>3. ASSUME NEW k \in 1..N, NEW t \in T PROVE more(k, t) \in T
    BY <1>2, ProcessedFacts
  <1>4. routes[r] \in T
    BY DEF r
  <1> HIDE DEF more, T
  <1>5. step \in Steps(T, N)
    BY <1>3 DEF Steps
  <1>6. PICK f \in [0..N -> T] : f[0] = routes[r] /\ \A k \in 1..N : f[k] = step[k][f[k - 1]]
    <2> DEFINE start == routes[r]
    <2>1. start \in T
      BY <1>4
    <2> HIDE DEF step, start
    <2>2. \E f \in [0..N -> T] : f[0] = start /\ \A k \in 1..N : f[k] = step[k][f[k - 1]]
      BY <1>1, <1>5, <2>1, Iterated
    <2> QED
      BY <2>2 DEF start
  <1>7. f = F(f)
    <2>1. ASSUME NEW k \in 1..N PROVE f[k] = more(k, f[k - 1])
      <3>1. k - 1 \in 0..N
        BY <1>1
      <3>2. f[k - 1] \in T
        BY <1>6, <3>1
      <3> QED
        BY <1>6, <3>2
    <2>2. ASSUME NEW k \in 0..N PROVE f[k] = IF k = 0 THEN routes[r] ELSE more(k, f[k - 1])
      <3>1. k = 0 \/ k \in 1..N
        BY <1>1
      <3> QED
        BY <1>6, <2>1, <3>1
    <2>3. f = [k \in 0..N |-> f[k]]
      BY <1>6
    <2> QED
      BY <2>2, <2>3
  <1>8. table = F(table)
    <2> HIDE DEF F
    <2> QED
      BY <1>7
  <1> HIDE DEF table
  <1> DEFINE P(k) == table[k] \in T /\ (k # 0 => Follows(table[k], routes[r], Offer(rtes[k], l), g))
             S == {k \in Nat : k <= N => P(k)}
  <1>9. 0 \in S
    <2>1. table[0] \in T
      BY <1>1, <1>4, <1>8
    <2> QED
      BY <2>1
  <1>10. ASSUME NEW k \in S PROVE k + 1 \in S
    <2> SUFFICES ASSUME k + 1 <= N PROVE P(k + 1)
      OBVIOUS
    <2>1. k + 1 \in 1..N /\ k + 1 \in 0..N /\ k + 1 # 0 /\ k + 1 - 1 = k /\ k <= N
      BY <1>1
    <2>2. P(k) /\ table[k + 1] = more(k + 1, table[k])
      BY <1>8, <2>1
    <2>3. table[k] \in T /\ table[k + 1] \in T
      BY <1>3, <2>1, <2>2
    <2> DEFINE m == Offer(rtes[k + 1], l)
               t1 == table[k]
               t2 == table[k + 1]
    <2>4. m \in Tellable(r)
      BY <1>2, <2>1
    <2>5. Follows(t2, t1, m, g)
      <3>1. t1 \in Seq(Believable(r)) /\ t2 = Processed(t1, m, g)
        BY <2>2, <2>3 DEF more, T
      <3> HIDE DEF m, t1, t2
      <3> QED
        BY <1>2, <2>4, <3>1, ProcessedFollows
    <2>6. Follows(t2, routes[r], m, g)
      <3>1. CASE k = 0
        <4>1. t1 = routes[r]
          BY <1>1, <1>8, <3>1
        <4> HIDE DEF t1, t2, m
        <4> QED
          BY <2>5, <4>1
      <3>2. CASE k # 0
        <4> DEFINE m1 == Offer(rtes[k], l)
                   t0 == routes[r]
        <4>1. Follows(t1, t0, m1, g)
          BY <2>2, <3>2
        <4>2. Len(t0) \in Nat /\ Len(t1) \in Nat /\ Len(t2) \in Nat
          <5>1. t0 \in T /\ t1 \in T /\ t2 \in T
            BY <1>4, <2>3
          <5> HIDE DEF t0, t1, t2
          <5> QED
            BY <5>1 DEF T
        <4> HIDE DEF m, m1, t0, t1, t2
        <4>3. Follows(t2, t0, m, g)
          BY <2>5, <4>1, <4>2, FollowsTwice
        <4> QED
          BY <4>3 DEF t0
      <3> QED
        BY <3>1, <3>2
    <2> QED
      BY <2>3, <2>6
  <1>11. S = Nat
    <2>1. S \in SUBSET Nat
      OBVIOUS
    <2> HIDE DEF S
    <2> QED
      BY <1>9, <1>10, <2>1, Induct
  <1>12. N \in S
    BY <1>1, <1>11
  <1>13. P(N)
    BY <1>1, <1>12
  <1> QED
    BY <1>13

-----------------------------------------------------------------------------
(* The invariant: every route may be believed where it is, every message may *)
(* be told by its sender.                                                    *)

RoutesOK == routes \in [Router -> Seq(Entry)] /\ \A r \in Router : routes[r] \in Seq(Believable(r))

NetOK == net \in [Links -> Seq(Message)] /\ \A l \in Links : net[l] \in Seq(Sendable(l[1]))

RestOK ==
    /\ strategy \in Strategies
    /\ triggered \in [Router -> {"none", "SendRouteRequest", "DoSendRouteUpdate"}]
    /\ due \subseteq Router
    /\ up \subseteq Interface
    /\ changes \in 0..MaxChanges
    /\ losses \in 0..MaxLosses

IInv == RestOK /\ RoutesOK /\ NetOK

\* Only what may be believed and told matters.
LEMMA TablesSuffice ==
    ASSUME NEW t, DOMAIN t = Router, t = [r \in Router |-> t[r]], \A r \in Router : t[r] \in Seq(Believable(r))
    PROVE  t \in [Router -> Seq(Entry)]
  <1>1. \A r \in Router : t[r] \in Seq(Entry)
    <2>1. ASSUME NEW r \in Router PROVE t[r] \in Seq(Entry)
      <3>1. Believable(r) \subseteq Entry /\ t[r] \in Seq(Believable(r))
        BY DEF Believable
      <3> QED
        BY <3>1
    <2> QED
      BY <2>1
  <1> QED
    BY <1>1

LEMMA QueuesSuffice ==
    ASSUME NEW q, q = [l \in Links |-> q[l]], \A l \in Links : q[l] \in Seq(Sendable(l[1]))
    PROVE  q \in [Links -> Seq(Message)]
  <1>1. ASSUME NEW l \in Links PROVE q[l] \in Seq(Message)
    <2>1. Sendable(l[1]) \subseteq Message /\ q[l] \in Seq(Sendable(l[1]))
      BY DEF Sendable
    <2> QED
      BY <2>1
  <1> QED
    BY <1>1

\* One table changes.
LEMMA RoutesStep ==
    ASSUME RoutesOK, NEW r \in Router, NEW table \in Seq(Believable(r)),
           routes' = [routes EXCEPT ![r] = table]
    PROVE  RoutesOK'
  <1>1. \A x \in Router : routes'[x] = IF x = r THEN table ELSE routes[x]
    BY DEF RoutesOK
  <1>2. routes' = [x \in Router |-> routes'[x]] /\ DOMAIN routes' = Router
    BY DEF RoutesOK
  <1>3. \A x \in Router : routes'[x] \in Seq(Believable(x))
    BY <1>1 DEF RoutesOK
  <1>4. routes' \in [Router -> Seq(Entry)]
    BY <1>2, <1>3, TablesSuffice
  <1> QED
    BY <1>3, <1>4 DEF RoutesOK

\* Every entry of a table changes.
LEMMA MapFacts ==
    ASSUME NEW S, NEW s \in Seq(S), NEW t, t = [k \in DOMAIN s |-> t[k]], \A k \in DOMAIN s : t[k] \in S
    PROVE  t \in Seq(S)
  <1> DEFINE n == Len(s)
  <1>1. n \in Nat /\ DOMAIN s = 1..n
    OBVIOUS
  <1> HIDE DEF n
  <1>2. t \in [1..n -> S]
    BY <1>1
  <1> QED
    BY <1>1, <1>2

\* Messages are sent.
LEMMA SentFacts ==
    ASSUME NetOK, NEW out, net' = Sent(out),
           \A l \in Links \cap DOMAIN out :
              out[l].command = "REQUEST" \/ out[l].rtes # <<>> => out[l] \in Sendable(l[1])
    PROVE  NetOK'
  <1>1. \A l \in Links : net'[l] \in Seq(Sendable(l[1]))
    <2>1. ASSUME NEW l \in Links PROVE net'[l] \in Seq(Sendable(l[1]))
      <3>1. \/ net'[l] = net[l]
            \/ /\ l \in DOMAIN out /\ net'[l] = Append(net[l], out[l])
               /\ out[l].command = "REQUEST" \/ out[l].rtes # <<>>
        BY DEF Sent
      <3>2. net[l] \in Seq(Sendable(l[1]))
        BY DEF NetOK
      <3>3. l \in DOMAIN out /\ (out[l].command = "REQUEST" \/ out[l].rtes # <<>>) => out[l] \in Sendable(l[1])
        OBVIOUS
      <3> QED
        BY <3>1, <3>2, <3>3
    <2> QED
      BY <2>1
  <1>2. net' = [l \in Links |-> net'[l]]
    BY DEF Sent
  <1>3. net' \in [Links -> Seq(Message)]
    BY <1>1, <1>2, QueuesSuffice
  <1> QED
    BY <1>1, <1>3 DEF NetOK

\* A message is taken.
LEMMA TakenFacts ==
    ASSUME NetOK, NEW l \in Links, net[l] # <<>>
    PROVE  /\ Taken(l) = [x \in Links |-> Taken(l)[x]]
           /\ \A x \in Links : Taken(l)[x] \in Seq(Sendable(x[1]))
           /\ Head(net[l]) \in Sendable(l[1])
  <1>1. net \in [Links -> Seq(Message)] /\ \A x \in Links : net[x] \in Seq(Sendable(x[1]))
    BY DEF NetOK
  <1>2. Tail(net[l]) \in Seq(Sendable(l[1])) /\ Head(net[l]) \in Sendable(l[1])
    <2> DEFINE q == net[l]
               S == Sendable(l[1])
    <2>1. q \in Seq(S) /\ q # <<>>
      BY <1>1
    <2> HIDE DEF q, S
    <2>2. Tail(q) \in Seq(S) /\ Head(q) \in S
      BY <2>1
    <2> QED
      BY <2>2 DEF q, S
  <1>3. \A x \in Links : Taken(l)[x] = IF x = l THEN Tail(net[l]) ELSE net[x]
    BY <1>1 DEF Taken
  <1>4. Taken(l) = [x \in Links |-> Taken(l)[x]]
    BY <1>1 DEF Taken
  <1> QED
    BY <1>1, <1>2, <1>3, <1>4

LEMMA TakenOK ==
    ASSUME NetOK, NEW l \in Links, net[l] # <<>>, net' = Taken(l)
    PROVE  NetOK'
  <1>1. net' = [x \in Links |-> net'[x]] /\ \A x \in Links : net'[x] \in Seq(Sendable(x[1]))
    BY TakenFacts
  <1>2. net' \in [Links -> Seq(Message)]
    BY <1>1, QueuesSuffice
  <1> QED
    BY <1>1, <1>2 DEF NetOK

\* A response made of what may be told may be sent.
LEMMA ResponseFacts ==
    ASSUME NEW r, NEW rtes \in Seq(Tellable(r))
    PROVE  /\ Response(rtes).command = "RESPONSE" /\ Response(rtes).rtes = rtes
           /\ rtes # <<>> => Response(rtes) \in Sendable(r)
  <1>1. rtes \in Seq(Metric)
    <2>1. Tellable(r) \subseteq Metric
      BY DEF Tellable
    <2> QED
      BY <2>1
  <1>2. Response(rtes) \in Message
    BY <1>1 DEF Response, Message
  <1> QED
    BY <1>2 DEF Response, Sendable

LEMMA TriggeredFacts ==
    ASSUME triggered \in [Router -> {"none", "SendRouteRequest", "DoSendRouteUpdate"}],
           NEW r \in Router, SendTriggeredRouteUpdate(r)
    PROVE  triggered' \in [Router -> {"none", "SendRouteRequest", "DoSendRouteUpdate"}]
  BY DEF SendTriggeredRouteUpdate

-----------------------------------------------------------------------------
(* Each action preserves it *)

LEMMA UnmarkedFacts ==
    ASSUME NEW r, NEW e \in Believable(r)
    PROVE  [e EXCEPT !.changed = FALSE] \in Believable(r)
  <1> DEFINE f == [e EXCEPT !.changed = FALSE]
  <1>1. e \in Entry
    BY DEF Believable
  <1>2. /\ f \in Entry /\ f.status = e.status /\ f.metric = e.metric
        /\ f.gateway = e.gateway /\ f.event = e.event
    BY <1>1 DEF Entry
  <1> HIDE DEF f
  <1>3. f \in Believable(r)
    BY <1>2 DEF Believable
  <1> QED
    BY <1>3 DEF f

LEMMA DoSendRouteUpdateFacts ==
    ASSUME IInv, NEW r \in Router, NEW periodic \in BOOLEAN, DoSendRouteUpdate(r, periodic)
    PROVE  NetOK' /\ RoutesOK'
  <1> DEFINE chosen == {k \in DOMAIN routes[r] : periodic \/ routes[r][k].changed}
             out == [l \in Sending(r) |-> Response(Rtes(r, l[2], chosen))]
             table == [k \in DOMAIN routes[r] |-> [routes[r][k] EXCEPT !.changed = FALSE]]
  <1>1. net' = Sent(out) /\ routes' = [routes EXCEPT ![r] = table]
    BY DEF DoSendRouteUpdate, IInv, RoutesOK
  <1>2. NetOK /\ RoutesOK /\ routes[r] \in Seq(Believable(r))
    BY DEF IInv, RoutesOK
  <1> HIDE DEF chosen
  <1>3. ASSUME NEW l \in Links \cap DOMAIN out, out[l].command = "REQUEST" \/ out[l].rtes # <<>>
        PROVE  out[l] \in Sendable(l[1])
    <2>1. l[1] = r /\ out[l] = Response(Rtes(r, l[2], chosen))
      BY DEF Sending
    <2>2. Rtes(r, l[2], chosen) \in Seq(Tellable(r))
      BY <1>2, RtesFacts
    <2> QED
      BY <1>3, <2>1, <2>2, ResponseFacts
  <1>4. NetOK'
    <2> HIDE DEF out
    <2> QED
      BY <1>1, <1>2, <1>3, SentFacts
  <1>5. table \in Seq(Believable(r))
    <2>1. \A k \in DOMAIN routes[r] : routes[r][k] \in Believable(r)
      BY <1>2
    <2>2. \A k \in DOMAIN routes[r] : table[k] \in Believable(r)
      BY <2>1, UnmarkedFacts
    <2>3. table = [k \in DOMAIN routes[r] |-> table[k]]
      OBVIOUS
    <2> HIDE DEF table
    <2> QED
      BY <1>2, <2>2, <2>3, MapFacts
  <1> HIDE DEF table
  <1>6. RoutesOK'
    BY <1>1, <1>2, <1>5, RoutesStep
  <1> QED
    BY <1>4, <1>6

LEMMA SendRouteRequestStep ==
    ASSUME IInv, NEW r \in Router, SendRouteRequest(r)
    PROVE  IInv'
  <1> DEFINE out == [l \in Sending(r) |-> Request]
  <1>1. net' = Sent(out) /\ NetOK /\ RoutesOK
    BY DEF SendRouteRequest, IInv
  <1>2. Request \in Message /\ Request.command # "RESPONSE"
    BY Constants DEF Request, Message
  <1>3. \A l \in Links \cap DOMAIN out : out[l] \in Sendable(l[1])
    BY <1>2 DEF Sendable
  <1>4. NetOK'
    <2> HIDE DEF out
    <2> QED
      BY <1>1, <1>3, SentFacts
  <1>5. RoutesOK'
    BY <1>1 DEF SendRouteRequest, RoutesOK
  <1>6. RestOK'
    BY DEF SendRouteRequest, RestOK, IInv, configVars
  <1> QED
    BY <1>4, <1>5, <1>6 DEF IInv

LEMMA UpdateStep ==
    ASSUME IInv, NEW r \in Router, TriggeredUpdate(r) \/ SendUnsolicitedRouteUpdate(r)
    PROVE  IInv'
  <1>1. NetOK' /\ RoutesOK'
    BY DoSendRouteUpdateFacts DEF TriggeredUpdate, SendUnsolicitedRouteUpdate
  <1>2. RestOK'
    BY DEF TriggeredUpdate, SendUnsolicitedRouteUpdate, RestOK, IInv, configVars
  <1> QED
    BY <1>1, <1>2 DEF IInv

LEMMA HandleRequestsStep ==
    ASSUME IInv, NEW l \in Links, HandleRequests(l)
    PROVE  IInv'
  <1> DEFINE r == l[2]
             back == <<l[2], l[1]>>
             chosen == {k \in DOMAIN routes[r] : routes[r][k].status = "RIP_VALID"}
             rtes == Rtes(r, l[1], chosen)
  <1>1. /\ net[l] # <<>>
        /\ net' = [Taken(l) EXCEPT ![back] = IF rtes = <<>> THEN @ ELSE Append(@, Response(rtes))]
        /\ NetOK /\ RoutesOK
    BY DEF HandleRequests, Receive, IInv
  <1>2. r \in Router /\ back \in Links /\ back[1] = r
    BY Constants
  <1>3. rtes \in Seq(Tellable(r))
    <2> HIDE DEF chosen
    <2> QED
      BY <1>1, <1>2, RtesFacts DEF RoutesOK
  <1> HIDE DEF rtes
  <1>4. rtes # <<>> => Response(rtes) \in Sendable(r)
    BY <1>3, ResponseFacts
  <1>5. /\ Taken(l) = [x \in Links |-> Taken(l)[x]]
        /\ \A x \in Links : Taken(l)[x] \in Seq(Sendable(x[1]))
    BY <1>1, TakenFacts
  <1> HIDE DEF back
  <1>6. /\ net' = [x \in Links |-> net'[x]]
        /\ \A x \in Links : net'[x] = Taken(l)[x]
                            \/ (x = back /\ rtes # <<>> /\ net'[x] = Append(Taken(l)[x], Response(rtes)))
    BY <1>1, <1>5
  <1> HIDE DEF r
  <1>7. ASSUME NEW x \in Links PROVE net'[x] \in Seq(Sendable(x[1]))
    <2>1. CASE net'[x] = Taken(l)[x]
      BY <1>5, <2>1
    <2>2. CASE x = back /\ rtes # <<>> /\ net'[x] = Append(Taken(l)[x], Response(rtes))
      <3>1. Response(rtes) \in Sendable(x[1]) /\ Taken(l)[x] \in Seq(Sendable(x[1]))
        BY <1>2, <1>4, <1>5, <2>2
      <3> QED
        BY <2>2, <3>1
    <2> QED
      BY <1>6, <2>1, <2>2
  <1>8. NetOK'
    <2>1. net' \in [Links -> Seq(Message)]
      BY <1>6, <1>7, QueuesSuffice
    <2> QED
      BY <1>7, <2>1 DEF NetOK
  <1>9. RoutesOK'
    BY <1>1 DEF HandleRequests, RoutesOK
  <1>10. RestOK'
    BY DEF HandleRequests, RestOK, IInv, configVars
  <1> QED
    BY <1>8, <1>9, <1>10 DEF IInv

LEMMA HandleResponsesStep ==
    ASSUME IInv, NEW l \in Links, HandleResponses(l)
    PROVE  IInv'
  <1> DEFINE r == l[2]
             g == l[1]
             rtes == Head(net[l]).rtes
             F(f) == [k \in 0..Len(rtes) |->
                        IF k = 0 THEN routes[r] ELSE Processed(f[k - 1], Offer(rtes[k], l), g)]
             table == CHOOSE f : f = F(f)
             final == table[Len(rtes)]
             altered == \E k \in DOMAIN rtes : Alters(table[k - 1], Offer(rtes[k], l), g)
  <1>1. /\ net[l] # <<>> /\ Head(net[l]).command = "RESPONSE"
        /\ net' = Taken(l)
        /\ routes' = [routes EXCEPT ![r] = final]
        /\ IF altered THEN SendTriggeredRouteUpdate(r) ELSE UNCHANGED triggered
        /\ UNCHANGED <<configVars, due, losses>>
    BY DEF HandleResponses, Receive
  <1>2. NetOK /\ RoutesOK /\ r \in Router
    BY Constants DEF IInv
  <1>3. rtes \in Seq(Tellable(g))
    <2>1. Head(net[l]) \in Sendable(g)
      BY <1>1, <1>2, TakenFacts
    <2> QED
      BY <1>1, <2>1 DEF Sendable
  <1>4. final \in Seq(Believable(r))
    <2>1. routes[r] \in Seq(Believable(r))
      BY <1>2 DEF RoutesOK
    <2> HIDE DEF rtes
    <2> QED
      BY <1>3, <2>1, TablesFacts
  <1> HIDE DEF final, altered
  <1>5. RoutesOK'
    BY <1>1, <1>2, <1>4, RoutesStep
  <1>6. NetOK'
    BY <1>1, <1>2, TakenOK
  <1>7. RestOK'
    <2>1. triggered' \in [Router -> {"none", "SendRouteRequest", "DoSendRouteUpdate"}]
      <3>1. triggered \in [Router -> {"none", "SendRouteRequest", "DoSendRouteUpdate"}]
        BY DEF IInv, RestOK
      <3> QED
        BY <1>1, <1>2, <3>1, TriggeredFacts
    <2> QED
      BY <1>1, <2>1 DEF RestOK, IInv, configVars
  <1> QED
    BY <1>5, <1>6, <1>7 DEF IInv

LEMMA LoseStep ==
    ASSUME IInv, NEW l \in Links, Lose(l)
    PROVE  IInv'
  <1>1. NetOK'
    BY TakenOK DEF Lose, IInv
  <1>2. RoutesOK'
    BY DEF Lose, IInv, RoutesOK
  <1>3. RestOK'
    <2>1. losses' \in 0..MaxLosses
      BY RipAssumption DEF Lose, IInv, RestOK
    <2> QED
      BY <2>1 DEF Lose, IInv, RestOK, configVars
  <1> QED
    BY <1>1, <1>2, <1>3 DEF IInv

LEMMA InvalidateRouteStep ==
    ASSUME IInv, NEW r \in Router, NEW k \in DOMAIN routes[r], InvalidateRoute(r, k)
    PROVE  IInv'
  <1> DEFINE t == routes[r]
             e == Invalidated(t[k])
             table == [t EXCEPT ![k] = e]
  <1>1. RoutesOK /\ t \in Seq(Believable(r)) /\ k \in 1..Len(t)
    <2>1. RoutesOK /\ t \in Seq(Believable(r))
      BY DEF IInv, RoutesOK
    <2> QED
      BY <2>1
  <1>2. routes' = [routes EXCEPT ![r] = table]
    BY <1>1 DEF InvalidateRoute, RoutesOK
  <1>3. e \in Believable(r)
    <2>1. t[k] \in Believable(r)
      BY <1>1
    <2> QED
      BY <2>1, InvalidatedFacts
  <1>4. table \in Seq(Believable(r))
    <2> HIDE DEF t, e
    <2> QED
      BY <1>1, <1>3, ExceptSeq
  <1> HIDE DEF table
  <1>5. RoutesOK'
    BY <1>1, <1>2, <1>4, RoutesStep
  <1>6. NetOK' /\ RestOK'
    BY DEF InvalidateRoute, IInv, NetOK, RestOK, configVars
  <1> QED
    BY <1>5, <1>6 DEF IInv

LEMMA RemoveFacts ==
    ASSUME NEW S, NEW s \in Seq(S), NEW k \in 1..Len(s)
    PROVE  /\ RemoveAt(s, k) \in Seq(S)
           /\ Len(RemoveAt(s, k)) = Len(s) - 1
           /\ \A j \in DOMAIN RemoveAt(s, k) : \E i \in DOMAIN s : i # k /\ RemoveAt(s, k)[j] = s[i]
           /\ \A i \in DOMAIN s : i # k => \E j \in DOMAIN RemoveAt(s, k) : RemoveAt(s, k)[j] = s[i]
  <1> DEFINE n == Len(s)
             a == SubSeq(s, 1, k - 1)
             c == SubSeq(s, k + 1, n)
             u == RemoveAt(s, k)
  <1>1. n \in Nat /\ k \in Nat \ {0} /\ k <= n /\ DOMAIN s = 1..n
    OBVIOUS
  <1>2. a \in Seq(S) /\ Len(a) = k - 1 /\ \A i \in 1..(k - 1) : a[i] = s[i]
    <2>1. 1 \in 1..(n + 1) /\ k - 1 \in 0..n /\ 1 <= k - 1 + 1
      BY <1>1
    <2>2. /\ a \in Seq(S) /\ Len(a) = k - 1 - 1 + 1
          /\ \A i \in 1..(k - 1 - 1 + 1) : a[i] = s[1 + i - 1]
      BY <1>1, <2>1, SubSeqFacts
    <2> HIDE DEF a
    <2>3. \A i \in 1..(k - 1) : a[i] = s[i]
      <3>1. ASSUME NEW i \in 1..(k - 1) PROVE a[i] = s[i]
        <4>1. i \in 1..(k - 1 - 1 + 1) /\ 1 + i - 1 = i
          BY <1>1
        <4>2. a[i] = s[1 + i - 1]
          BY <2>2, <4>1
        <4> QED
          BY <4>1, <4>2
      <3> QED
        BY <3>1
    <2> QED
      BY <1>1, <2>2, <2>3
  <1>3. c \in Seq(S) /\ Len(c) = n - k /\ \A i \in 1..(n - k) : c[i] = s[k + i]
    <2>1. k + 1 \in 1..(n + 1) /\ n \in 0..n /\ k + 1 <= n + 1
      BY <1>1
    <2>2. /\ c \in Seq(S) /\ Len(c) = n - (k + 1) + 1
          /\ \A i \in 1..(n - (k + 1) + 1) : c[i] = s[k + 1 + i - 1]
      <3> DEFINE from == k + 1
      <3>1. from \in 1..(Len(s) + 1) /\ n \in 0..Len(s) /\ from <= n + 1
        BY <2>1
      <3> HIDE DEF from, n, u, a
      <3>2. c = SubSeq(s, from, n)
        BY DEF from
      <3> HIDE DEF c
      <3>3. /\ c \in Seq(S) /\ Len(c) = n - from + 1
            /\ \A i \in 1..(n - from + 1) : c[i] = s[from + i - 1]
        BY <3>1, <3>2, SubSeqFacts
      <3> QED
        BY <3>3 DEF from
    <2> HIDE DEF c
    <2>3. \A i \in 1..(n - k) : c[i] = s[k + i]
      <3>1. ASSUME NEW i \in 1..(n - k) PROVE c[i] = s[k + i]
        <4>1. i \in 1..(n - (k + 1) + 1) /\ k + 1 + i - 1 = k + i
          BY <1>1
        <4>2. c[i] = s[k + 1 + i - 1]
          BY <2>2, <4>1
        <4> QED
          BY <4>1, <4>2
      <3> QED
        BY <3>1
    <2> QED
      BY <1>1, <2>2, <2>3
  <1>4. u = a \o c
    BY DEF RemoveAt
  <1> HIDE DEF a, c, u, n
  <1>5. /\ u \in Seq(S) /\ Len(u) = n - 1
        /\ \A i \in 1..(n - 1) : u[i] = IF i <= k - 1 THEN a[i] ELSE c[i - (k - 1)]
    <2>1. k - 1 + (n - k) = n - 1
      BY <1>1
    <2>2. /\ u \in Seq(S) /\ Len(u) = k - 1 + (n - k)
          /\ \A i \in 1..(k - 1 + (n - k)) : u[i] = IF i <= k - 1 THEN a[i] ELSE c[i - (k - 1)]
      <3> DEFINE before == k - 1
                 behind == n - k
      <3>1. a \in Seq(S) /\ c \in Seq(S) /\ Len(a) = before /\ Len(c) = behind
        BY <1>2, <1>3
      <3> HIDE DEF before, behind
      <3>2. /\ u \in Seq(S) /\ Len(u) = before + behind
            /\ \A i \in 1..(before + behind) : u[i] = IF i <= before THEN a[i] ELSE c[i - before]
        <4>1. /\ u \in Seq(S) /\ Len(u) = Len(a) + Len(c)
              /\ \A i \in 1..(Len(a) + Len(c)) : u[i] = IF i <= Len(a) THEN a[i] ELSE c[i - Len(a)]
          BY <1>4, <3>1, ConcatProperties
        <4> QED
          BY <3>1, <4>1
      <3> QED
        BY <3>2 DEF before, behind
    <2> QED
      BY <2>1, <2>2
  <1>6. ASSUME NEW i \in 1..(n - 1) PROVE u[i] = IF i < k THEN s[i] ELSE s[i + 1]
    <2>1. CASE i < k
      BY <1>1, <1>2, <1>5, <2>1
    <2>2. CASE i >= k
      <3>1. i - (k - 1) \in 1..(n - k) /\ k + (i - (k - 1)) = i + 1 /\ ~(i <= k - 1) /\ ~(i < k)
        BY <1>1, <2>2
      <3>2. c[i - (k - 1)] = s[k + (i - (k - 1))]
        BY <1>3, <3>1
      <3> QED
        BY <1>5, <3>1, <3>2
    <2> QED
      BY <1>1, <2>1, <2>2
  <1>7. DOMAIN u = 1..(n - 1)
    BY <1>1, <1>5
  <1>8. ASSUME NEW j \in DOMAIN u PROVE \E i \in DOMAIN s : i # k /\ u[j] = s[i]
    <2>1. CASE j < k
      <3>1. j \in DOMAIN s /\ j # k /\ u[j] = s[j]
        BY <1>1, <1>6, <1>7, <2>1
      <3> QED
        BY <3>1
    <2>2. CASE ~(j < k)
      <3>1. j + 1 \in DOMAIN s /\ j + 1 # k /\ u[j] = s[j + 1]
        BY <1>1, <1>6, <1>7, <2>2
      <3> QED
        BY <3>1
    <2> QED
      BY <2>1, <2>2
  <1>9. ASSUME NEW i \in DOMAIN s, i # k PROVE \E j \in DOMAIN u : u[j] = s[i]
    <2>1. CASE i < k
      <3>1. i \in DOMAIN u /\ u[i] = s[i]
        BY <1>1, <1>6, <1>7, <2>1
      <3> QED
        BY <3>1
    <2>2. CASE ~(i < k)
      <3>1. i - 1 \in 1..(n - 1) /\ ~(i - 1 < k) /\ i - 1 + 1 = i
        BY <1>1, <1>9, <2>2
      <3>2. u[i - 1] = s[i]
        BY <1>6, <3>1
      <3> QED
        BY <1>7, <3>1, <3>2
    <2> QED
      BY <2>1, <2>2
  <1>10. Len(u) = Len(s) - 1
    BY <1>5 DEF n
  <1> QED
    BY <1>5, <1>8, <1>9, <1>10 DEF u

LEMMA DeleteRouteStep ==
    ASSUME IInv, NEW r \in Router, NEW k \in DOMAIN routes[r], DeleteRoute(r, k)
    PROVE  IInv'
  <1> DEFINE t == routes[r]
             table == RemoveAt(t, k)
  <1>1. RoutesOK /\ t \in Seq(Believable(r)) /\ k \in 1..Len(t)
    <2>1. RoutesOK /\ t \in Seq(Believable(r))
      BY DEF IInv, RoutesOK
    <2> QED
      BY <2>1
  <1>2. routes' = [routes EXCEPT ![r] = table]
    BY <1>1 DEF DeleteRoute, RoutesOK
  <1>3. table \in Seq(Believable(r))
    <2> HIDE DEF t
    <2> QED
      BY <1>1, RemoveFacts
  <1> HIDE DEF table
  <1>4. RoutesOK'
    BY <1>1, <1>2, <1>3, RoutesStep
  <1>5. NetOK' /\ RestOK'
    BY DEF DeleteRoute, IInv, NetOK, RestOK, configVars
  <1> QED
    BY <1>4, <1>5 DEF IInv

LEMMA NotifyInterfaceDownStep ==
    ASSUME IInv, NEW i \in Unstable, NotifyInterfaceDown(i)
    PROVE  IInv'
  <1> DEFINE r == i[1]
             t == routes[r]
             table == [k \in DOMAIN t |-> IF t[k].gateway = i[2] THEN Invalidated(t[k]) ELSE t[k]]
  <1>1. i \in Interface /\ r \in Router /\ RoutesOK
    BY RipAssumption, Constants DEF IInv
  <1>2. routes' = [routes EXCEPT ![r] = table]
    BY <1>1 DEF NotifyInterfaceDown, RoutesOK
  <1>3. t \in Seq(Believable(r))
    BY <1>1 DEF RoutesOK
  <1> HIDE DEF r, t
  <1>4. table \in Seq(Believable(r))
    <2>1. \A k \in DOMAIN t : t[k] \in Believable(r)
      BY <1>3
    <2>2. \A k \in DOMAIN t : table[k] \in Believable(r)
      BY <1>1, <2>1, InvalidatedFacts
    <2>3. table = [k \in DOMAIN t |-> table[k]]
      OBVIOUS
    <2> HIDE DEF table
    <2> QED
      BY <1>3, <2>2, <2>3, MapFacts
  <1> HIDE DEF table
  <1>5. RoutesOK'
    BY <1>1, <1>2, <1>4, RoutesStep
  <1>6. NetOK'
    BY DEF NotifyInterfaceDown, IInv, NetOK
  <1>7. RestOK'
    <2>1. triggered' \in [Router -> {"none", "SendRouteRequest", "DoSendRouteUpdate"}]
      BY <1>1, TriggeredFacts DEF NotifyInterfaceDown, IInv, RestOK, r
    <2>2. changes' \in 0..MaxChanges
      BY RipAssumption DEF NotifyInterfaceDown, IInv, RestOK
    <2> QED
      BY <2>1, <2>2 DEF NotifyInterfaceDown, IInv, RestOK
  <1> QED
    BY <1>5, <1>6, <1>7 DEF IInv

LEMMA ConnectedFacts ==
    ASSUME NEW r \in Router, <<r, Stub>> \in Interface
    PROVE  Connected \in Believable(r)
  <1>1. 0 \in 0..(TimeoutDelay + GarbageCollectionDelay)
    BY RipAssumption
  <1>2. Connected \in Entry
    BY <1>1, Constants DEF Connected, Entry
  <1>3. 1 \in Tellable(r)
    BY ShortestFacts, Constants DEF Tellable
  <1> QED
    BY <1>2, <1>3 DEF Connected, Believable

LEMMA NotifyInterfaceUpStep ==
    ASSUME IInv, NEW i \in Unstable, NotifyInterfaceUp(i)
    PROVE  IInv'
  <1> DEFINE r == i[1]
             t == routes[r]
  <1>1. i \in Interface /\ r \in Router /\ RoutesOK /\ t \in Seq(Believable(r)) /\ i = <<r, i[2]>>
    <2>1. i \in Interface /\ r \in Router /\ RoutesOK /\ i = <<r, i[2]>>
      BY RipAssumption, Constants DEF IInv
    <2> QED
      BY <2>1 DEF RoutesOK
  <1>2. RoutesOK'
    <2>1. CASE i[2] # Stub
      BY <1>1, <2>1 DEF NotifyInterfaceUp, RoutesOK
    <2>2. CASE i[2] = Stub
      <3> DEFINE table == Append(t, Connected)
      <3>1. routes' = [routes EXCEPT ![r] = table]
        BY <1>1, <2>2 DEF NotifyInterfaceUp, RoutesOK
      <3>2. Connected \in Believable(r)
        BY <1>1, <2>2, ConnectedFacts
      <3>3. table \in Seq(Believable(r))
        <4> HIDE DEF t
        <4> QED
          BY <1>1, <3>2
      <3> HIDE DEF table
      <3> QED
        BY <1>1, <3>1, <3>3, RoutesStep
    <2> QED
      BY <2>1, <2>2
  <1>3. NetOK'
    BY DEF NotifyInterfaceUp, IInv, NetOK
  <1>4. RestOK'
    <2>1. triggered' \in [Router -> {"none", "SendRouteRequest", "DoSendRouteUpdate"}]
      BY <1>1, TriggeredFacts DEF NotifyInterfaceUp, IInv, RestOK
    <2>2. changes' \in 0..MaxChanges
      BY RipAssumption DEF NotifyInterfaceUp, IInv, RestOK
    <2> QED
      BY <1>1, <2>1, <2>2 DEF NotifyInterfaceUp, IInv, RestOK
  <1> QED
    BY <1>2, <1>3, <1>4 DEF IInv

LEMMA TickStep ==
    ASSUME IInv, Tick
    PROVE  IInv'
  <1> DEFINE Aged(e) == [e EXCEPT !.left = IF @ = 0 THEN 0 ELSE @ - 1]
             table(r) == [k \in DOMAIN routes[r] |-> Aged(routes[r][k])]
  <1>1. routes' = [r \in Router |-> table(r)]
    BY DEF Tick
  <1>2. ASSUME NEW r \in Router, NEW e \in Believable(r) PROVE Aged(e) \in Believable(r)
    <2> DEFINE top == TimeoutDelay + GarbageCollectionDelay
               left == IF e.left = 0 THEN 0 ELSE e.left - 1
               f == [e EXCEPT !.left = left]
    <2>1. e \in Entry
      BY DEF Believable
    <2>2. top \in Nat /\ e.left \in 0..top
      BY <2>1, RipAssumption DEF Entry
    <2>3. left \in 0..top
      <3> HIDE DEF top
      <3> QED
        BY <2>2
    <2> HIDE DEF left
    <2>4. /\ f \in Entry /\ f.status = e.status /\ f.metric = e.metric
          /\ f.gateway = e.gateway /\ f.event = e.event
      BY <2>1, <2>3 DEF Entry
    <2>5. Aged(e) = f
      BY <2>1 DEF left, Entry
    <2> HIDE DEF f
    <2> QED
      BY <2>4, <2>5 DEF Believable
  <1> HIDE DEF Aged
  <1>3. ASSUME NEW r \in Router PROVE table(r) \in Seq(Believable(r))
    <2> DEFINE t == routes[r]
               u == table(r)
    <2>1. t \in Seq(Believable(r))
      BY DEF IInv, RoutesOK
    <2>2. \A k \in DOMAIN t : t[k] \in Believable(r)
      BY <2>1
    <2>3. \A k \in DOMAIN t : u[k] \in Believable(r)
      BY <1>2, <2>2
    <2>4. u = [k \in DOMAIN t |-> u[k]]
      OBVIOUS
    <2> HIDE DEF t, u
    <2>5. u \in Seq(Believable(r))
      BY <2>1, <2>3, <2>4, MapFacts
    <2> QED
      BY <2>5 DEF u
  <1>4. \A r \in Router : routes'[r] \in Seq(Believable(r))
    BY <1>1, <1>3
  <1>5. DOMAIN routes' = Router /\ routes' = [r \in Router |-> routes'[r]]
    BY <1>1
  <1>6. routes' \in [Router -> Seq(Entry)]
    BY <1>4, <1>5, TablesSuffice
  <1>7. NetOK' /\ RestOK'
    BY DEF Tick, IInv, NetOK, RestOK, configVars
  <1> QED
    BY <1>4, <1>6, <1>7 DEF IInv, RoutesOK

LEMMA InitIInv == Init => IInv
  <1> SUFFICES ASSUME Init PROVE IInv
    OBVIOUS
  <1>1. ASSUME NEW r \in Router PROVE routes[r] \in Seq(Believable(r))
    <2>1. CASE <<r, Stub>> \in up
      <3>1. routes[r] = <<Connected>> /\ <<r, Stub>> \in Interface
        BY <2>1 DEF Init
      <3>2. Connected \in Believable(r)
        BY <3>1, ConnectedFacts
      <3> QED
        BY <3>1, <3>2
    <2>2. CASE <<r, Stub>> \notin up
      BY <2>2 DEF Init
    <2> QED
      BY <2>1, <2>2
  <1>2. RoutesOK
    <2>1. DOMAIN routes = Router /\ routes = [r \in Router |-> routes[r]]
      BY DEF Init
    <2>2. routes \in [Router -> Seq(Entry)]
      BY <1>1, <2>1, TablesSuffice
    <2> QED
      BY <1>1, <2>2 DEF RoutesOK
  <1>3. NetOK
    <2>1. net = [l \in Links |-> net[l]] /\ \A l \in Links : net[l] = <<>>
      BY DEF Init
    <2>2. ASSUME NEW l \in Links PROVE net[l] \in Seq(Sendable(l[1]))
      <3>1. net[l] = <<>>
        BY <2>1
      <3> QED
        BY <3>1
    <2>3. net \in [Links -> Seq(Message)]
      BY <2>1, <2>2, QueuesSuffice
    <2> QED
      BY <2>2, <2>3 DEF NetOK
  <1>4. RestOK
    BY RipAssumption DEF Init, RestOK
  <1> QED
    BY <1>2, <1>3, <1>4 DEF IInv

LEMMA NextIInv == IInv /\ [Next]_vars => IInv'
  <1> SUFFICES ASSUME IInv, [Next]_vars PROVE IInv'
    OBVIOUS
  <1>1. ASSUME NEW r \in Router, RouterStep(r) PROVE IInv'
    <2>1. CASE SendRouteRequest(r)
      BY <2>1, SendRouteRequestStep
    <2>2. CASE TriggeredUpdate(r) \/ SendUnsolicitedRouteUpdate(r)
      BY <2>2, UpdateStep
    <2>3. ASSUME NEW k \in DOMAIN routes[r], InvalidateRoute(r, k) PROVE IInv'
      BY <2>3, InvalidateRouteStep
    <2>4. ASSUME NEW k \in DOMAIN routes[r], DeleteRoute(r, k) PROVE IInv'
      BY <2>4, DeleteRouteStep
    <2> QED
      BY <1>1, <2>1, <2>2, <2>3, <2>4 DEF RouterStep
  <1>2. ASSUME NEW l \in Links, Deliver(l) \/ Lose(l) PROVE IInv'
    BY <1>2, HandleRequestsStep, HandleResponsesStep, LoseStep DEF Deliver
  <1>3. CASE Tick
    BY <1>3, TickStep
  <1>4. ASSUME NEW i \in Unstable, NotifyInterfaceDown(i) PROVE IInv'
    BY <1>4, NotifyInterfaceDownStep
  <1>5. ASSUME NEW i \in Unstable, NotifyInterfaceUp(i) PROVE IInv'
    BY <1>5, NotifyInterfaceUpStep
  <1>6. CASE UNCHANGED vars
    BY <1>6 DEF vars, IInv, RestOK, RoutesOK, NetOK
  <1> QED
    BY <1>1, <1>2, <1>3, <1>4, <1>5, <1>6 DEF Next, Progress

LEMMA InvariantHolds == Spec => []IInv
  BY InitIInv, NextIInv, PTL DEF Spec

\* Tables, messages and events are consistent: a route that can be used is never
\* deleted by an event, and only a connected network stays without one.
THEOREM TablesConsistent == Spec => []Consistent
  <1>1. IInv => Consistent
    <2> SUFFICES ASSUME IInv PROVE TypeOK /\ RoutesAge
      BY DEF Consistent
    <2>1. TypeOK
      BY DEF IInv, RestOK, RoutesOK, NetOK, TypeOK
    <2>2. RoutesAge
      <3> SUFFICES ASSUME NEW r \in Router, NEW k \in DOMAIN routes[r]
                   PROVE  LET e == routes[r][k] IN
                          CASE e.event = "none" -> e.status = "RIP_VALID" /\ e.gateway = Stub
                            [] e.event = "InvalidateRoute" ->
                                  e.gateway # Stub
                                    /\ (e.status = "RIP_INVALID" => e.metric = LinkDown)
                            [] e.event = "DeleteRoute" -> e.status = "RIP_INVALID"
        BY DEF RoutesAge
      <3> DEFINE e == routes[r][k]
      <3>1. e \in Believable(r)
        <4>1. routes[r] \in Seq(Believable(r))
          BY DEF IInv, RoutesOK
        <4> QED
          BY <4>1
      <3> HIDE DEF e
      <3>2. e.event \in {"none", "InvalidateRoute", "DeleteRoute"}
        BY <3>1 DEF Believable, Entry
      <3>3. CASE e.event = "none"
        BY <3>1, <3>3 DEF Believable, e
      <3>4. CASE e.event = "InvalidateRoute"
        BY <3>1, <3>4 DEF Believable, e
      <3>5. CASE e.event = "DeleteRoute"
        BY <3>1, <3>5 DEF Believable, e
      <3> QED
        BY <3>2, <3>3, <3>4, <3>5
    <2> QED
      BY <2>1, <2>2
  <1> QED
    BY <1>1, InvariantHolds, PTL

\* No router believes in, or advertises, a path shorter than the shortest there
\* is with all interfaces up, in a network of any shape.
THEOREM NoPathTooShort == Spec => []NeverTooShort
  <1>1. IInv => NeverTooShort
    <2> SUFFICES ASSUME IInv PROVE NeverTooShort
      OBVIOUS
    <2>1. ASSUME NEW r \in Router, NEW k \in DOMAIN routes[r] PROVE routes[r][k].metric >= ShortestEver[r]
      <3>1. routes[r] \in Seq(Believable(r))
        BY DEF IInv, RoutesOK
      <3>2. routes[r][k] \in Believable(r)
        BY <3>1
      <3> QED
        BY <3>2 DEF Believable, Tellable
    <2>2. ASSUME NEW l \in Links, NEW j \in DOMAIN net[l], net[l][j].command = "RESPONSE",
                 NEW k \in DOMAIN net[l][j].rtes
          PROVE  net[l][j].rtes[k] >= ShortestEver[l[1]]
      <3>1. net[l] \in Seq(Sendable(l[1]))
        BY DEF IInv, NetOK
      <3>2. net[l][j] \in Sendable(l[1])
        BY <3>1
      <3> DEFINE rtes == net[l][j].rtes
      <3>3. rtes \in Seq(Tellable(l[1]))
        BY <2>2, <3>2 DEF Sendable
      <3>4. rtes[k] \in Tellable(l[1])
        BY <3>3
      <3> QED
        BY <3>4 DEF Tellable
    <2> QED
      BY <2>1, <2>2 DEF NeverTooShort
  <1> QED
    BY <1>1, InvariantHolds, PTL

-----------------------------------------------------------------------------
(* What a router heard of its neighbours *)

\* A link that stays up, at both ends.
Stable(l) == {l, <<l[2], l[1]>>} \cap Unstable = {}

Responses(q) == {j \in DOMAIN q : q[j].command = "RESPONSE"}

\* What was said last on link l is one of V: it is in the last response on the
\* way or, without one, in the table t at the other end.
Sees(q, t, l, V) ==
    /\ Responses(q) = {}
         => \A k \in DOMAIN t : t[k].gateway = l[1] => \E m \in V : t[k].metric = Offer(m, l)
    /\ \A j \in Responses(q) :
         (\A i \in Responses(q) : i <= j) => q[j].rtes[Len(q[j].rtes)] \in V

\* No route of table t that uses link l is about to time out: it was told in this
\* tick, or in the last one and will be, or is, told in this one.
Fresh(q, t, l, isDue) ==
    \A k \in DOMAIN t :
        t[k].gateway = l[1] /\ t[k].metric # LinkDown
          => \/ t[k].left >= TimeoutDelay
             \/ t[k].left >= TimeoutDelay - 1 /\ (isDue \/ Responses(q) # {})

LinkOK(l) ==
    strategy # "SPLIT_HORIZON" /\ losses = 0 /\ Stable(l)
      => /\ Fresh(net[l], routes[l[2]], l, l[1] \in due)
         /\ Marked(routes[l[1]]) \/ Sees(net[l], routes[l[2]], l, Heard(l[1], l[2]))

\* A route that is to be deleted keeps its mark no longer than to the next
\* periodic update, and a router whose network stays up has one entry for it.
TableOK(t, r) ==
    /\ \A k \in DOMAIN t :
         t[k].changed /\ t[k].event = "DeleteRoute"
           => \/ t[k].left >= GarbageCollectionDelay
              \/ t[k].left >= GarbageCollectionDelay - 1 /\ r \in due
    /\ <<r, Stub>> \notin Unstable => Len(t) <= 1

AInv ==
    /\ IInv
    /\ Interface \ Unstable \subseteq up
    /\ \A r \in Router : TableOK(routes[r], r)
    /\ \A l \in Links : LinkOK(l)

\* Messages that come and go.
LEMMA SeesResponse ==
    ASSUME NEW q \in Seq(Message), NEW m \in Message, m.command = "RESPONSE",
           NEW t, NEW l, NEW V, m.rtes[Len(m.rtes)] \in V
    PROVE  Sees(Append(q, m), t, l, V) /\ Responses(Append(q, m)) # {}
  <1> DEFINE n == Len(q)
             p == Append(q, m)
  <1>1. n \in Nat /\ DOMAIN p = 1..(n + 1) /\ p[n + 1] = m
    BY AppendFacts
  <1> HIDE DEF n, p
  <1>2. n + 1 \in Responses(p)
    BY <1>1 DEF Responses
  <1>3. \A j \in Responses(p) : j \in 1..(n + 1) /\ (n + 1 <= j => j = n + 1)
    BY <1>1 DEF Responses
  <1>4. ASSUME NEW j \in Responses(p), \A i \in Responses(p) : i <= j PROVE p[j].rtes[Len(p[j].rtes)] \in V
    <2>1. j = n + 1
      BY <1>2, <1>3, <1>4
    <2> QED
      BY <1>1, <2>1
  <1>5. Sees(p, t, l, V)
    BY <1>2, <1>4 DEF Sees
  <1> QED
    BY <1>2, <1>5 DEF p

LEMMA SeesRequest ==
    ASSUME NEW q \in Seq(Message), NEW m \in Message, m.command # "RESPONSE"
    PROVE  /\ Responses(Append(q, m)) = Responses(q)
           /\ \A t, l, V : Sees(q, t, l, V) => Sees(Append(q, m), t, l, V)
  <1> DEFINE n == Len(q)
             p == Append(q, m)
  <1>1. /\ n \in Nat /\ DOMAIN p = 1..(n + 1) /\ p[n + 1] = m /\ DOMAIN q = 1..n
        /\ \A i \in 1..n : p[i] = q[i]
    BY AppendFacts
  <1> HIDE DEF n, p
  <1>2. \A i : i \in 1..(n + 1) <=> i \in 1..n \/ i = n + 1
    BY <1>1
  <1>3. Responses(p) = Responses(q)
    BY <1>1, <1>2 DEF Responses
  <1>4. \A j \in Responses(q) : p[j] = q[j]
    BY <1>1 DEF Responses
  <1>5. \A t, l, V : Sees(q, t, l, V) => Sees(p, t, l, V)
    BY <1>3, <1>4 DEF Sees
  <1> QED
    BY <1>3, <1>5 DEF p

LEMMA TailResponses ==
    ASSUME NEW q \in Seq(Message), q # <<>>
    PROVE  /\ Head(q) = q[1] /\ 1 \in DOMAIN q
           /\ \A j \in Responses(Tail(q)) : j + 1 \in Responses(q) /\ Tail(q)[j] = q[j + 1] /\ j \in Nat
           /\ \A i \in Responses(q) : i \in Nat /\ (i = 1 \/ i - 1 \in Responses(Tail(q)))
  <1> DEFINE n == Len(q)
             p == Tail(q)
  <1>1. /\ n \in Nat \ {0} /\ DOMAIN q = 1..n /\ Head(q) = q[1]
        /\ DOMAIN p = 1..(n - 1) /\ \A i \in 1..(n - 1) : p[i] = q[i + 1]
    <2>1. n \in Nat \ {0} /\ Head(q) = q[1] /\ p \in Seq(Message) /\ Len(p) = n - 1
          /\ \A i \in 1..(n - 1) : p[i] = q[i + 1]
      BY TailFacts
    <2> QED
      BY <2>1
  <1> HIDE DEF n, p
  <1>2. \A j \in 1..(n - 1) : j + 1 \in 1..n /\ j \in Nat
    BY <1>1
  <1>3. \A i \in 1..n : i \in Nat /\ (i = 1 \/ (i - 1 \in 1..(n - 1) /\ i - 1 + 1 = i))
    BY <1>1
  <1>4. \A j \in Responses(p) : j + 1 \in Responses(q) /\ p[j] = q[j + 1] /\ j \in Nat
    BY <1>1, <1>2 DEF Responses
  <1>5. \A i \in Responses(q) : i \in Nat /\ (i = 1 \/ i - 1 \in Responses(p))
    BY <1>1, <1>3 DEF Responses
  <1>6. 1 \in DOMAIN q
    BY <1>1
  <1> QED
    BY <1>1, <1>4, <1>5, <1>6 DEF p

LEMMA SeesTail ==
    ASSUME NEW q \in Seq(Message), q # <<>>, Head(q).command # "RESPONSE"
    PROVE  /\ Responses(Tail(q)) = {} <=> Responses(q) = {}
           /\ \A t, l, V : Sees(q, t, l, V) => Sees(Tail(q), t, l, V)
  <1> DEFINE p == Tail(q)
  <1>1. /\ \A j \in Responses(p) : j + 1 \in Responses(q) /\ p[j] = q[j + 1] /\ j \in Nat
        /\ \A i \in Responses(q) : i \in Nat /\ (i = 1 \/ i - 1 \in Responses(p))
        /\ q[1].command # "RESPONSE"
    BY TailResponses
  <1> HIDE DEF p
  <1>2. 1 \notin Responses(q)
    BY <1>1 DEF Responses
  <1>3. Responses(p) = {} <=> Responses(q) = {}
    BY <1>1, <1>2
  <1>4. ASSUME NEW t, NEW l, NEW V, Sees(q, t, l, V) PROVE Sees(p, t, l, V)
    <2>1. ASSUME NEW j \in Responses(p), \A i \in Responses(p) : i <= j
          PROVE  p[j].rtes[Len(p[j].rtes)] \in V
      <3>1. j + 1 \in Responses(q) /\ p[j] = q[j + 1] /\ j \in Nat
        BY <1>1
      <3>2. ASSUME NEW i \in Responses(q) PROVE i <= j + 1
        <4>1. i \in Nat /\ i - 1 \in Responses(p)
          BY <1>1, <1>2
        <4>2. i - 1 <= j
          BY <2>1, <4>1
        <4> QED
          BY <3>1, <4>1, <4>2
      <3>3. q[j + 1].rtes[Len(q[j + 1].rtes)] \in V
        BY <1>4, <3>1, <3>2 DEF Sees
      <3> QED
        BY <3>1, <3>3
    <2>2. Responses(p) = {} => \A k \in DOMAIN t : t[k].gateway = l[1] => \E m \in V : t[k].metric = Offer(m, l)
      BY <1>3, <1>4 DEF Sees
    <2> QED
      BY <2>1, <2>2 DEF Sees
  <1> QED
    BY <1>3, <1>4 DEF p

\* The response is received: what it says last is now in the table.
LEMMA SeesReceived ==
    ASSUME NEW q \in Seq(Message), q # <<>>, Head(q).command = "RESPONSE",
           NEW t, NEW u, NEW l, NEW V, Sees(q, t, l, V),
           NEW m, m = Head(q).rtes[Len(Head(q).rtes)],
           \A k \in DOMAIN u : u[k].gateway = l[1] => u[k].metric = Offer(m, l)
    PROVE  Sees(Tail(q), u, l, V)
  <1> DEFINE p == Tail(q)
  <1>1. /\ \A j \in Responses(p) : j + 1 \in Responses(q) /\ p[j] = q[j + 1] /\ j \in Nat
        /\ \A i \in Responses(q) : i \in Nat /\ (i = 1 \/ i - 1 \in Responses(p))
        /\ q[1].command = "RESPONSE" /\ 1 \in DOMAIN q /\ Head(q) = q[1]
    BY TailResponses
  <1> HIDE DEF p
  <1>2. ASSUME NEW j \in Responses(p), \A i \in Responses(p) : i <= j
        PROVE  p[j].rtes[Len(p[j].rtes)] \in V
    <2>1. j + 1 \in Responses(q) /\ p[j] = q[j + 1] /\ j \in Nat
      BY <1>1
    <2>2. ASSUME NEW i \in Responses(q) PROVE i <= j + 1
      <3>1. i \in Nat /\ (i = 1 \/ i - 1 \in Responses(p))
        BY <1>1
      <3>2. i = 1 \/ i - 1 <= j
        BY <1>2, <3>1
      <3> QED
        BY <2>1, <3>1, <3>2
    <2>3. q[j + 1].rtes[Len(q[j + 1].rtes)] \in V
      BY <2>1, <2>2 DEF Sees
    <2> QED
      BY <2>1, <2>3
  <1>3. ASSUME Responses(p) = {} PROVE m \in V
    <2>1. 1 \in Responses(q)
      BY <1>1 DEF Responses
    <2>2. \A i \in Responses(q) : i <= 1
      BY <1>1, <1>3
    <2> QED
      BY <1>1, <2>1, <2>2 DEF Sees
  <1>4. Sees(p, u, l, V)
    BY <1>2, <1>3 DEF Sees
  <1> QED
    BY <1>4 DEF p

-----------------------------------------------------------------------------
(* Each action keeps neighbours in agreement *)

TablesOK == \A r \in Router : TableOK(routes[r], r)
LinksOK == \A l \in Links : LinkOK(l)
StableUp == Interface \ Unstable \subseteq up

LEMMA AInvParts == AInv <=> IInv /\ StableUp /\ TablesOK /\ LinksOK
  BY DEF AInv, StableUp, TablesOK, LinksOK

LEMMA LinkFacts ==
    ASSUME NEW l \in Links
    PROVE  /\ l[1] \in Router /\ l[2] \in Router /\ l[1] # l[2] /\ l = <<l[1], l[2]>>
           /\ l[1] # Stub /\ l[2] # Stub
           /\ l \in Interface /\ <<l[2], l[1]>> \in Interface /\ <<l[2], l[1]>> \in Links
           /\ Stable(l) /\ StableUp => l \in up /\ <<l[2], l[1]>> \in up
  <1>1. l \in Interface /\ l[2] \in Router /\ l[2] # Stub /\ <<l[2], l[1]>> \in Links
    BY Constants DEF Links
  <1>2. l = <<l[1], l[2]>> /\ l[1] \in Router /\ l[1] # l[2]
    BY <1>1, Constants, RipAssumption
  <1>3. <<l[2], l[1]>> \in Interface
    BY <1>1 DEF Links
  <1>4. l[1] # Stub
    BY <1>2, Constants
  <1>5. Stable(l) /\ StableUp => l \in up /\ <<l[2], l[1]>> \in up
    BY <1>1, <1>3 DEF Stable, StableUp
  <1> QED
    BY <1>1, <1>2, <1>3, <1>4, <1>5

\* The links neither end of which changes its table, and whose queue stays.
LEMMA LinkKept ==
    ASSUME NEW l \in Links, LinkOK(l), strategy' = strategy, losses' = 0 => losses = 0,
           net'[l] = net[l], routes'[l[1]] = routes[l[1]], routes'[l[2]] = routes[l[2]],
           l[1] \in due' <=> l[1] \in due
    PROVE  LinkOK(l)'
  <1> SUFFICES ASSUME strategy' # "SPLIT_HORIZON", losses' = 0, Stable(l)
               PROVE  /\ Fresh(net'[l], routes'[l[2]], l, l[1] \in due')
                      /\ Marked(routes'[l[1]]) \/ Sees(net'[l], routes'[l[2]], l, Heard(l[1], l[2])')
    BY DEF LinkOK, Stable
  <1>1. /\ Fresh(net[l], routes[l[2]], l, l[1] \in due)
        /\ Marked(routes[l[1]]) \/ Sees(net[l], routes[l[2]], l, Heard(l[1], l[2]))
    BY DEF LinkOK
  <1>2. Heard(l[1], l[2])' = Heard(l[1], l[2])
    BY DEF Heard, Told
  <1>3. Fresh(net'[l], routes'[l[2]], l, l[1] \in due')
    BY <1>1 DEF Fresh
  <1> QED
    BY <1>1, <1>2, <1>3

\* The table of the sender changes its marks only.
LEMMA HeardKept ==
    ASSUME NEW r, NEW n, strategy' = strategy, DOMAIN routes'[r] = DOMAIN routes[r],
           routes'[r] = <<>> <=> routes[r] = <<>>,
           \A k \in DOMAIN routes[r] : /\ routes'[r][k].metric = routes[r][k].metric
                                       /\ routes'[r][k].gateway = routes[r][k].gateway
    PROVE  Heard(r, n)' = Heard(r, n)
  <1>1. \A k \in DOMAIN routes[r] : Told(routes[r][k], n)' = Told(routes[r][k], n)
    BY DEF Told
  <1> QED
    BY <1>1 DEF Heard

LEMMA OfferInfinity ==
    ASSUME NEW l \in Links
    PROVE  Offer(LinkDown, l) = LinkDown
  <1>1. Cost[<<l[2], l[1]>>] \in Nat \ {0} /\ LinkDown \in Nat
    BY LinkFacts, Constants
  <1> QED
    BY <1>1 DEF Offer

LEMMA RequestAgrees ==
    ASSUME AInv, NEW r \in Router, SendRouteRequest(r)
    PROVE  StableUp' /\ TablesOK' /\ LinksOK'
  <1>0. IInv /\ StableUp /\ TablesOK /\ LinksOK
    BY AInvParts
  <1>1. UNCHANGED <<strategy, up, routes, due, losses>> /\ net' = Sent([l \in Sending(r) |-> Request])
    BY DEF SendRouteRequest, configVars
  <1>2. StableUp'
    BY <1>0, <1>1 DEF StableUp
  <1>3. TablesOK'
    BY <1>0, <1>1 DEF TablesOK, TableOK
  <1>4. ASSUME NEW l \in Links PROVE LinkOK(l)'
    <2>1. net'[l] = net[l] \/ net'[l] = Append(net[l], Request)
      BY <1>1 DEF Sent
    <2>2. CASE net'[l] = net[l]
      BY <1>0, <1>1, <2>2, LinkKept DEF LinksOK
    <2>3. CASE net'[l] = Append(net[l], Request)
      <3> SUFFICES ASSUME strategy' # "SPLIT_HORIZON", losses' = 0, Stable(l)
                   PROVE  /\ Fresh(net'[l], routes'[l[2]], l, l[1] \in due')
                          /\ Marked(routes'[l[1]]) \/ Sees(net'[l], routes'[l[2]], l, Heard(l[1], l[2])')
        BY DEF LinkOK, Stable
      <3>1. /\ Fresh(net[l], routes[l[2]], l, l[1] \in due)
            /\ Marked(routes[l[1]]) \/ Sees(net[l], routes[l[2]], l, Heard(l[1], l[2]))
        BY <1>0, <1>1 DEF LinkOK, LinksOK
      <3>2. Heard(l[1], l[2])' = Heard(l[1], l[2])
        BY <1>1 DEF Heard, Told
      <3>3. net[l] \in Seq(Message)
        BY <1>0 DEF IInv, NetOK
      <3>4. Request \in Message /\ Request.command # "RESPONSE"
        BY Constants DEF Request, Message
      <3>5. /\ Responses(net'[l]) = Responses(net[l])
            /\ \A t, k, V : Sees(net[l], t, k, V) => Sees(net'[l], t, k, V)
        BY <2>3, <3>3, <3>4, SeesRequest
      <3>6. Fresh(net'[l], routes'[l[2]], l, l[1] \in due')
        BY <1>1, <3>1, <3>5 DEF Fresh
      <3> QED
        BY <1>1, <3>1, <3>2, <3>5, <3>6
    <2> QED
      BY <2>1, <2>2, <2>3
  <1> QED
    BY <1>2, <1>3, <1>4 DEF LinksOK

LEMMA UpdateAgrees ==
    ASSUME AInv, NEW r \in Router, NEW periodic \in BOOLEAN, DoSendRouteUpdate(r, periodic),
           UNCHANGED <<strategy, up, losses>>, due' = IF periodic THEN due \ {r} ELSE due
    PROVE  StableUp' /\ TablesOK' /\ LinksOK'
  <1> DEFINE chosen == {k \in DOMAIN routes[r] : periodic \/ routes[r][k].changed}
             out == [l \in Sending(r) |-> Response(Rtes(r, l[2], chosen))]
             t == routes[r]
             u == [k \in DOMAIN t |-> [t[k] EXCEPT !.changed = FALSE]]
  <1>0. /\ IInv /\ StableUp /\ TablesOK /\ LinksOK /\ RoutesOK /\ NetOK
        /\ t \in Seq(Believable(r))
    BY AInvParts DEF IInv, RoutesOK
  <1>1. net' = Sent(out) /\ routes' = [routes EXCEPT ![r] = u]
    BY <1>0 DEF DoSendRouteUpdate, RoutesOK
  <1>2. \A x \in Router : routes'[x] = IF x = r THEN u ELSE routes[x]
    BY <1>0, <1>1 DEF RoutesOK
  <1>3. /\ DOMAIN u = DOMAIN t /\ (u = <<>> <=> t = <<>>) /\ Len(u) = Len(t)
        /\ \A k \in DOMAIN t : /\ ~u[k].changed /\ u[k].metric = t[k].metric
                               /\ u[k].gateway = t[k].gateway /\ u[k].left = t[k].left
                               /\ u[k].event = t[k].event
    <2>1. ASSUME NEW k \in DOMAIN t
          PROVE  /\ ~u[k].changed /\ u[k].metric = t[k].metric
                 /\ u[k].gateway = t[k].gateway /\ u[k].left = t[k].left
                 /\ u[k].event = t[k].event
      <3> DEFINE e == t[k]
      <3>1. e \in Entry /\ u[k] = [e EXCEPT !.changed = FALSE]
        <4>1. e \in Believable(r)
          BY <1>0
        <4> QED
          BY <4>1 DEF Believable
      <3> HIDE DEF e, u
      <3> QED
        BY <3>1 DEF Entry, e
    <2>2. DOMAIN u = DOMAIN t /\ (u = <<>> <=> t = <<>>) /\ Len(u) = Len(t)
      <3> DEFINE n == Len(t)
      <3>1. n \in Nat /\ DOMAIN t = 1..n /\ (t = <<>> <=> n = 0)
        BY <1>0
      <3>2. DOMAIN u = 1..n
        BY <3>1
      <3> HIDE DEF u, n, t
      <3>3. Len(u) = n
        BY <3>1, <3>2
      <3>4. u = [k \in 1..n |-> u[k]]
        BY <3>2 DEF u
      <3>5. u \in Seq({u[k] : k \in 1..n})
        BY <3>1, <3>4
      <3>6. u = <<>> <=> n = 0
        BY <3>1, <3>3, <3>5
      <3> QED
        BY <3>1, <3>2, <3>3, <3>6 DEF n
    <2> QED
      BY <2>1, <2>2
  <1>4. ~Marked(u)
    BY <1>3 DEF Marked
  <1>5. \A n : Heard(r, n)' = Heard(r, n)
    <2>1. routes'[r] = u
      BY <1>2
    <2> HIDE DEF u
    <2> QED
      BY <1>3, <2>1, HeardKept
  <1> HIDE DEF u, t, chosen
  <1>6. StableUp'
    BY <1>0 DEF StableUp
  <1>7. TablesOK'
    <2>1. ASSUME NEW x \in Router PROVE TableOK(routes[x], x)'
      <3>1. CASE x = r
        <4>1. routes'[x] = u
          BY <1>2, <3>1
        <4>2. \A k \in DOMAIN u : ~u[k].changed
          BY <1>4 DEF Marked
        <4>3. <<r, Stub>> \notin Unstable => Len(t) <= 1
          BY <1>0 DEF TablesOK, TableOK, t
        <4>4. <<r, Stub>> \notin Unstable => Len(u) <= 1
          BY <1>3, <4>3
        <4> QED
          BY <3>1, <4>1, <4>2, <4>4 DEF TableOK
      <3>2. CASE x # r
        <4>1. routes'[x] = routes[x] /\ (x \in due' <=> x \in due)
          BY <1>2, <3>2
        <4> QED
          BY <1>0, <4>1 DEF TablesOK, TableOK
      <3> QED
        BY <3>1, <3>2
    <2> QED
      BY <2>1 DEF TablesOK
  <1>8. ASSUME NEW l \in Links, l[1] # r PROVE LinkOK(l)'
    <2>1. net'[l] = net[l]
      BY <1>1, <1>8 DEF Sent, Sending
    <2>2. l[1] \in Router /\ l[2] \in Router /\ l[1] # l[2]
      BY LinkFacts
    <2>3. routes'[l[1]] = routes[l[1]] /\ (l[1] \in due' <=> l[1] \in due)
      BY <1>2, <1>8, <2>2
    <2>4. CASE l[2] # r
      <3>1. routes'[l[2]] = routes[l[2]]
        BY <1>2, <2>2, <2>4
      <3>2. LinkOK(l)
        BY <1>0 DEF LinksOK
      <3> QED
        BY <2>1, <2>3, <3>1, <3>2, LinkKept
    <2>5. CASE l[2] = r
      <3> SUFFICES ASSUME strategy' # "SPLIT_HORIZON", losses' = 0, Stable(l)
                   PROVE  /\ Fresh(net'[l], routes'[l[2]], l, l[1] \in due')
                          /\ Marked(routes'[l[1]]) \/ Sees(net'[l], routes'[l[2]], l, Heard(l[1], l[2])')
        BY DEF LinkOK, Stable
      <3> DEFINE V == Heard(l[1], l[2])
      <3>1. /\ Fresh(net[l], t, l, l[1] \in due)
            /\ Marked(routes[l[1]]) \/ Sees(net[l], t, l, V)
        BY <1>0, <2>5 DEF LinkOK, LinksOK, t
      <3>2. V' = V
        BY <2>3 DEF Heard, Told
      <3>3. routes'[l[2]] = u
        BY <1>2, <2>2, <2>5
      <3> HIDE DEF V
      <3>4. Fresh(net[l], u, l, l[1] \in due)
        BY <1>3, <3>1 DEF Fresh
      <3>5. Sees(net[l], t, l, V) => Sees(net[l], u, l, V)
        BY <1>3 DEF Sees
      <3>6. Fresh(net'[l], u, l, l[1] \in due')
        BY <2>1, <2>3, <3>4 DEF Fresh
      <3> QED
        BY <2>1, <2>3, <3>1, <3>2, <3>3, <3>5, <3>6 DEF V
    <2> QED
      BY <2>4, <2>5
  <1>9. ASSUME NEW l \in Links, l[1] = r PROVE LinkOK(l)'
    <2> SUFFICES ASSUME strategy' # "SPLIT_HORIZON", losses' = 0, Stable(l)
                 PROVE  /\ Fresh(net'[l], routes'[l[2]], l, l[1] \in due')
                        /\ Marked(routes'[l[1]]) \/ Sees(net'[l], routes'[l[2]], l, Heard(l[1], l[2])')
      BY DEF LinkOK, Stable
    <2> DEFINE n == l[2]
               V == Heard(r, n)
               R == Rtes(r, n, chosen)
               q == net[l]
               w == routes[n]
    <2>1. n \in Router /\ n # r /\ l \in up
      BY <1>0, <1>9, LinkFacts
    <2>2. routes'[n] = w /\ V' = V
      BY <1>2, <1>5, <2>1
    <2>3. /\ Fresh(q, w, l, l[1] \in due)
          /\ Marked(t) \/ Sees(q, w, l, V)
          /\ strategy # "SPLIT_HORIZON"
      BY <1>0, <1>9 DEF LinkOK, LinksOK, t
    <2>4. net'[l] = IF R # <<>> THEN Append(q, Response(R)) ELSE q
      <3>1. l \in DOMAIN out /\ out[l] = Response(R)
        BY <1>9, <2>1 DEF Sending
      <3>2. Response(R).command = "RESPONSE" /\ Response(R).rtes = R
        BY DEF Response
      <3> HIDE DEF out, R
      <3> QED
        BY <1>1, <3>1, <3>2 DEF Sent
    <2>5. /\ R \in Seq(Tellable(r))
          /\ R # <<>> => \E k \in DOMAIN t \cap chosen : R[Len(R)] = Told(t[k], n)
          /\ DOMAIN t \cap chosen # {} => R # <<>>
      BY <1>0, <2>3, RtesFacts DEF t
    <2>6. q \in Seq(Message)
      BY <1>0 DEF NetOK
    <2>7. V = {Told(t[k], n) : k \in DOMAIN t}
                \cup (IF t = <<>> \/ <<r, Stub>> \in Unstable THEN {LinkDown} ELSE {})
      BY DEF Heard, t
    <2> HIDE DEF R, q, w, V
    <2>8. CASE R # <<>>
      <3>1. R[Len(R)] \in V
        BY <2>5, <2>7, <2>8
      <3>2. Response(R) \in Message /\ Response(R).command = "RESPONSE" /\ Response(R).rtes = R
        BY <2>5, <2>8, ResponseFacts DEF Sendable
      <3>3. Sees(net'[l], w, l, V) /\ Responses(net'[l]) # {}
        BY <2>4, <2>6, <2>8, <3>1, <3>2, SeesResponse
      <3>4. Fresh(net'[l], w, l, l[1] \in due')
        <4> SUFFICES ASSUME NEW k \in DOMAIN w, w[k].gateway = l[1], w[k].metric # LinkDown
                     PROVE  w[k].left >= TimeoutDelay - 1
          BY <3>3 DEF Fresh
        <4>1. w[k].left >= TimeoutDelay \/ w[k].left >= TimeoutDelay - 1
          BY <2>3 DEF Fresh
        <4>2. w[k].left \in Nat /\ TimeoutDelay \in Nat
          <5>1. w \in Seq(Believable(n))
            BY <1>0, <2>1 DEF RoutesOK, w
          <5>2. w[k] \in Believable(n)
            BY <5>1
          <5> QED
            BY <5>2, RipAssumption DEF Believable, Entry
        <4> QED
          BY <4>1, <4>2
      <3> QED
        BY <1>9, <2>2, <3>3, <3>4 DEF n, V
    <2>9. CASE R = <<>>
      <3>1. DOMAIN t \cap chosen = {} /\ net'[l] = q
        BY <2>4, <2>5, <2>9
      <3>2. ~Marked(t) /\ (periodic => DOMAIN t = {})
        BY <3>1 DEF Marked, chosen, t
      <3>3. Sees(q, w, l, V)
        BY <2>3, <3>2
      <3>4. Fresh(q, w, l, l[1] \in due')
        <4>1. CASE ~periodic
          BY <2>3, <4>1
        <4>2. CASE periodic
          <5>1. V = {LinkDown}
            <6>1. t = <<>>
              BY <1>0, <3>2, <4>2 DEF t
            <6>2. DOMAIN t = {}
              BY <3>2, <4>2
            <6> QED
              BY <2>7, <6>1, <6>2
          <5>2. Responses(q) = {} => \A k \in DOMAIN w : w[k].gateway = l[1] => w[k].metric = LinkDown
            BY <3>3, <5>1, OfferInfinity DEF Sees
          <5> QED
            BY <2>3, <5>2 DEF Fresh
        <4> QED
          BY <4>1, <4>2
      <3> QED
        BY <1>9, <2>2, <3>1, <3>3, <3>4 DEF n, V
    <2> QED
      BY <2>8, <2>9
  <1> QED
    BY <1>6, <1>7, <1>8, <1>9 DEF LinksOK

LEMMA HandleRequestsAgrees ==
    ASSUME AInv, NEW l0 \in Links, HandleRequests(l0)
    PROVE  StableUp' /\ TablesOK' /\ LinksOK'
  <1> DEFINE r == l0[2]
             back == <<l0[2], l0[1]>>
             chosen == {k \in DOMAIN routes[r] : routes[r][k].status = "RIP_VALID"}
             R == Rtes(r, l0[1], chosen)
  <1>0. /\ IInv /\ StableUp /\ TablesOK /\ LinksOK /\ RoutesOK /\ NetOK
    BY AInvParts DEF IInv
  <1>1. /\ net[l0] # <<>> /\ Head(net[l0]).command = "REQUEST"
        /\ net' = [Taken(l0) EXCEPT ![back] = IF R = <<>> THEN @ ELSE Append(@, Response(R))]
        /\ UNCHANGED <<strategy, up, routes, due, losses>>
    BY DEF HandleRequests, Receive, configVars
  <1>2. r \in Router /\ back \in Links /\ back # l0 /\ back[1] = r /\ back[2] = l0[1]
    <2>1. l0[1] # l0[2] /\ l0 = <<l0[1], l0[2]>>
      BY LinkFacts
    <2>2. back # l0
      BY <2>1
    <2> QED
      BY <2>2, LinkFacts
  <1>3. \A x \in Links : Taken(l0)[x] = IF x = l0 THEN Tail(net[l0]) ELSE net[x]
    BY <1>0 DEF Taken, NetOK
  <1>4. /\ R \in Seq(Tellable(r))
        /\ R # <<>> => \E k \in DOMAIN routes[r] : R[Len(R)] = Told(routes[r][k], l0[1])
    <2>1. routes[r] \in Seq(Believable(r))
      BY <1>0, <1>2 DEF RoutesOK
    <2> HIDE DEF chosen, r
    <2> QED
      BY <1>2, <2>1, RtesFacts
  <1>5. Taken(l0) = [x \in Links |-> Taken(l0)[x]]
    BY <1>0, <1>1, TakenFacts
  <1> HIDE DEF R, back
  <1>6. \A x \in Links :
          net'[x] = IF x = l0 THEN Tail(net[l0])
                    ELSE IF x = back /\ R # <<>> THEN Append(net[x], Response(R)) ELSE net[x]
    BY <1>1, <1>2, <1>3, <1>5
  <1>7. StableUp' /\ TablesOK'
    BY <1>0, <1>1 DEF StableUp, TablesOK, TableOK
  <1>8. ASSUME NEW l \in Links PROVE LinkOK(l)'
    <2>1. CASE l # l0 /\ ~(l = back /\ R # <<>>)
      <3>1. net'[l] = net[l] /\ LinkOK(l)
        BY <1>0, <1>6, <2>1 DEF LinksOK
      <3> QED
        BY <1>1, <3>1, LinkKept
    <2>2. CASE l = l0 \/ (l = back /\ R # <<>>)
      <3> SUFFICES ASSUME strategy' # "SPLIT_HORIZON", losses' = 0, Stable(l)
                   PROVE  /\ Fresh(net'[l], routes'[l[2]], l, l[1] \in due')
                          /\ Marked(routes'[l[1]]) \/ Sees(net'[l], routes'[l[2]], l, Heard(l[1], l[2])')
        BY DEF LinkOK, Stable
      <3> DEFINE V == Heard(l[1], l[2])
                 q == net[l]
                 w == routes[l[2]]
      <3>1. /\ Fresh(q, w, l, l[1] \in due)
            /\ Marked(routes[l[1]]) \/ Sees(q, w, l, V)
        BY <1>0, <1>1 DEF LinkOK, LinksOK
      <3>2. V' = V
        BY <1>1 DEF Heard, Told
      <3>3. q \in Seq(Message)
        BY <1>0 DEF NetOK
      <3>4. routes'[l[2]] = w /\ routes'[l[1]] = routes[l[1]] /\ due' = due
        BY <1>1
      <3>5. V = Heard(l[1], l[2])
        OBVIOUS
      <3> HIDE DEF V, q, w
      <3>6. CASE l = l0
        <4>1. net'[l] = Tail(q) /\ q # <<>> /\ Head(q).command # "RESPONSE"
          BY <1>1, <1>6, <3>6 DEF q
        <4>2. /\ Responses(Tail(q)) = {} <=> Responses(q) = {}
              /\ Sees(q, w, l, V) => Sees(Tail(q), w, l, V)
          BY <3>3, <4>1, SeesTail
        <4>3. Fresh(Tail(q), w, l, l[1] \in due)
          BY <3>1, <4>2 DEF Fresh
        <4> QED
          BY <3>1, <3>2, <3>4, <4>1, <4>2, <4>3 DEF V
      <3>7. CASE l = back /\ R # <<>>
        <4>1. l[1] = r /\ l[2] = l0[1] /\ l # l0
          BY <1>2, <3>7
        <4>2. net'[l] = Append(q, Response(R))
          BY <1>6, <3>7, <4>1 DEF q
        <4>3. Response(R) \in Message /\ Response(R).command = "RESPONSE" /\ Response(R).rtes = R
          BY <1>4, <3>7, ResponseFacts DEF Sendable
        <4>4. R[Len(R)] \in V
          <5>1. V = {Told(routes[r][k], l0[1]) : k \in DOMAIN routes[r]}
                      \cup (IF routes[r] = <<>> \/ <<r, Stub>> \in Unstable THEN {LinkDown} ELSE {})
            BY <4>1 DEF V, Heard
          <5> QED
            BY <1>4, <3>7, <5>1
        <4>5. Sees(net'[l], w, l, V) /\ Responses(net'[l]) # {}
          BY <3>3, <4>2, <4>3, <4>4, SeesResponse
        <4>6. Fresh(net'[l], w, l, l[1] \in due)
          BY <3>1, <4>5 DEF Fresh
        <4> QED
          BY <3>2, <3>4, <4>5, <4>6 DEF V
      <3> QED
        BY <2>2, <3>6, <3>7
    <2> QED
      BY <2>1, <2>2
  <1> QED
    BY <1>7, <1>8 DEF LinksOK

LEMMA LoseAgrees ==
    ASSUME AInv, NEW l0 \in Links, Lose(l0)
    PROVE  StableUp' /\ TablesOK' /\ LinksOK'
  <1>0. /\ IInv /\ StableUp /\ TablesOK /\ LinksOK /\ NetOK /\ losses \in Nat
    BY AInvParts, RipAssumption DEF IInv, RestOK
  <1>1. /\ net' = Taken(l0)
        /\ UNCHANGED <<strategy, up, routes, due>>
        /\ IF <<l0[2], l0[1]>> \in up THEN losses' = losses + 1 ELSE losses' = losses
    BY DEF Lose, configVars
  <1>2. \A x \in Links : net'[x] = IF x = l0 THEN Tail(net[l0]) ELSE net[x]
    BY <1>0, <1>1 DEF Taken, NetOK
  <1>3. StableUp' /\ TablesOK'
    BY <1>0, <1>1 DEF StableUp, TablesOK, TableOK
  <1>4. ASSUME NEW l \in Links PROVE LinkOK(l)'
    <2>1. losses' = 0 => losses = 0 /\ <<l0[2], l0[1]>> \notin up
      BY <1>0, <1>1
    <2>2. CASE l = l0
      <3>1. Stable(l) => <<l[2], l[1]>> \in up
        BY <1>0, LinkFacts
      <3> QED
        BY <2>1, <2>2, <3>1 DEF LinkOK, Stable
    <2>3. CASE l # l0
      <3>1. net'[l] = net[l] /\ LinkOK(l)
        BY <1>0, <1>2, <2>3 DEF LinksOK
      <3> QED
        BY <1>1, <2>1, <3>1, LinkKept
    <2> QED
      BY <2>2, <2>3
  <1> QED
    BY <1>3, <1>4 DEF LinksOK

LEMMA HandleResponsesAgrees ==
    ASSUME AInv, NEW l0 \in Links, HandleResponses(l0)
    PROVE  StableUp' /\ TablesOK' /\ LinksOK'
  <1> DEFINE r == l0[2]
             g == l0[1]
             rtes == Head(net[l0]).rtes
             F(f) == [k \in 0..Len(rtes) |->
                        IF k = 0 THEN routes[r] ELSE Processed(f[k - 1], Offer(rtes[k], l0), g)]
             table == CHOOSE f : f = F(f)
             u == table[Len(rtes)]
             last == rtes[Len(rtes)]
             m == Offer(last, l0)
             t == routes[r]
  <1>0. /\ IInv /\ StableUp /\ TablesOK /\ LinksOK /\ RoutesOK /\ NetOK
        /\ r \in Router /\ g \in Router /\ r # g /\ t \in Seq(Believable(r))
    BY AInvParts, LinkFacts DEF IInv, RoutesOK
  <1>1. /\ net[l0] # <<>> /\ Head(net[l0]).command = "RESPONSE"
        /\ net' = Taken(l0)
        /\ routes' = [routes EXCEPT ![r] = u]
        /\ UNCHANGED <<strategy, up, due, losses>>
    BY DEF HandleResponses, Receive, configVars
  <1>2. rtes \in Seq(Tellable(g)) /\ rtes # <<>>
    <2>1. Head(net[l0]) \in Sendable(g)
      BY <1>0, <1>1, TakenFacts
    <2> QED
      BY <1>1, <2>1 DEF Sendable
  <1>3. Follows(u, t, m, g) /\ u \in Seq(Believable(r))
    <2> HIDE DEF rtes
    <2> QED
      BY <1>0, <1>2, TablesFacts
  <1>4. last = Head(net[l0]).rtes[Len(Head(net[l0]).rtes)]
    OBVIOUS
  <1> HIDE DEF u, last
  <1>5. \A x \in Router : routes'[x] = IF x = r THEN u ELSE routes[x]
    BY <1>0, <1>1 DEF RoutesOK
  <1>6. \A x \in Links : net'[x] = IF x = l0 THEN Tail(net[l0]) ELSE net[x]
    BY <1>0, <1>1 DEF Taken, NetOK
  <1> HIDE DEF m, t, r, g, rtes
  <1>7. StableUp'
    BY <1>0, <1>1 DEF StableUp
  <1>8. TablesOK'
    <2>1. ASSUME NEW x \in Router PROVE TableOK(routes[x], x)'
      <3>1. CASE x # r
        <4>1. routes'[x] = routes[x] /\ due' = due
          BY <1>1, <1>5, <3>1
        <4> QED
          BY <1>0, <4>1 DEF TablesOK, TableOK
      <3>2. CASE x = r
        <4>1. routes'[x] = u /\ due' = due
          BY <1>1, <1>5, <3>2
        <4>2. TableOK(t, r)
          BY <1>0 DEF TablesOK, t
        <4>3. ASSUME NEW k \in DOMAIN u, u[k].changed, u[k].event = "DeleteRoute"
              PROVE  \/ u[k].left >= GarbageCollectionDelay
                     \/ u[k].left >= GarbageCollectionDelay - 1 /\ r \in due
          <5>1. u[k].left = GarbageCollectionDelay \/ (k \in DOMAIN t /\ u[k] = t[k])
            BY <1>3, <4>3 DEF Follows
          <5>2. GarbageCollectionDelay \in Nat
            BY RipAssumption
          <5> QED
            BY <4>2, <4>3, <5>1, <5>2 DEF TableOK
        <4>4. <<r, Stub>> \notin Unstable => Len(u) <= 1
          BY <1>3, <4>2 DEF TableOK, Follows
        <4> QED
          BY <3>2, <4>1, <4>3, <4>4 DEF TableOK
      <3> QED
        BY <3>1, <3>2
    <2> QED
      BY <2>1 DEF TablesOK
  <1>9. ASSUME NEW l \in Links PROVE LinkOK(l)'
    <2>0. LinkOK(l) /\ l[1] \in Router /\ l[2] \in Router /\ l[1] # l[2] /\ l = <<l[1], l[2]>>
      BY <1>0, LinkFacts DEF LinksOK
    <2>00. l0[2] = r /\ l0[1] = g /\ l0 = <<g, r>>
      BY LinkFacts DEF r, g
    <2>1. CASE l[1] # r /\ l[2] # r
      <3>1. net'[l] = net[l] /\ routes'[l[1]] = routes[l[1]] /\ routes'[l[2]] = routes[l[2]]
        BY <1>5, <1>6, <2>0, <2>00, <2>1
      <3> QED
        BY <1>1, <2>0, <3>1, LinkKept
    <2> DEFINE V == Heard(l[1], l[2])
               q == net[l]
               w == routes[l[2]]
    <2>2. CASE l[1] = r \/ l[2] = r
      <3> SUFFICES ASSUME strategy' # "SPLIT_HORIZON", losses' = 0, Stable(l)
                   PROVE  /\ Fresh(net'[l], routes'[l[2]], l, l[1] \in due')
                          /\ Marked(routes'[l[1]]) \/ Sees(net'[l], routes'[l[2]], l, Heard(l[1], l[2])')
        BY DEF LinkOK, Stable
      <3>1. /\ Fresh(q, w, l, l[1] \in due)
            /\ Marked(routes[l[1]]) \/ Sees(q, w, l, V)
            /\ due' = due
        BY <1>1, <2>0 DEF LinkOK
      <3>2. CASE l[1] = r
        <4>1. l # l0 /\ l[2] # r
          BY <1>0, <2>0, <2>00, <3>2
        <4>2. net'[l] = q /\ routes'[l[2]] = w /\ routes'[l[1]] = u /\ routes[l[1]] = t
          BY <1>5, <1>6, <2>0, <3>2, <4>1 DEF t
        <4>3. CASE Marked(u)
          BY <3>1, <4>2, <4>3
        <4>4. CASE ~Marked(u)
          <5>1. /\ DOMAIN u = DOMAIN t
                /\ \A k \in DOMAIN t : /\ ~t[k].changed
                                       /\ u[k].metric = t[k].metric /\ u[k].gateway = t[k].gateway
            BY <1>3, <4>4 DEF Follows
          <5>2. ~Marked(t)
            BY <5>1 DEF Marked
          <5>3. u = <<>> <=> t = <<>>
            <6>1. (u = <<>> <=> DOMAIN u = {}) /\ (t = <<>> <=> DOMAIN t = {})
              BY <1>0, <1>3
            <6> QED
              BY <5>1, <6>1
          <5>4. V' = V
            BY <1>1, <4>2, <5>1, <5>3, HeardKept
          <5> QED
            BY <3>1, <4>2, <5>2, <5>4
        <4> QED
          BY <4>3, <4>4
      <3>3. CASE l[2] = r
        <4>1. l[1] # r /\ routes'[l[1]] = routes[l[1]] /\ routes'[l[2]] = u /\ w = t
          BY <1>5, <2>0, <3>3 DEF t
        <4>2. V' = V
          BY <1>1, <4>1 DEF Heard, Told
        <4>3. CASE l = l0
          <5>1. l[1] = g /\ net'[l] = Tail(q) /\ q # <<>> /\ Head(q).command = "RESPONSE" /\ q \in Seq(Message)
            BY <1>0, <1>1, <1>6, <2>00, <4>3 DEF NetOK
          <5>2. \A k \in DOMAIN u : u[k].gateway = g => u[k].metric = m /\ (m # LinkDown => u[k].left = TimeoutDelay)
            BY <1>3 DEF Follows
          <5>3. Fresh(Tail(q), u, l, l[1] \in due)
            BY <5>1, <5>2, RipAssumption DEF Fresh
          <5>4. Sees(q, w, l, V) => Sees(Tail(q), u, l, V)
            <6>1. m = Offer(last, l) /\ last = Head(q).rtes[Len(Head(q).rtes)]
              BY <1>4, <4>3 DEF m
            <6> HIDE DEF q, V, w
            <6> QED
              BY <5>1, <5>2, <6>1, SeesReceived
          <5> QED
            BY <3>1, <4>1, <4>2, <5>1, <5>3, <5>4
        <4>4. CASE l # l0
          <5>1. net'[l] = q /\ l[1] # g
            BY <1>6, <2>0, <2>00, <3>3, <4>4
          <5>2. \A k \in DOMAIN u : u[k].gateway = l[1] => k \in DOMAIN w /\ u[k] = w[k]
            BY <1>3, <4>1, <5>1 DEF Follows
          <5>3. Fresh(q, u, l, l[1] \in due)
            BY <3>1, <5>2 DEF Fresh
          <5>4. Sees(q, w, l, V) => Sees(q, u, l, V)
            BY <5>2 DEF Sees
          <5> QED
            BY <3>1, <4>1, <4>2, <5>1, <5>3, <5>4
        <4> QED
          BY <4>3, <4>4
      <3> QED
        BY <2>2, <3>2, <3>3
    <2> QED
      BY <2>1, <2>2
  <1> QED
    BY <1>7, <1>8, <1>9 DEF LinksOK

\* No table changes.
LEMMA NothingAgrees ==
    ASSUME TablesOK, LinksOK, UNCHANGED <<strategy, routes, net, due, losses>>
    PROVE  TablesOK' /\ LinksOK'
  <1>1. TablesOK'
    BY DEF TablesOK, TableOK
  <1>2. ASSUME NEW l \in Links PROVE LinkOK(l)'
    BY LinkKept DEF LinksOK
  <1> QED
    BY <1>1, <1>2 DEF LinksOK

\* One table changes: over the links that lose nothing what it has of others stays
\* or was infinity already, and what it has to tell is marked or was heard.
LEMMA TableAgrees ==
    ASSUME IInv, TablesOK, LinksOK, NEW r \in Router, NEW u,
           routes' = [routes EXCEPT ![r] = u], UNCHANGED <<strategy, net, due, losses>>,
           TableOK(u, r),
           \A l \in Links : strategy # "SPLIT_HORIZON" /\ losses = 0 /\ Stable(l) /\ l[2] = r
              => \A k \in DOMAIN u : u[k].gateway = l[1]
                   => \E i \in DOMAIN routes[r] :
                         /\ routes[r][i].gateway = l[1]
                         /\ routes[r][i].metric = u[k].metric
                         /\ routes[r][i].left = u[k].left \/ u[k].metric = LinkDown,
           \A l \in Links : Stable(l) /\ l[1] = r
              => \/ Marked(u)
                 \/ ~Marked(routes[r]) /\ Heard(r, l[2]) \subseteq Heard(r, l[2])'
    PROVE  TablesOK' /\ LinksOK'
  <1>1. \A x \in Router : routes'[x] = IF x = r THEN u ELSE routes[x]
    BY DEF IInv, RoutesOK
  <1>2. TablesOK'
    <2>1. ASSUME NEW x \in Router PROVE TableOK(routes[x], x)'
      <3>1. TableOK(routes'[x], x)
        BY <1>1 DEF TablesOK
      <3> QED
        BY <3>1 DEF TableOK
    <2> QED
      BY <2>1 DEF TablesOK
  <1>3. ASSUME NEW l \in Links PROVE LinkOK(l)'
    <2>0. LinkOK(l) /\ l[1] \in Router /\ l[2] \in Router /\ l[1] # l[2]
      BY LinkFacts DEF LinksOK
    <2>1. CASE l[1] # r /\ l[2] # r
      <3>1. routes'[l[1]] = routes[l[1]] /\ routes'[l[2]] = routes[l[2]]
        BY <1>1, <2>0, <2>1
      <3> QED
        BY <2>0, <3>1, LinkKept
    <2> DEFINE V == Heard(l[1], l[2])
               q == net[l]
               w == routes[l[2]]
    <2>2. CASE l[1] = r \/ l[2] = r
      <3> SUFFICES ASSUME strategy' # "SPLIT_HORIZON", losses' = 0, Stable(l)
                   PROVE  /\ Fresh(net'[l], routes'[l[2]], l, l[1] \in due')
                          /\ Marked(routes'[l[1]]) \/ Sees(net'[l], routes'[l[2]], l, Heard(l[1], l[2])')
        BY DEF LinkOK, Stable
      <3>1. /\ Fresh(q, w, l, l[1] \in due)
            /\ Marked(routes[l[1]]) \/ Sees(q, w, l, V)
            /\ due' = due /\ net'[l] = q
        BY <2>0 DEF LinkOK
      <3>2. CASE l[1] = r
        <4>1. routes'[l[2]] = w /\ routes'[l[1]] = u
          BY <1>1, <2>0, <3>2
        <4>2. CASE Marked(u)
          BY <3>1, <4>1, <4>2
        <4>3. CASE ~Marked(routes[r]) /\ V \subseteq V'
          <5>1. Sees(q, w, l, V)
            BY <3>1, <3>2, <4>3
          <5> HIDE DEF q, w, V
          <5>2. Sees(q, w, l, V')
            BY <4>3, <5>1 DEF Sees
          <5> QED
            BY <3>1, <4>1, <5>2 DEF q, w, V
        <4> QED
          BY <3>2, <4>2, <4>3
      <3>3. CASE l[2] = r
        <4>1. l[1] # r /\ routes'[l[1]] = routes[l[1]] /\ routes'[l[2]] = u
          BY <1>1, <2>0, <3>3
        <4>2. V' = V
          BY <4>1 DEF Heard, Told
        <4>3. \A k \in DOMAIN u : u[k].gateway = l[1]
                => \E i \in DOMAIN w : /\ w[i].gateway = l[1] /\ w[i].metric = u[k].metric
                                       /\ w[i].left = u[k].left \/ u[k].metric = LinkDown
          BY <3>3
        <4> HIDE DEF q, w, V
        <4>4. Fresh(q, u, l, l[1] \in due)
          BY <3>1, <4>3 DEF Fresh
        <4>5. Sees(q, w, l, V) => Sees(q, u, l, V)
          BY <4>3 DEF Sees
        <4> QED
          BY <3>1, <4>1, <4>2, <4>4, <4>5 DEF V, q, w
      <3> QED
        BY <2>2, <3>2, <3>3
    <2> QED
      BY <2>1, <2>2
  <1> QED
    BY <1>2, <1>3 DEF LinksOK

LEMMA InvalidateRouteAgrees ==
    ASSUME TimeoutDelay > 1, AInv, NEW r \in Router, NEW k \in DOMAIN routes[r], InvalidateRoute(r, k)
    PROVE  StableUp' /\ TablesOK' /\ LinksOK'
  <1> DEFINE t == routes[r]
             e == t[k]
             f == Invalidated(e)
             u == [t EXCEPT ![k] = f]
  <1>0. /\ IInv /\ StableUp /\ TablesOK /\ LinksOK /\ RoutesOK
        /\ t \in Seq(Believable(r)) /\ k \in DOMAIN t /\ e \in Believable(r)
    <2>1. IInv /\ StableUp /\ TablesOK /\ LinksOK /\ RoutesOK /\ t \in Seq(Believable(r))
      BY AInvParts DEF IInv, RoutesOK
    <2> QED
      BY <2>1
  <1>1. /\ routes' = [routes EXCEPT ![r] = u]
        /\ UNCHANGED <<strategy, up, net, due, losses>>
        /\ e.left = 0
    BY <1>0 DEF InvalidateRoute, RoutesOK, Due, configVars
  <1>2. StableUp'
    BY <1>0, <1>1 DEF StableUp
  <1>3. /\ f.changed /\ f.metric = LinkDown /\ f.gateway = e.gateway
        /\ f.left = GarbageCollectionDelay
    <2>1. e \in Entry
      BY <1>0 DEF Believable
    <2> HIDE DEF e
    <2> QED
      BY <2>1 DEF Invalidated, Entry
  <1>4. TableOK(t, r)
    BY <1>0 DEF TablesOK
  <1>5. \A l \in Links : strategy # "SPLIT_HORIZON" /\ losses = 0 /\ Stable(l) /\ l[2] = r
           => Fresh(net[l], t, l, l[1] \in due)
    BY <1>0 DEF LinksOK, LinkOK
  <1>6. ASSUME NEW l \in Links, strategy # "SPLIT_HORIZON", losses = 0, Stable(l), l[2] = r,
               e.gateway = l[1]
        PROVE  e.metric = LinkDown
    <2>1. Fresh(net[l], t, l, l[1] \in due)
      BY <1>5, <1>6
    <2> HIDE DEF t
    <2>2. TimeoutDelay \in Nat
      BY RipAssumption
    <2> QED
      BY <1>0, <1>1, <1>6, <2>1, <2>2 DEF Fresh
  <1> HIDE DEF f, e
  <1>7. DOMAIN u = DOMAIN t /\ Len(u) = Len(t) /\ u[k] = f /\ \A i \in DOMAIN t : i # k => u[i] = t[i]
    BY <1>0
  <1> HIDE DEF u
  <1>8. TableOK(u, r)
    BY <1>3, <1>4, <1>7, RipAssumption DEF TableOK
  <1>9. Marked(u)
    BY <1>0, <1>3, <1>7 DEF Marked
  <1>10. ASSUME NEW l \in Links, strategy # "SPLIT_HORIZON", losses = 0, Stable(l), l[2] = r,
                NEW j \in DOMAIN u, u[j].gateway = l[1]
         PROVE  \E i \in DOMAIN t : /\ t[i].gateway = l[1] /\ t[i].metric = u[j].metric
                                    /\ t[i].left = u[j].left \/ u[j].metric = LinkDown
    <2>1. CASE j # k
      BY <1>7, <1>10, <2>1
    <2>2. CASE j = k
      <3>1. t[k].gateway = l[1] /\ t[k].metric = LinkDown /\ u[j].metric = LinkDown
        BY <1>3, <1>6, <1>7, <1>10, <2>2 DEF e
      <3> QED
        BY <1>0, <3>1
    <2> QED
      BY <2>1, <2>2
  <1>11. TablesOK' /\ LinksOK'
    <2>1. \A l \in Links : strategy # "SPLIT_HORIZON" /\ losses = 0 /\ Stable(l) /\ l[2] = r
            => \A j \in DOMAIN u : u[j].gateway = l[1]
                 => \E i \in DOMAIN routes[r] :
                       /\ routes[r][i].gateway = l[1]
                       /\ routes[r][i].metric = u[j].metric
                       /\ routes[r][i].left = u[j].left \/ u[j].metric = LinkDown
      BY <1>10
    <2>2. \A l \in Links : Stable(l) /\ l[1] = r
            => \/ Marked(u)
               \/ ~Marked(routes[r]) /\ Heard(r, l[2]) \subseteq Heard(r, l[2])'
      BY <1>9
    <2> QED
      BY <1>0, <1>1, <1>8, <2>1, <2>2, TableAgrees
  <1> QED
    BY <1>2, <1>11

LEMMA DeleteRouteAgrees ==
    ASSUME GarbageCollectionDelay > 1, AInv, NEW r \in Router, NEW k \in DOMAIN routes[r], DeleteRoute(r, k)
    PROVE  StableUp' /\ TablesOK' /\ LinksOK'
  <1> DEFINE t == routes[r]
             u == RemoveAt(t, k)
  <1>0. /\ IInv /\ StableUp /\ TablesOK /\ LinksOK /\ RoutesOK
        /\ t \in Seq(Believable(r)) /\ k \in 1..Len(t) /\ t[k] \in Believable(r)
    <2>1. IInv /\ StableUp /\ TablesOK /\ LinksOK /\ RoutesOK /\ t \in Seq(Believable(r))
      BY AInvParts DEF IInv, RoutesOK
    <2> QED
      BY <2>1
  <1>1. /\ routes' = [routes EXCEPT ![r] = u]
        /\ UNCHANGED <<strategy, up, net, due, losses>>
        /\ t[k].left = 0 /\ t[k].event = "DeleteRoute"
    BY <1>0 DEF DeleteRoute, RoutesOK, Due, configVars
  <1>2. StableUp'
    BY <1>0, <1>1 DEF StableUp
  <1>3. TableOK(t, r) /\ routes'[r] = u
    BY <1>0, <1>1 DEF TablesOK, RoutesOK
  <1>4. /\ u \in Seq(Believable(r)) /\ Len(u) = Len(t) - 1
        /\ \A j \in DOMAIN u : \E i \in DOMAIN t : i # k /\ u[j] = t[i]
        /\ \A i \in DOMAIN t : i # k => \E j \in DOMAIN u : u[j] = t[i]
    <2> HIDE DEF t
    <2> QED
      BY <1>0, RemoveFacts
  <1> HIDE DEF u, t
  <1>5. Len(t) \in Nat \ {0} /\ k \in DOMAIN t
    BY <1>0
  <1>6. TableOK(u, r)
    BY <1>3, <1>4, <1>5 DEF TableOK
  <1>7. ~t[k].changed
    BY <1>1, <1>3, <1>5, RipAssumption DEF TableOK
  <1>8. ~Marked(u) => ~Marked(t)
    BY <1>4, <1>7 DEF Marked
  <1>9. t[k].metric = LinkDown
    BY <1>0, <1>1 DEF Believable
  <1>10. ASSUME NEW n PROVE Heard(r, n) \subseteq Heard(r, n)'
    <2>1. \A e : Told(e, n)' = Told(e, n)
      BY <1>1 DEF Told
    <2>2. Told(t[k], n) = LinkDown
      BY <1>9 DEF Told
    <2>3. LinkDown \in Heard(r, n)'
      <3>1. CASE <<r, Stub>> \in Unstable
        BY <3>1 DEF Heard
      <3>2. CASE <<r, Stub>> \notin Unstable
        <4>1. Len(u) = 0
          BY <1>3, <1>4, <1>5, <3>2 DEF TableOK
        <4>2. u = <<>>
          BY <1>4, <4>1
        <4> QED
          BY <1>3, <4>2 DEF Heard
      <3> QED
        BY <3>1, <3>2
    <2>4. ASSUME NEW i \in DOMAIN t, i # k PROVE Told(t[i], n) \in Heard(r, n)'
      <3>1. PICK j \in DOMAIN u : u[j] = t[i]
        BY <1>4, <2>4
      <3>2. Told(routes[r][j], n)' = Told(t[i], n)
        BY <1>1, <1>3, <3>1 DEF Told
      <3> QED
        BY <1>3, <3>1, <3>2 DEF Heard
    <2>5. \A i \in DOMAIN t : Told(t[i], n) \in Heard(r, n)'
      BY <2>2, <2>3, <2>4
    <2> QED
      BY <2>3, <2>5 DEF Heard, t
  <1>11. TablesOK' /\ LinksOK'
    <2>1. \A l \in Links : strategy # "SPLIT_HORIZON" /\ losses = 0 /\ Stable(l) /\ l[2] = r
            => \A j \in DOMAIN u : u[j].gateway = l[1]
                 => \E i \in DOMAIN routes[r] :
                       /\ routes[r][i].gateway = l[1]
                       /\ routes[r][i].metric = u[j].metric
                       /\ routes[r][i].left = u[j].left \/ u[j].metric = LinkDown
      <3>1. ASSUME NEW j \in DOMAIN u PROVE \E i \in DOMAIN routes[r] : u[j] = routes[r][i]
        BY <1>4 DEF t
      <3> QED
        BY <3>1
    <2>2. \A l \in Links : Stable(l) /\ l[1] = r
            => \/ Marked(u)
               \/ ~Marked(routes[r]) /\ Heard(r, l[2]) \subseteq Heard(r, l[2])'
      BY <1>8, <1>10 DEF t
    <2> QED
      BY <1>0, <1>1, <1>6, <2>1, <2>2, TableAgrees
  <1> QED
    BY <1>2, <1>11

LEMMA NotifyInterfaceDownAgrees ==
    ASSUME AInv, NEW i \in Unstable, NotifyInterfaceDown(i)
    PROVE  StableUp' /\ TablesOK' /\ LinksOK'
  <1> DEFINE r == i[1]
             g == i[2]
             t == routes[r]
             u == [k \in DOMAIN t |-> IF t[k].gateway = g THEN Invalidated(t[k]) ELSE t[k]]
  <1>0. /\ IInv /\ StableUp /\ TablesOK /\ LinksOK /\ RoutesOK
        /\ r \in Router /\ i = <<r, g>> /\ t \in Seq(Believable(r))
    <2>1. IInv /\ StableUp /\ TablesOK /\ LinksOK /\ RoutesOK
      BY AInvParts DEF IInv
    <2>2. r \in Router /\ i = <<r, g>>
      BY RipAssumption, Constants
    <2> QED
      BY <2>1, <2>2 DEF RoutesOK
  <1>1. /\ routes' = [routes EXCEPT ![r] = u]
        /\ UNCHANGED <<strategy, net, due, losses>>
        /\ up' = up \ {i}
    BY <1>0 DEF NotifyInterfaceDown
  <1>2. StableUp'
    BY <1>0, <1>1 DEF StableUp
  <1>3. TableOK(t, r) /\ routes'[r] = u
    BY <1>0, <1>1 DEF TablesOK, RoutesOK
  <1>4. \A k \in DOMAIN t : /\ t[k].gateway = g => /\ u[k].changed /\ u[k].gateway = g
                                                  /\ u[k].left = GarbageCollectionDelay
                            /\ t[k].gateway # g => u[k] = t[k]
    <2>1. ASSUME NEW k \in DOMAIN t, t[k].gateway = g
          PROVE  u[k].changed /\ u[k].gateway = g /\ u[k].left = GarbageCollectionDelay
      <3> DEFINE e == t[k]
      <3>1. e \in Believable(r)
        BY <1>0
      <3>2. e \in Entry /\ e.gateway = g /\ u[k] = Invalidated(e)
        BY <2>1, <3>1 DEF Believable
      <3> HIDE DEF e, u
      <3> QED
        BY <3>2 DEF Invalidated, Entry
    <2> QED
      BY <2>1
  <1>5. /\ DOMAIN u = DOMAIN t /\ Len(u) = Len(t) /\ (u = <<>> <=> t = <<>>)
        /\ (\A k \in DOMAIN t : u[k] = t[k]) => u = t
    <2>1. DOMAIN u = DOMAIN t /\ DOMAIN t = 1..Len(t) /\ Len(t) \in Nat
      BY <1>0
    <2>2. u = [k \in 1..Len(t) |-> u[k]] /\ t = [k \in 1..Len(t) |-> t[k]]
      BY <1>0, <2>1
    <2> HIDE DEF u, t
    <2>3. Len(u) = Len(t)
      BY <2>1
    <2>4. u \in Seq({u[k] : k \in 1..Len(t)})
      BY <2>1, <2>2
    <2>5. u = <<>> <=> t = <<>>
      <3>1. t \in Seq(Believable(r))
        BY <1>0
      <3>2. (u = <<>> <=> Len(u) = 0) /\ (t = <<>> <=> Len(t) = 0)
        BY <2>4, <3>1
      <3> QED
        BY <2>3, <3>2
    <2> QED
      BY <2>1, <2>2, <2>3, <2>5
  <1> HIDE DEF u, t, r, g
  <1>6. TableOK(u, r)
    BY <1>3, <1>4, <1>5, RipAssumption DEF TableOK
  <1>7. ASSUME NEW l \in Links, Stable(l), l[2] = r PROVE l[1] # g
    <2>1. i = <<l[2], l[1]>> => i \notin Unstable
      BY <1>7 DEF Stable
    <2> QED
      BY <1>0, <1>7, <2>1
  <1>8. CASE \E k \in DOMAIN t : t[k].gateway = g
    <2>1. Marked(u)
      BY <1>4, <1>5, <1>8 DEF Marked
    <2>2. \A l \in Links : Stable(l) /\ l[1] = r
            => \/ Marked(u)
               \/ ~Marked(routes[r]) /\ Heard(r, l[2]) \subseteq Heard(r, l[2])'
      BY <2>1
    <2>3. \A l \in Links : strategy # "SPLIT_HORIZON" /\ losses = 0 /\ Stable(l) /\ l[2] = r
            => \A j \in DOMAIN u : u[j].gateway = l[1]
                 => \E k \in DOMAIN routes[r] :
                       /\ routes[r][k].gateway = l[1]
                       /\ routes[r][k].metric = u[j].metric
                       /\ routes[r][k].left = u[j].left \/ u[j].metric = LinkDown
      <3>1. ASSUME NEW l \in Links, Stable(l), l[2] = r, NEW j \in DOMAIN u, u[j].gateway = l[1]
            PROVE  j \in DOMAIN t /\ u[j] = t[j]
        BY <1>4, <1>5, <1>7, <3>1
      <3> QED
        BY <3>1 DEF t
    <2> QED
      BY <1>0, <1>1, <1>2, <1>6, <2>2, <2>3, TableAgrees
  <1>9. CASE ~ \E k \in DOMAIN t : t[k].gateway = g
    <2>1. u = t
      BY <1>4, <1>5, <1>9
    <2>2. routes' = routes
      BY <1>0, <1>1, <2>1 DEF RoutesOK, t
    <2> QED
      BY <1>0, <1>1, <1>2, <2>2, NothingAgrees
  <1> QED
    BY <1>8, <1>9

LEMMA NotifyInterfaceUpAgrees ==
    ASSUME AInv, NEW i \in Unstable, NotifyInterfaceUp(i)
    PROVE  StableUp' /\ TablesOK' /\ LinksOK'
  <1> DEFINE r == i[1]
             t == routes[r]
             u == Append(t, Connected)
  <1>0. /\ IInv /\ StableUp /\ TablesOK /\ LinksOK
        /\ r \in Router /\ i = <<r, i[2]>> /\ i \in Interface
        /\ routes \in [Router -> Seq(Entry)] /\ t \in Seq(Believable(r))
    <2>1. IInv /\ StableUp /\ TablesOK /\ LinksOK
      BY AInvParts
    <2>2. r \in Router /\ i = <<r, i[2]>> /\ i \in Interface
      BY RipAssumption, Constants
    <2> QED
      BY <2>1, <2>2 DEF IInv, RoutesOK
  <1>1. UNCHANGED <<strategy, net, due, losses>> /\ up' = up \cup {i}
    BY DEF NotifyInterfaceUp
  <1>2. StableUp'
    BY <1>0, <1>1 DEF StableUp
  <1>3. CASE i[2] # Stub
    <2>1. routes' = routes
      BY <1>3 DEF NotifyInterfaceUp
    <2> QED
      BY <1>0, <1>1, <1>2, <2>1, NothingAgrees
  <1>4. CASE i[2] = Stub
    <2>1. routes' = [routes EXCEPT ![r] = u] /\ <<r, Stub>> \in Unstable
      BY <1>0, <1>4 DEF NotifyInterfaceUp
    <2>2. Connected \in Believable(r)
      BY <1>0, <1>4, ConnectedFacts
    <2>3. TableOK(t, r)
      BY <1>0 DEF TablesOK
    <2> HIDE DEF t
    <2>4. /\ DOMAIN u = 1..(Len(t) + 1) /\ DOMAIN t = 1..Len(t) /\ Len(t) \in Nat
          /\ u[Len(t) + 1] = Connected
          /\ \A k \in DOMAIN t : u[k] = t[k]
      BY <1>0, <2>2, AppendFacts
    <2> HIDE DEF u
    <2>5. \A k \in DOMAIN u : (k \in DOMAIN t /\ u[k] = t[k]) \/ u[k] = Connected
      BY <2>4
    <2>6. Connected.changed /\ Connected.gateway = Stub /\ Connected.event # "DeleteRoute"
      BY DEF Connected
    <2>7. TableOK(u, r)
      BY <2>1, <2>3, <2>5, <2>6 DEF TableOK
    <2>8. Marked(u)
      <3>1. Len(t) + 1 \in DOMAIN u
        BY <2>4
      <3> QED
        BY <2>4, <2>6, <3>1 DEF Marked
    <2>9. \A l \in Links : Stable(l) /\ l[1] = r
            => \/ Marked(u)
               \/ ~Marked(routes[r]) /\ Heard(r, l[2]) \subseteq Heard(r, l[2])'
      BY <2>8
    <2>10. \A l \in Links : strategy # "SPLIT_HORIZON" /\ losses = 0 /\ Stable(l) /\ l[2] = r
            => \A j \in DOMAIN u : u[j].gateway = l[1]
                 => \E k \in DOMAIN routes[r] :
                       /\ routes[r][k].gateway = l[1]
                       /\ routes[r][k].metric = u[j].metric
                       /\ routes[r][k].left = u[j].left \/ u[j].metric = LinkDown
      <3>1. ASSUME NEW l \in Links, NEW j \in DOMAIN u, u[j].gateway = l[1]
            PROVE  j \in DOMAIN t /\ u[j] = t[j]
        BY <2>5, <2>6, <3>1, LinkFacts
      <3> QED
        BY <3>1 DEF t
    <2> HIDE DEF r
    <2> QED
      BY <1>0, <1>1, <1>2, <2>1, <2>7, <2>9, <2>10, TableAgrees
  <1> QED
    BY <1>3, <1>4

LEMMA TickAgrees ==
    ASSUME AInv, Tick
    PROVE  StableUp' /\ TablesOK' /\ LinksOK'
  <1> DEFINE Aged(e) == [e EXCEPT !.left = IF @ = 0 THEN 0 ELSE @ - 1]
             u(r) == [k \in DOMAIN routes[r] |-> Aged(routes[r][k])]
  <1>0. IInv /\ StableUp /\ TablesOK /\ LinksOK
    BY AInvParts
  <1>1. /\ UNCHANGED <<strategy, up, net, losses>>
        /\ due = {} /\ due' = Router
        /\ \A r \in Router : routes'[r] = u(r)
        /\ \A l \in Links : net[l] = <<>>
    <2>1. \A l \in Links : net[l] = <<>>
      BY LinkFacts DEF Tick, Quiet
    <2> QED
      BY <2>1 DEF Tick, configVars
  <1>2. StableUp'
    BY <1>0, <1>1 DEF StableUp
  <1>3. ASSUME NEW r \in Router
        PROVE  /\ DOMAIN u(r) = DOMAIN routes[r] /\ Len(u(r)) = Len(routes[r])
               /\ u(r) = <<>> <=> routes[r] = <<>>
               /\ \A k \in DOMAIN routes[r] :
                     /\ u(r)[k].metric = routes[r][k].metric /\ u(r)[k].gateway = routes[r][k].gateway
                     /\ u(r)[k].changed = routes[r][k].changed /\ u(r)[k].event = routes[r][k].event
                     /\ routes[r][k].left \in Nat
                     /\ u(r)[k].left = IF routes[r][k].left = 0 THEN 0 ELSE routes[r][k].left - 1
    <2> DEFINE t == routes[r]
               w == u(r)
    <2>1. t \in Seq(Entry)
      BY <1>0 DEF IInv, RoutesOK
    <2>2. ASSUME NEW k \in DOMAIN t
          PROVE  /\ w[k].metric = t[k].metric /\ w[k].gateway = t[k].gateway
                 /\ w[k].changed = t[k].changed /\ w[k].event = t[k].event
                 /\ t[k].left \in Nat
                 /\ w[k].left = IF t[k].left = 0 THEN 0 ELSE t[k].left - 1
      <3> DEFINE e == t[k]
      <3>1. e \in Entry /\ w[k] = Aged(e)
        BY <2>1
      <3>2. e.left \in Nat
        BY <3>1, RipAssumption DEF Entry
      <3> HIDE DEF e, w, t
      <3> QED
        BY <3>1, <3>2 DEF Entry, e
    <2>3. DOMAIN w = DOMAIN t /\ DOMAIN t = 1..Len(t) /\ Len(t) \in Nat
      BY <2>1
    <2>4. w = [k \in 1..Len(t) |-> w[k]]
      BY <2>3
    <2>5. (w = <<>> <=> t = <<>>) /\ Len(w) = Len(t)
      <3> HIDE DEF w, t
      <3>1. Len(w) = Len(t)
        BY <2>3
      <3>2. w \in Seq({w[k] : k \in 1..Len(t)})
        BY <2>3, <2>4
      <3> QED
        BY <2>1, <2>3, <3>1, <3>2
    <2> QED
      BY <2>2, <2>3, <2>5
  <1> HIDE DEF u
  <1>4. TablesOK'
    <2>1. ASSUME NEW r \in Router PROVE TableOK(routes[r], r)'
      <3>1. TableOK(routes[r], r) /\ r \notin due /\ r \in due'
        BY <1>0, <1>1 DEF TablesOK
      <3>2. ASSUME NEW k \in DOMAIN u(r), u(r)[k].changed, u(r)[k].event = "DeleteRoute"
            PROVE  u(r)[k].left >= GarbageCollectionDelay - 1
        <4>1. routes[r][k].left >= GarbageCollectionDelay
          BY <1>3, <3>1, <3>2 DEF TableOK
        <4> QED
          BY <1>3, <3>2, <4>1, RipAssumption
      <3>3. <<r, Stub>> \notin Unstable => Len(u(r)) <= 1
        BY <1>3, <3>1 DEF TableOK
      <3> QED
        BY <1>1, <3>1, <3>2, <3>3 DEF TableOK
    <2> QED
      BY <2>1 DEF TablesOK
  <1>5. ASSUME NEW l \in Links PROVE LinkOK(l)'
    <2> SUFFICES ASSUME strategy' # "SPLIT_HORIZON", losses' = 0, Stable(l)
                 PROVE  /\ Fresh(net'[l], routes'[l[2]], l, l[1] \in due')
                        /\ Marked(routes'[l[1]]) \/ Sees(net'[l], routes'[l[2]], l, Heard(l[1], l[2])')
      BY DEF LinkOK, Stable
    <2>1. /\ Fresh(net[l], routes[l[2]], l, l[1] \in due) /\ l[1] \notin due
          /\ Marked(routes[l[1]]) \/ Sees(net[l], routes[l[2]], l, Heard(l[1], l[2]))
      BY <1>0, <1>1 DEF LinksOK, LinkOK
    <2>2. /\ l[1] \in Router /\ l[2] \in Router
          /\ net'[l] = net[l] /\ Responses(net[l]) = {}
          /\ routes'[l[1]] = u(l[1]) /\ routes'[l[2]] = u(l[2])
          /\ l[1] \in due'
      <3>1. net[l] = <<>>
        BY <1>1
      <3>2. Responses(<<>>) = {}
        BY DEF Responses
      <3> QED
        BY <1>1, <3>1, <3>2, LinkFacts
    <2>3. Fresh(net[l], u(l[2]), l, TRUE)
      <3> DEFINE w == u(l[2])
                 t == routes[l[2]]
      <3>1. ASSUME NEW k \in DOMAIN w, w[k].gateway = l[1], w[k].metric # LinkDown
            PROVE  w[k].left >= TimeoutDelay - 1
        <4>1. t[k].left >= TimeoutDelay
          BY <1>3, <2>1, <2>2, <3>1 DEF Fresh
        <4>2. t[k].left \in Nat /\ w[k].left = IF t[k].left = 0 THEN 0 ELSE t[k].left - 1
          BY <1>3, <2>2, <3>1
        <4> HIDE DEF w, t
        <4> QED
          BY <4>1, <4>2, RipAssumption
      <3> QED
        BY <3>1 DEF Fresh
    <2>4. Marked(routes[l[1]]) => Marked(u(l[1]))
      BY <1>3, <2>2 DEF Marked
    <2>5. Heard(l[1], l[2])' = Heard(l[1], l[2])
      BY <1>1, <1>3, <2>2, HeardKept
    <2>6. \A V : Sees(net[l], routes[l[2]], l, V) => Sees(net[l], u(l[2]), l, V)
      <3>1. /\ DOMAIN u(l[2]) = DOMAIN routes[l[2]]
            /\ \A k \in DOMAIN routes[l[2]] : /\ u(l[2])[k].metric = routes[l[2]][k].metric
                                             /\ u(l[2])[k].gateway = routes[l[2]][k].gateway
        BY <1>3, <2>2
      <3> QED
        BY <3>1 DEF Sees
    <2>7. Fresh(net'[l], routes'[l[2]], l, l[1] \in due')
      BY <2>2, <2>3 DEF Fresh
    <2> QED
      BY <2>1, <2>2, <2>4, <2>5, <2>6, <2>7
  <1> QED
    BY <1>2, <1>4, <1>5 DEF LinksOK

LEMMA InitAInv == Init => AInv
  <1> SUFFICES ASSUME Init PROVE IInv /\ StableUp /\ TablesOK /\ LinksOK
    BY AInvParts
  <1>1. IInv /\ StableUp
    BY InitIInv DEF Init, StableUp
  <1>2. ASSUME NEW r \in Router, NEW k \in DOMAIN routes[r]
        PROVE  routes[r][k] = Connected /\ Len(routes[r]) = 1
    <2>1. routes[r] = <<Connected>> \/ routes[r] = <<>>
      BY DEF Init
    <2>2. CASE routes[r] = <<Connected>>
      <3> DEFINE t == routes[r]
      <3>1. t = <<Connected>> /\ k \in DOMAIN t
        BY <2>2
      <3> HIDE DEF t
      <3>2. k = 1 /\ Len(t) = 1 /\ t[1] = Connected
        BY <3>1
      <3> QED
        BY <3>2 DEF t
    <2>3. CASE routes[r] = <<>>
      BY <1>2, <2>3
    <2> QED
      BY <2>1, <2>2, <2>3
  <1>3. ASSUME NEW r \in Router PROVE TableOK(routes[r], r)
    <2>1. Len(routes[r]) <= 1
      BY DEF Init
    <2>2. \A k \in DOMAIN routes[r] : routes[r][k].event = "none"
      BY <1>2 DEF Connected
    <2> QED
      BY <2>1, <2>2 DEF TableOK
  <1>4. ASSUME NEW l \in Links PROVE LinkOK(l)
    <2>1. /\ l[1] # Stub /\ l[2] \in Router
          /\ \A k \in DOMAIN routes[l[2]] : routes[l[2]][k].gateway = Stub
      <3>1. l[1] # Stub /\ l[2] \in Router
        BY LinkFacts
      <3>2. \A k \in DOMAIN routes[l[2]] : routes[l[2]][k] = Connected
        BY <1>2, <3>1
      <3> QED
        BY <3>1, <3>2 DEF Connected
    <2>2. Responses(net[l]) = {}
      BY DEF Init, Responses
    <2>3. \A q, isDue : Fresh(q, routes[l[2]], l, isDue)
      BY <2>1 DEF Fresh
    <2>4. \A V : Sees(net[l], routes[l[2]], l, V)
      BY <2>1, <2>2 DEF Sees
    <2> QED
      BY <2>3, <2>4 DEF LinkOK
  <1> QED
    BY <1>1, <1>3, <1>4 DEF TablesOK, LinksOK

LEMMA NextAInv ==
    ASSUME TimeoutDelay > 1, GarbageCollectionDelay > 1, AInv, [Next]_vars
    PROVE  AInv'
  <1>1. IInv /\ IInv'
    BY NextIInv DEF AInv
  <1> SUFFICES StableUp' /\ TablesOK' /\ LinksOK'
    BY <1>1, AInvParts DEF StableUp, TablesOK, LinksOK, AInv
  <1>2. ASSUME NEW r \in Router, RouterStep(r) PROVE StableUp' /\ TablesOK' /\ LinksOK'
    <2>1. CASE SendRouteRequest(r)
      BY <2>1, RequestAgrees
    <2>2. CASE TriggeredUpdate(r)
      <3>1. DoSendRouteUpdate(r, FALSE) /\ UNCHANGED <<strategy, up, losses>> /\ due' = due
        BY <2>2 DEF TriggeredUpdate, configVars
      <3>2. due' = IF FALSE THEN due \ {r} ELSE due
        BY <3>1
      <3>3. FALSE \in BOOLEAN
        OBVIOUS
      <3> QED
        BY <3>1, <3>2, <3>3, UpdateAgrees
    <2>3. CASE SendUnsolicitedRouteUpdate(r)
      <3>1. DoSendRouteUpdate(r, TRUE) /\ UNCHANGED <<strategy, up, losses>> /\ due' = due \ {r}
        BY <2>3 DEF SendUnsolicitedRouteUpdate, configVars
      <3>2. due' = IF TRUE THEN due \ {r} ELSE due
        BY <3>1
      <3>3. TRUE \in BOOLEAN
        OBVIOUS
      <3> QED
        BY <3>1, <3>2, <3>3, UpdateAgrees
    <2>4. ASSUME NEW k \in DOMAIN routes[r], InvalidateRoute(r, k)
          PROVE  StableUp' /\ TablesOK' /\ LinksOK'
      BY <2>4, InvalidateRouteAgrees
    <2>5. ASSUME NEW k \in DOMAIN routes[r], DeleteRoute(r, k)
          PROVE  StableUp' /\ TablesOK' /\ LinksOK'
      BY <2>5, DeleteRouteAgrees
    <2> QED
      BY <1>2, <2>1, <2>2, <2>3, <2>4, <2>5 DEF RouterStep
  <1>3. ASSUME NEW l \in Links, Deliver(l) \/ Lose(l) PROVE StableUp' /\ TablesOK' /\ LinksOK'
    BY <1>3, HandleRequestsAgrees, HandleResponsesAgrees, LoseAgrees DEF Deliver
  <1>4. CASE Tick
    BY <1>4, TickAgrees
  <1>5. ASSUME NEW i \in Unstable, NotifyInterfaceDown(i) PROVE StableUp' /\ TablesOK' /\ LinksOK'
    BY <1>5, NotifyInterfaceDownAgrees
  <1>6. ASSUME NEW i \in Unstable, NotifyInterfaceUp(i) PROVE StableUp' /\ TablesOK' /\ LinksOK'
    BY <1>6, NotifyInterfaceUpAgrees
  <1>7. CASE UNCHANGED vars
    <2>1. UNCHANGED <<strategy, routes, net, due, losses, up>>
      BY <1>7 DEF vars
    <2>2. StableUp /\ TablesOK /\ LinksOK
      BY AInvParts
    <2> QED
      BY <2>1, <2>2, NothingAgrees DEF StableUp
  <1> QED
    BY <1>2, <1>3, <1>4, <1>5, <1>6, <1>7 DEF Next, Progress

\* Neighbours agree: over a link that lost nothing who goes through a router has
\* what that router told last, in a network of any shape with any number of
\* interfaces that fail.  A route must outlive the update that would confirm it,
\* and an invalid one the update that tells of it.
THEOREM NeighboursDoAgree ==
    ASSUME TimeoutDelay > 1, GarbageCollectionDelay > 1
    PROVE  Spec => []NeighboursAgree
  <1>1. AInv => NeighboursAgree
    <2> SUFFICES ASSUME AInv, NEW l \in Links,
                        strategy # "SPLIT_HORIZON", losses = 0, Stable(l), net[l] = <<>>,
                        \A k \in DOMAIN routes[l[1]] : ~routes[l[1]][k].changed,
                        NEW k \in DOMAIN routes[l[2]], routes[l[2]][k].gateway = l[1]
                 PROVE  \E m \in Heard(l[1], l[2]) : routes[l[2]][k].metric = Offer(m, l)
      BY DEF NeighboursAgree, Stable
    <2>1. ~Marked(routes[l[1]])
      BY DEF Marked
    <2>2. Sees(net[l], routes[l[2]], l, Heard(l[1], l[2]))
      BY <2>1 DEF AInv, LinkOK
    <2>3. Responses(net[l]) = {}
      BY DEF Responses
    <2> QED
      BY <2>2, <2>3 DEF Sees
  <1>2. AInv /\ [Next]_vars => AInv'
    BY NextAInv
  <1> QED
    BY <1>1, <1>2, InitAInv, PTL DEF Spec

=============================================================================
