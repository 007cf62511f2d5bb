--------------------------- MODULE TcpSack_proofs ---------------------------
(***************************************************************************)
(* Proofs about TcpSack, for every segment size, every number of SACK      *)
(* blocks and duplicate ACKs, every stream and every number of losses and  *)
(* timeouts: the SACK list tells the truth, what the sender thinks         *)
(* received the receiver has, and with SACK it takes nothing back.         *)
(*                                                                         *)
(* There is one lemma per method of the buffers.  The receiver's say what  *)
(* a recursive function over its stored packets keeps from each to the     *)
(* next.  The sender's are of two kinds: most methods and handlers only    *)
(* let the sent stream grow (Grows, Evolves), and an ACK may besides sack  *)
(* the bytes of its blocks and drop those before its number (AckTaken).    *)
(* The invariant, Sound, relates the two buffers with what is on the way.  *)
(***************************************************************************)
EXTENDS TcpSack, FiniteSetTheorems, FunctionTheorems, SequenceTheorems,
        WellFoundedInduction, TLAPS

-----------------------------------------------------------------------------
(* Facts about numbers, recursive functions and the buffer of the receiver *)

\* A set of naturals, unless it is empty, has a least element.
LEMMA Least ==
    ASSUME NEW S \in SUBSET Nat, S # {}
    PROVE  \E m \in S : \A n \in S : m <= n
  <1> DEFINE Less == {p \in Nat \X Nat : p[1] < p[2]}
  <1>1. IsWellFoundedOn(Less, Nat)
    BY NatLessThanWellFounded DEF OpToRel
  <1> HIDE DEF Less
  <1>2. PICK m \in S : \A n \in S : ~(<<n, m>> \in Less)
    BY <1>1, WFMin
  <1>3. \A n \in S : ~(n < m)
    BY <1>2 DEF Less
  <1> QED
    BY <1>3

\* Induction: a set of naturals with 0 and with n + 1 for each n holds all.
LEMMA Induct ==
    ASSUME NEW S \in SUBSET Nat, 0 \in S, \A n \in S : n + 1 \in S
    PROVE  S = Nat
  <1> SUFFICES ASSUME Nat \ S # {} PROVE FALSE
    OBVIOUS
  <1>1. PICK m \in Nat \ S : \A n \in Nat \ S : m <= n
    BY Least
  <1>2. m # 0 /\ m - 1 \in Nat
    BY <1>1
  <1>3. m - 1 \in S
    BY <1>1, <1>2
  <1> QED
    BY <1>1, <1>2, <1>3

\* What holds at first and from one value of a function on 0..N to the next holds of all.
LEMMA Along ==
    ASSUME NEW N \in Nat, NEW T, NEW f, f[0] \in T[0],
           \A i \in 1..N : f[i - 1] \in T[i - 1] => f[i] \in T[i]
    PROVE  \A i \in 0..N : f[i] \in T[i]
  <1> DEFINE S == {n \in Nat : n <= N => f[n] \in T[n]}
  <1>1. 0 \in S
    OBVIOUS
  <1>2. ASSUME NEW n \in S PROVE n + 1 \in S
    <2>1. n + 1 <= N => n + 1 \in 1..N /\ (n + 1) - 1 = n
      OBVIOUS
    <2> QED
      BY <2>1
  <1>3. S = Nat
    <2> HIDE DEF S
    <2>1. S \in SUBSET Nat
      BY DEF S
    <2> QED
      BY <1>1, <1>2, <2>1, Induct
  <1> QED
    BY <1>3

\* A first value and steps that take what is of one type to what is of the next.
Typed(start, step, T, N) ==
    /\ start \in T[0]
    /\ \A i \in 1..N : \A x \in T[i - 1] : step[i][x] \in T[i]

\* The function of these steps.
Chain(f, start, step, T, N) ==
    /\ f = [i \in 0..N |-> IF i = 0 THEN start ELSE step[i][f[i - 1]]]
    /\ \A i \in 0..N : f[i] \in T[i]

\* A recursive function on 0..N exists when each of its values is of the type that
\* the next one needs.
LEMMA Recursion ==
    ASSUME NEW N, NEW T, NEW start, NEW step, N \in Nat, Typed(start, step, T, N)
    PROVE  \E f : Chain(f, start, step, T, N)
  <1> DEFINE Upto(f, n) == f = [i \in 0..n |-> IF i = 0 THEN start ELSE step[i][f[i - 1]]]
             S == {n \in Nat : \E f : Upto(f, n)}
  <1>1. 0 \in S
    <2> DEFINE f == [i \in 0..0 |-> start]
    <2>1. Upto(f, 0)
      <3>1. \A i \in 0..0 : i = 0
        OBVIOUS
      <3> QED
        BY <3>1
    <2> QED
      BY <2>1
  <1>2. ASSUME NEW n \in S PROVE n + 1 \in S
    <2>1. PICK f : Upto(f, n)
      OBVIOUS
    <2> DEFINE h == [i \in 0..(n + 1) |-> IF i = n + 1 THEN step[n + 1][f[n]] ELSE f[i]]
    <2>2. n \in Nat /\ n \in 0..n /\ n \in 0..(n + 1) /\ n + 1 \in 0..(n + 1) /\ n + 1 # 0
      OBVIOUS
    <2>3. h[n] = f[n] /\ h[n + 1] = step[n + 1][f[n]]
      BY <2>2
    <2>4. \A i \in 0..n : i \in 0..(n + 1) /\ i # n + 1 /\ h[i] = f[i]
      BY <2>2
    <2>5. ASSUME NEW i \in 0..(n + 1)
          PROVE  h[i] = IF i = 0 THEN start ELSE step[i][h[i - 1]]
      <3> HIDE DEF h
      <3>1. CASE i = n + 1
        <4>1. i - 1 = n
          BY <2>2, <3>1
        <4> QED
          BY <2>2, <2>3, <3>1, <4>1
      <3>2. CASE i = 0
        <4>1. 0 \in 0..n
          BY <2>2
        <4>2. f[0] = start
          BY <2>1, <4>1
        <4> QED
          BY <2>4, <3>2, <4>1, <4>2
      <3>3. CASE i # 0 /\ i # n + 1
        <4>1. i \in 0..n /\ i - 1 \in 0..n
          BY <2>2, <3>3
        <4>2. f[i] = step[i][f[i - 1]]
          BY <2>1, <3>3, <4>1
        <4> QED
          BY <2>4, <3>3, <4>1, <4>2
      <3> QED
        BY <3>1, <3>2, <3>3
    <2>6. h = [i \in 0..(n + 1) |-> h[i]]
      OBVIOUS
    <2> HIDE DEF h
    <2>7. Upto(h, n + 1)
      BY <2>5, <2>6
    <2> QED
      BY <2>2, <2>7
  <1> HIDE DEF S
  <1>3. S \in SUBSET Nat
    BY DEF S
  <1>4. PICK f : Upto(f, N)
    <2>1. N \in S
      BY <1>1, <1>2, <1>3, Induct
    <2> QED
      BY <2>1 DEF S
  <1>5. f[0] = start /\ start \in T[0]
    BY <1>4 DEF Typed
  <1>6. ASSUME NEW i \in 1..N, f[i - 1] \in T[i - 1] PROVE f[i] \in T[i]
    <2>1. i \in 0..N /\ i # 0
      OBVIOUS
    <2>2. f[i] = step[i][f[i - 1]]
      BY <1>4, <2>1
    <2> QED
      BY <1>6, <2>2 DEF Typed
  <1>7. \A i \in 0..N : f[i] \in T[i]
    <2> HIDE DEF Upto
    <2> QED
      BY <1>5, <1>6, Along
  <1> QED
    BY <1>4, <1>7 DEF Chain

-----------------------------------------------------------------------------
(* The buffer of the receiver *)

\* A packet or a SACK block: its first byte and the byte after the last.
Block == {r \in Nat \X Nat : 1 <= r[1] /\ r[1] < r[2]}

\* No byte is in two of them.
Apart(D) == \A d, e \in D : d # e => d[2] <= e[1] \/ e[2] <= d[1]

\* A byte of some ranges is of one of them.
LEMMA BytesFacts ==
    ASSUME NEW R, NEW x
    PROVE  x \in Bytes(R) <=> \E r \in R : x \in r[1]..(r[2] - 1)
  BY DEF Bytes

\* Kept leaves of a list the elements of a set.
LEMMA KeptFacts ==
    ASSUME NEW B, NEW list \in Seq(B), NEW S
    PROVE  Kept(list, S) \in Seq(B \cap S)
  <1> DEFINE N == Len(list)
             start == <<>>
             U == Seq(B \cap S)
             T == [i \in 0..N |-> U]
             Step(i, q) == IF list[i] \in S THEN Append(q, list[i]) ELSE q
             F(g) == [i \in 0..N |-> IF i = 0 THEN start ELSE Step(i, g[i - 1])]
             f == CHOOSE g : g = F(g)
             step == [i \in 1..N |-> [q \in U |-> Step(i, q)]]
  <1>1. N \in Nat /\ \A i \in 1..N : list[i] \in B
    OBVIOUS
  <1>2. Kept(list, S) = f[N]
    BY DEF Kept
  <1>3. ASSUME NEW i \in 1..N, NEW q \in U PROVE Step(i, q) \in U
    BY <1>1
  <1> HIDE DEF N
  <1>4. T \in [0..N -> SUBSET U] /\ \A i \in 0..N : T[i] = U
    OBVIOUS
  <1>5. \A i \in 1..N : i \in 0..N /\ i - 1 \in 0..N /\ i # 0
    BY <1>1
  <1>6. start \in T[0]
    BY <1>1
  <1> HIDE DEF T, U
  <1>7. \A i \in 1..N : \A q \in T[i - 1] : step[i][q] = Step(i, q) /\ Step(i, q) \in T[i]
    BY <1>3, <1>4, <1>5
  <1> HIDE DEF start, Step, step
  <1>8. f = F(f)
    <2>1. PICK g : Chain(g, start, step, T, N)
      <3>1. Typed(start, step, T, N)
        BY <1>6, <1>7 DEF Typed
      <3> QED
        BY <1>1, <3>1, Recursion
    <2>2. g = F(g)
      <3>1. ASSUME NEW i \in 0..N PROVE g[i] = IF i = 0 THEN start ELSE Step(i, g[i - 1])
        <4>1. CASE i # 0
          <5>1. i \in 1..N
            BY <1>1, <4>1
          <5> QED
            BY <1>5, <1>7, <2>1, <5>1 DEF Chain
        <4> QED
          BY <2>1, <4>1 DEF Chain
      <3>2. g = [i \in 0..N |-> g[i]]
        BY <2>1 DEF Chain
      <3> QED
        BY <3>1, <3>2
    <2> HIDE DEF F
    <2> QED
      BY <2>2
  <1> HIDE DEF f
  <1>9. f[0] = start /\ \A i \in 1..N : f[i] = Step(i, f[i - 1])
    <2>1. \A i \in 0..N : f[i] = IF i = 0 THEN start ELSE Step(i, f[i - 1])
      BY <1>8
    <2> QED
      BY <1>1, <1>5, <2>1
  <1>10. \A i \in 0..N : f[i] \in T[i]
    <2>1. \A i \in 1..N : f[i - 1] \in T[i - 1] => f[i] \in T[i]
      BY <1>7, <1>9
    <2> QED
      BY <1>1, <1>6, <1>9, <2>1, Along
  <1> QED
    BY <1>1, <1>2, <1>4, <1>10 DEF U

\* The packets of a finite set can be put in order.
LEMMA Ordered ==
    ASSUME NEW D \in SUBSET Block, IsFiniteSet(D), Apart(D), NEW q, q = InOrder(D),
           NEW n, n = Cardinality(D)
    PROVE  /\ n \in Nat /\ q \in [1..n -> D]
           /\ \A i, j \in 1..n : i < j => q[i][1] < q[j][1]
           /\ \A d \in D : \E i \in 1..n : q[i] = d
  <1> DEFINE Sorted(f, m) == \A i, j \in 1..m : i < j => f[i][1] < f[j][1]
             S == {m \in Nat : \A E \in SUBSET D :
                     Cardinality(E) = m => \E f \in [1..m -> E] : Sorted(f, m)}
  <1>1. n \in Nat /\ \A d \in D : d[1] \in Nat /\ d[2] \in Nat /\ d[1] < d[2]
    BY FS_CardinalityType DEF Block
  <1>2. 0 \in S
    <2>1. ASSUME NEW E \in SUBSET D PROVE \E f \in [1..0 -> E] : Sorted(f, 0)
      <3> DEFINE f == [i \in 1..0 |-> i]
      <3>1. 1..0 = {}
        OBVIOUS
      <3>2. f \in [1..0 -> E]
        BY <3>1
      <3>3. Sorted(f, 0)
        BY <3>1
      <3> QED
        BY <3>2, <3>3
    <2> QED
      BY <2>1
  <1>3. ASSUME NEW m \in S PROVE m + 1 \in S
    <2> SUFFICES ASSUME NEW E \in SUBSET D, Cardinality(E) = m + 1
                 PROVE  \E f \in [1..(m + 1) -> E] : Sorted(f, m + 1)
      OBVIOUS
    <2>1. m \in Nat /\ IsFiniteSet(E)
      BY FS_Subset
    <2>2. E # {}
      BY <2>1, FS_EmptySet
    <2> DEFINE starts == {d[1] : d \in E}
    <2>3. PICK e \in E : \A d \in E : e[1] <= d[1]
      <3>1. starts \in SUBSET Nat /\ starts # {}
        BY <1>1, <2>2
      <3>2. PICK x \in starts : \A y \in starts : x <= y
        <4> HIDE DEF starts
        <4> QED
          BY <3>1, Least
      <3> QED
        BY <3>2
    <2> DEFINE R == E \ {e}
    <2>4. Cardinality(R) = m /\ R \in SUBSET D
      <3>1. Cardinality(R) = Cardinality(E) - 1
        BY <2>1, FS_RemoveElement
      <3>2. (m + 1) - 1 = m
        BY <2>1
      <3> QED
        BY <3>1, <3>2
    <2>5. PICK f \in [1..m -> R] : Sorted(f, m)
      <3> HIDE DEF R, Sorted
      <3> QED
        BY <2>1, <2>4
    <2>6. \A d \in R : e[1] < d[1]
      BY <1>1, <2>3 DEF Apart
    <2> DEFINE h == [i \in 1..(m + 1) |-> IF i = 1 THEN e ELSE f[i - 1]]
    <2>7. \A i \in 1..(m + 1) : i = 1 \/ (i > 1 /\ i - 1 \in 1..m)
      BY <2>1
    <2>8. /\ \A i \in 1..(m + 1) : h[i] \in E
          /\ \A i \in 1..(m + 1) : i > 1 => h[i] = f[i - 1] /\ h[i] \in R
          /\ 1 \in 1..(m + 1) /\ h[1] = e
      BY <2>1, <2>5, <2>7
    <2>9. h \in [1..(m + 1) -> E]
      BY <2>8
    <2>10. Sorted(h, m + 1)
      <3> SUFFICES ASSUME NEW i \in 1..(m + 1), NEW j \in 1..(m + 1), i < j
                   PROVE  h[i][1] < h[j][1]
        OBVIOUS
      <3> HIDE DEF h
      <3>1. j > 1 /\ j - 1 \in 1..m /\ h[j] = f[j - 1] /\ h[j] \in R
        BY <2>1, <2>7, <2>8
      <3>2. CASE i = 1
        <4> HIDE DEF R
        <4> QED
          BY <2>6, <2>8, <3>1, <3>2
      <3>3. CASE i > 1
        <4>1. i - 1 \in 1..m /\ h[i] = f[i - 1] /\ i - 1 < j - 1
          BY <2>1, <2>7, <2>8, <3>3
        <4> QED
          BY <2>5, <3>1, <4>1
      <3> QED
        BY <3>2, <3>3
    <2> HIDE DEF h, Sorted
    <2> QED
      BY <2>9, <2>10
  <1>4. \E f \in [1..n -> D] : Sorted(f, n)
    <2> HIDE DEF S, Sorted
    <2>1. S \in SUBSET Nat
      BY DEF S
    <2>2. n \in S
      BY <1>1, <1>2, <1>3, <2>1, Induct
    <2> QED
      BY <2>2 DEF S
  <1>5. q \in [1..n -> D] /\ Sorted(q, n)
    <2> DEFINE P(f) == \A i, j \in DOMAIN f : i < j => f[i][1] < f[j][1]
    <2>1. q = CHOOSE f \in [1..n -> D] : P(f)
      BY DEF InOrder
    <2>2. \E f \in [1..n -> D] : P(f)
      BY <1>4
    <2>3. q \in [1..n -> D] /\ P(q)
      <3> HIDE DEF P
      <3> QED
        BY <2>1, <2>2
    <2> QED
      BY <2>3
  <1>6. \A d \in D : \E i \in 1..n : q[i] = d
    <2>1. IsFiniteSet(1..n) /\ Cardinality(1..n) = n
      BY <1>1, FS_Interval
    <2>2. \A i, j \in 1..n : q[i] = q[j] => i = j
      <3> SUFFICES ASSUME NEW i \in 1..n, NEW j \in 1..n, q[i] = q[j], i # j PROVE FALSE
        OBVIOUS
      <3>1. q[i] \in D /\ q[j] \in D
        BY <1>5
      <3>2. q[i][1] \in Nat
        BY <1>1, <3>1
      <3>3. i < j \/ j < i
        BY <1>1
      <3> QED
        BY <1>5, <3>2, <3>3
    <2>3. q \in Injection(1..n, D)
      BY <1>5, <2>2, Fun_IsInj
    <2>4. q \in Surjection(1..n, D)
      BY <2>1, <2>3, FS_Injection
    <2> QED
      BY <2>4 DEF Surjection
  <1> QED
    BY <1>1, <1>5, <1>6

\* Ranges of bytes: the first byte and the byte after the last, if there are any.
Acc(D) == [head : Nat, tail : Nat, data : SUBSET D]

\* The range acc has met the first i packets of D in the order q: it overlaps none of
\* those it left, and holds those that it swallowed.
Met(acc, D, q, i) ==
    /\ \A j \in 1..i : q[j] \in acc.data => q[j][2] <= acc.head \/ acc.tail <= q[j][1]
    /\ \A d \in D \ acc.data : /\ \E j \in 1..i : q[j] = d
                              /\ acc.head <= d[1] /\ d[2] <= acc.tail

\* The range after the next packet, one more of those that it has met.
LEMMA TrimmedFacts ==
    ASSUME NEW D \in SUBSET Block, Apart(D), NEW n \in Nat, NEW q \in [1..n -> D],
           \A i, j \in 1..n : i < j => q[i][1] < q[j][1],
           NEW i \in 1..n, NEW acc \in Acc(D), Met(acc, D, q, i - 1)
    PROVE  LET new == Trimmed(acc, q[i])
           IN  /\ new \in Acc(D) /\ Met(new, D, q, i)
               /\ acc.head <= new.head /\ new.tail <= acc.tail
  <1> DEFINE d == q[i]
             new == Trimmed(acc, d)
  <1>1. /\ \A e \in D : e[1] \in Nat /\ e[2] \in Nat /\ e[1] < e[2]
        /\ d \in D /\ acc.head \in Nat /\ acc.tail \in Nat /\ acc.data \in SUBSET D
    BY DEF Block, Acc
  <1>2. /\ \A j \in 1..i : j = i \/ j \in 1..(i - 1)
        /\ \A j \in 1..(i - 1) : j \in 1..n /\ j \in 1..i /\ j < i
    OBVIOUS
  <1>3. \A j \in 1..(i - 1) : q[j][1] < d[1] /\ q[j][2] <= d[1]
    <2> SUFFICES ASSUME NEW j \in 1..(i - 1) PROVE q[j][1] < d[1] /\ q[j][2] <= d[1]
      OBVIOUS
    <2>1. q[j] \in D /\ q[j][1] < d[1]
      BY <1>2
    <2>2. q[j][2] <= d[1] \/ d[2] <= q[j][1]
      BY <1>1, <2>1 DEF Apart
    <2> QED
      BY <1>1, <2>1, <2>2
  <1>4. \A e \in D \ acc.data : /\ \E j \in 1..(i - 1) : q[j] = e
                               /\ acc.head <= e[1] /\ e[2] <= acc.tail
    BY DEF Met
  <1>5. \A e \in D \ acc.data : e[1] < d[1] /\ e[2] <= d[1]
    BY <1>3, <1>4
  <1>6. \A j \in 1..(i - 1) : q[j] \in acc.data => q[j][2] <= acc.head \/ acc.tail <= q[j][1]
    BY DEF Met
  <1>7. CASE d[1] > acc.tail \/ d[2] <= acc.head
    <2>1. new = acc
      BY <1>7 DEF Trimmed
    <2>2. d[2] <= acc.head \/ acc.tail <= d[1]
      BY <1>1, <1>7
    <2>3. Met(acc, D, q, i)
      BY <1>2, <1>4, <1>6, <2>2 DEF Met
    <2> QED
      BY <1>1, <2>1, <2>3
  <1>8. CASE ~ (d[1] > acc.tail \/ d[2] <= acc.head) /\ d[1] > acc.head /\ d[2] < acc.tail
    <2>1. new = [acc EXCEPT !.data = @ \ {d}]
      BY <1>8 DEF Trimmed
    <2>2. new \in Acc(D) /\ new.head = acc.head /\ new.tail = acc.tail /\ new.data = acc.data \ {d}
      BY <1>1, <2>1 DEF Acc
    <2> HIDE DEF new, d
    <2>3. \A j \in 1..i : q[j] \in new.data => q[j][2] <= new.head \/ new.tail <= q[j][1]
      BY <1>2, <1>6, <2>2 DEF d
    <2>4. \A e \in D \ new.data : e = d \/ e \in D \ acc.data
      BY <2>2
    <2>5. i \in 1..i /\ q[i] = d /\ acc.head <= d[1] /\ d[2] <= acc.tail
      BY <1>1, <1>8 DEF d
    <2>6. \A e \in D \ new.data : /\ \E j \in 1..i : q[j] = e
                                 /\ new.head <= e[1] /\ e[2] <= new.tail
      BY <1>2, <1>4, <2>2, <2>4, <2>5
    <2>7. Met(new, D, q, i)
      BY <2>3, <2>6 DEF Met
    <2> QED
      BY <1>1, <2>2, <2>7 DEF new, d
  <1>9. CASE ~ (d[1] > acc.tail \/ d[2] <= acc.head) /\ ~ (d[1] > acc.head /\ d[2] < acc.tail)
    <2> DEFINE head == IF d[1] <= acc.head THEN d[2] ELSE acc.head
               tail == IF d[2] >= acc.tail THEN d[1] ELSE acc.tail
    <2>1. new = [acc EXCEPT !.head = head, !.tail = tail]
      BY <1>9 DEF Trimmed
    <2>2. head \in Nat /\ tail \in Nat /\ acc.head <= head /\ tail <= acc.tail
      BY <1>1, <1>9
    <2>3. d[2] <= head \/ tail <= d[1]
      BY <1>1, <1>9
    <2>4. \A e \in D \ acc.data : head <= e[1] /\ e[2] <= tail
      <3> SUFFICES ASSUME NEW e \in D \ acc.data PROVE head <= e[1] /\ e[2] <= tail
        OBVIOUS
      <3>1. e[1] \in Nat /\ e[2] \in Nat /\ acc.head <= e[1] /\ e[2] <= acc.tail
            /\ e[1] < d[1] /\ e[2] <= d[1]
        BY <1>1, <1>4, <1>5
      <3> QED
        BY <1>1, <3>1
    <2> HIDE DEF head, tail
    <2>5. new \in Acc(D) /\ new.head = head /\ new.tail = tail /\ new.data = acc.data
      BY <1>1, <2>1, <2>2 DEF Acc
    <2> HIDE DEF new, d
    <2>6. \A j \in 1..i : q[j] \in new.data => q[j][2] <= new.head \/ new.tail <= q[j][1]
      <3> SUFFICES ASSUME NEW j \in 1..i, q[j] \in new.data
                   PROVE  q[j][2] <= new.head \/ new.tail <= q[j][1]
        OBVIOUS
      <3>1. CASE j = i
        BY <2>3, <2>5, <3>1 DEF d
      <3>2. CASE j \in 1..(i - 1)
        <4>1. q[j] \in D /\ (q[j][2] <= acc.head \/ acc.tail <= q[j][1])
          BY <1>2, <1>6, <2>5, <3>2
        <4>2. q[j][1] \in Nat /\ q[j][2] \in Nat
          BY <1>1, <4>1
        <4> QED
          BY <1>1, <2>2, <2>5, <4>1, <4>2, SMTT(40)
      <3> QED
        BY <1>2, <3>1, <3>2
    <2>7. \A e \in D \ new.data : /\ \E j \in 1..i : q[j] = e
                                 /\ new.head <= e[1] /\ e[2] <= new.tail
      BY <1>2, <1>4, <2>4, <2>5
    <2>8. Met(new, D, q, i)
      BY <2>6, <2>7 DEF Met
    <2> QED
      BY <2>2, <2>5, <2>8 DEF new, d
  <1> QED
    BY <1>7, <1>8, <1>9

\* What of a range is stored overlaps no packet, and holds those that are removed.
LEMMA TrimmedByAllFacts ==
    ASSUME NEW D \in SUBSET Block, IsFiniteSet(D), Apart(D),
           NEW acc \in Acc(D), acc.data = D
    PROVE  LET kept == TrimmedByAll(acc, D)
           IN  /\ kept \in Acc(D) /\ acc.head <= kept.head /\ kept.tail <= acc.tail
               /\ \A d \in kept.data : d[2] <= kept.head \/ kept.tail <= d[1]
               /\ \A d \in D \ kept.data : kept.head <= d[1] /\ d[2] <= kept.tail
  <1> DEFINE q == InOrder(D)
             N == Cardinality(D)
             Good(i) == {x \in Acc(D) : Met(x, D, q, i) /\ acc.head <= x.head /\ x.tail <= acc.tail}
             T == [i \in 0..N |-> Good(i)]
             F(g) == [i \in 0..N |-> IF i = 0 THEN acc ELSE Trimmed(g[i - 1], q[i])]
             f == CHOOSE g : g = F(g)
             step == [i \in 1..N |-> [x \in Good(i - 1) |-> Trimmed(x, q[i])]]
  <1>1. /\ N \in Nat /\ q \in [1..N -> D]
        /\ \A i, j \in 1..N : i < j => q[i][1] < q[j][1]
        /\ \A d \in D : \E i \in 1..N : q[i] = d
    <2> HIDE DEF q, N
    <2>1. q = InOrder(D) /\ N = Cardinality(D)
      BY DEF q, N
    <2> QED
      BY <2>1, Ordered
  <1>2. TrimmedByAll(acc, D) = f[N]
    BY DEF TrimmedByAll
  <1> HIDE DEF N, q
  <1>3. ASSUME NEW i \in 1..N, NEW x \in Good(i - 1) PROVE Trimmed(x, q[i]) \in Good(i)
    <2> DEFINE y == Trimmed(x, q[i])
    <2>1. y \in Acc(D) /\ Met(y, D, q, i) /\ x.head <= y.head /\ y.tail <= x.tail
      BY <1>1, TrimmedFacts
    <2>2. x.head \in Nat /\ x.tail \in Nat /\ y.head \in Nat /\ y.tail \in Nat
          /\ acc.head \in Nat /\ acc.tail \in Nat
      BY <2>1 DEF Acc
    <2> HIDE DEF y
    <2> QED
      BY <2>1, <2>2 DEF y
  <1>4. acc \in Good(0)
    <2>1. 1..0 = {} /\ D \ acc.data = {}
      OBVIOUS
    <2>2. Met(acc, D, q, 0)
      BY <2>1 DEF Met
    <2> QED
      BY <2>2 DEF Acc
  <1> HIDE DEF Good
  <1>5. /\ \A i \in 0..N : T[i] = Good(i)
        /\ \A i \in 1..N : i \in 0..N /\ i - 1 \in 0..N /\ i # 0
        /\ 0 \in 0..N /\ N \in 0..N
    BY <1>1
  <1> HIDE DEF T
  <1>6. \A i \in 1..N : \A x \in T[i - 1] : step[i][x] = Trimmed(x, q[i]) /\ Trimmed(x, q[i]) \in T[i]
    BY <1>3, <1>5
  <1> HIDE DEF step
  <1>7. f = F(f)
    <2>1. PICK g : Chain(g, acc, step, T, N)
      <3>1. Typed(acc, step, T, N)
        BY <1>4, <1>5, <1>6 DEF Typed
      <3> QED
        BY <1>1, <3>1, Recursion
    <2>2. g = F(g)
      <3>1. ASSUME NEW i \in 0..N PROVE g[i] = IF i = 0 THEN acc ELSE Trimmed(g[i - 1], q[i])
        <4>1. CASE i # 0
          <5>1. i \in 1..N
            BY <1>1, <4>1
          <5> QED
            BY <1>5, <1>6, <2>1, <5>1 DEF Chain
        <4> QED
          BY <2>1, <4>1 DEF Chain
      <3>2. g = [i \in 0..N |-> g[i]]
        BY <2>1 DEF Chain
      <3> QED
        BY <3>1, <3>2
    <2> HIDE DEF F
    <2> QED
      BY <2>2
  <1> HIDE DEF f
  <1>8. f[0] = acc /\ \A i \in 1..N : f[i] = Trimmed(f[i - 1], q[i])
    <2>1. \A i \in 0..N : f[i] = IF i = 0 THEN acc ELSE Trimmed(f[i - 1], q[i])
      BY <1>7
    <2> QED
      BY <1>5, <2>1
  <1>9. \A i \in 0..N : f[i] \in T[i]
    <2>1. \A i \in 1..N : f[i - 1] \in T[i - 1] => f[i] \in T[i]
      BY <1>6, <1>8
    <2>2. f[0] \in T[0]
      BY <1>4, <1>5, <1>8
    <2> QED
      BY <1>1, <2>1, <2>2, Along
  <1> DEFINE kept == f[N]
  <1>10. kept \in Acc(D) /\ Met(kept, D, q, N) /\ acc.head <= kept.head /\ kept.tail <= acc.tail
    BY <1>5, <1>9 DEF Good
  <1> HIDE DEF kept
  <1>11. \A d \in kept.data : d \in D
    BY <1>10 DEF Acc
  <1>12. kept = TrimmedByAll(acc, D)
    BY <1>2 DEF kept
  <1> QED
    BY <1>1, <1>10, <1>11, <1>12 DEF Met

\* The next byte is the old one or one that ends a packet, and no packet begins there.
LEMMA NextMissingFacts ==
    ASSUME NEW D \in SUBSET Block, IsFiniteSet(D), Apart(D),
           NEW next \in Nat
    PROVE  LET new == NextMissing(next, D)
           IN  /\ new \in Nat /\ next <= new
               /\ new = next \/ \E d \in D : new = d[2]
               /\ \A d \in D : d[1] # new
  <1> DEFINE q == InOrder(D)
             N == Cardinality(D)
             Ends(i, x) == x = next \/ \E j \in 1..i : x = q[j][2]
             Good(i) == {x \in Nat : /\ next <= x /\ Ends(i, x)
                                     /\ \A j \in 1..i : q[j][1] # x}
             T == [i \in 0..N |-> Good(i)]
             Step(i, x) == IF q[i][1] = x THEN q[i][2] ELSE x
             F(g) == [i \in 0..N |-> IF i = 0 THEN next ELSE Step(i, g[i - 1])]
             f == CHOOSE g : g = F(g)
             step == [i \in 1..N |-> [x \in Good(i - 1) |-> Step(i, x)]]
  <1>1. /\ N \in Nat /\ q \in [1..N -> D]
        /\ \A i, j \in 1..N : i < j => q[i][1] < q[j][1]
        /\ \A d \in D : \E i \in 1..N : q[i] = d
    <2> HIDE DEF q, N
    <2>1. q = InOrder(D) /\ N = Cardinality(D)
      BY DEF q, N
    <2> QED
      BY <2>1, Ordered
  <1>2. NextMissing(next, D) = f[N]
    BY DEF NextMissing
  <1> HIDE DEF N, q
  <1>3. \A i \in 1..N : q[i][1] \in Nat /\ q[i][2] \in Nat /\ q[i][1] < q[i][2]
    BY <1>1 DEF Block
  <1>4. ASSUME NEW i \in 1..N, NEW x \in Good(i - 1) PROVE Step(i, x) \in Good(i)
    <2>1. \A j \in 1..i : j = i \/ j \in 1..(i - 1)
      OBVIOUS
    <2>2. \A j \in 1..(i - 1) : j \in 1..i /\ j \in 1..N /\ j < i
      BY <1>1
    <2>3. i \in 1..i
      OBVIOUS
    <2>4. CASE q[i][1] = x
      <3>1. \A j \in 1..(i - 1) : q[j][1] # q[i][2]
        <4> SUFFICES ASSUME NEW j \in 1..(i - 1) PROVE q[j][1] < q[i][2]
          BY <1>3, <2>2
        <4>1. q[j][1] < q[i][1] /\ q[j][1] \in Nat
          BY <1>1, <1>3, <2>2
        <4> QED
          BY <1>3, <4>1
      <3>2. \A j \in 1..i : q[j][1] # q[i][2]
        BY <1>3, <2>1, <3>1
      <3>3. q[i][2] \in Nat /\ next <= q[i][2]
        BY <1>3, <2>4
      <3>4. Ends(i, q[i][2])
        BY <2>3
      <3>5. Step(i, x) = q[i][2]
        BY <2>4
      <3> QED
        BY <3>2, <3>3, <3>4, <3>5
    <2>5. CASE q[i][1] # x
      <3>1. Step(i, x) = x
        BY <2>5
      <3>2. Ends(i, x)
        BY <2>2
      <3>3. \A j \in 1..i : q[j][1] # x
        BY <2>1, <2>5
      <3> QED
        BY <3>1, <3>2, <3>3
    <2> QED
      BY <2>4, <2>5
  <1>5. next \in Good(0)
    BY DEF Good
  <1> HIDE DEF Good, Step
  <1>6. /\ \A i \in 0..N : T[i] = Good(i)
        /\ \A i \in 1..N : i \in 0..N /\ i - 1 \in 0..N /\ i # 0
        /\ 0 \in 0..N /\ N \in 0..N
    BY <1>1
  <1> HIDE DEF T
  <1>7. \A i \in 1..N : \A x \in T[i - 1] : step[i][x] = Step(i, x) /\ Step(i, x) \in T[i]
    BY <1>4, <1>6
  <1> HIDE DEF step
  <1>8. f = F(f)
    <2>1. PICK g : Chain(g, next, step, T, N)
      <3>1. Typed(next, step, T, N)
        BY <1>5, <1>6, <1>7 DEF Typed
      <3> QED
        BY <1>1, <3>1, Recursion
    <2>2. g = F(g)
      <3>1. ASSUME NEW i \in 0..N PROVE g[i] = IF i = 0 THEN next ELSE Step(i, g[i - 1])
        <4>1. CASE i # 0
          <5>1. i \in 1..N
            BY <1>1, <4>1
          <5> QED
            BY <1>6, <1>7, <2>1, <5>1 DEF Chain
        <4> QED
          BY <2>1, <4>1 DEF Chain
      <3>2. g = [i \in 0..N |-> g[i]]
        BY <2>1 DEF Chain
      <3> QED
        BY <3>1, <3>2
    <2> HIDE DEF F
    <2> QED
      BY <2>2
  <1> HIDE DEF f
  <1>9. f[0] = next /\ \A i \in 1..N : f[i] = Step(i, f[i - 1])
    <2>1. \A i \in 0..N : f[i] = IF i = 0 THEN next ELSE Step(i, f[i - 1])
      BY <1>8
    <2> QED
      BY <1>6, <2>1
  <1>10. \A i \in 0..N : f[i] \in T[i]
    <2>1. \A i \in 1..N : f[i - 1] \in T[i - 1] => f[i] \in T[i]
      BY <1>7, <1>9
    <2>2. f[0] \in T[0]
      BY <1>5, <1>6, <1>9
    <2> QED
      BY <1>1, <2>1, <2>2, Along
  <1> DEFINE new == f[N]
  <1>11. new \in Good(N)
    BY <1>6, <1>10
  <1> HIDE DEF new
  <1>12. /\ new \in Nat /\ next <= new /\ (new = next \/ \E j \in 1..N : new = q[j][2])
         /\ \A j \in 1..N : q[j][1] # new
    BY <1>11 DEF Good
  <1>13. new = NextMissing(next, D)
    BY <1>2 DEF new
  <1> QED
    BY <1>1, <1>12, <1>13

\* The blocks of which every byte is in a packet of D.
Within(D) == {b \in Block : Bytes({b}) \subseteq Bytes(D)}

\* The least element of a set of naturals.
LEMMA MinFacts ==
    ASSUME NEW S \in SUBSET Nat, S # {}
    PROVE  Min(S) \in S
  <1>1. \E m \in S : \A n \in S : m <= n
    BY Least
  <1> QED
    BY <1>1 DEF Min

\* A block that is merged with others stays within the packets.
LEMMA UpdateSackListFacts ==
    ASSUME NEW D, NEW list \in Seq(Within(D)), NEW head, NEW tail,
           <<head, tail>> \in Within(D)
    PROVE  UpdateSackList(list, head, tail) \in Seq(Within(D))
  <1> DEFINE left == {k \in DOMAIN list : list[k][2] = head}
             right == {k \in DOMAIN list : list[k][1] = tail}
             apart == {block \in ToSet(list) : block[2] # head /\ block[1] # tail}
             from == IF left = {} THEN head ELSE list[Min(left)][1]
             to == IF right = {} THEN tail ELSE list[Min(right)][2]
             merged == <<from, to>>
             kept == Kept(list, apart)
             all == <<merged>> \o kept
             n == Min({Len(all), MaxSackBlocks})
  <1>1. UpdateSackList(list, head, tail) = SubSeq(all, 1, n)
    BY DEF UpdateSackList
  <1>2. DOMAIN list \in SUBSET Nat /\ \A k \in DOMAIN list : list[k] \in Within(D)
    OBVIOUS
  <1>3. kept \in Seq(Within(D))
    <2> HIDE DEF apart
    <2>1. kept \in Seq(Within(D) \cap apart)
      BY KeptFacts
    <2> HIDE DEF kept
    <2> QED
      BY <2>1
  <1>4. head \in Nat /\ tail \in Nat /\ 1 <= head /\ head < tail
        /\ \A y \in head..(tail - 1) : y \in Bytes(D)
    BY BytesFacts DEF Within, Block
  <1>5. from \in Nat /\ 1 <= from /\ from <= head /\ \A y \in from..(head - 1) : y \in Bytes(D)
    <2>1. CASE left = {}
      BY <1>4, <2>1
    <2>2. CASE left # {}
      <3> DEFINE b == list[Min(left)]
      <3>1. Min(left) \in left
        <4> HIDE DEF left
        <4>1. left \in SUBSET Nat
          BY <1>2 DEF left
        <4> QED
          BY <2>2, <4>1, MinFacts
      <3>2. b \in Within(D) /\ b[2] = head /\ from = b[1]
        BY <1>2, <2>2, <3>1
      <3> HIDE DEF b, from
      <3> QED
        BY <1>4, <3>2, BytesFacts DEF Within, Block
    <2> QED
      BY <2>1, <2>2
  <1>6. to \in Nat /\ tail <= to /\ \A y \in tail..(to - 1) : y \in Bytes(D)
    <2>1. CASE right = {}
      BY <1>4, <2>1
    <2>2. CASE right # {}
      <3> DEFINE b == list[Min(right)]
      <3>1. Min(right) \in right
        <4> HIDE DEF right
        <4>1. right \in SUBSET Nat
          BY <1>2 DEF right
        <4> QED
          BY <2>2, <4>1, MinFacts
      <3>2. b \in Within(D) /\ b[1] = tail /\ to = b[2]
        BY <1>2, <2>2, <3>1
      <3> HIDE DEF b, to
      <3> QED
        BY <1>4, <3>2, BytesFacts DEF Within, Block
    <2> QED
      BY <2>1, <2>2
  <1> HIDE DEF from, to, kept
  <1>7. merged \in Within(D)
    <2>1. merged \in Block
      BY <1>4, <1>5, <1>6 DEF Block
    <2>2. \A y \in from..(to - 1) : y \in from..(head - 1) \/ y \in head..(tail - 1) \/ y \in tail..(to - 1)
      BY <1>4, <1>5, <1>6
    <2>3. Bytes({merged}) \subseteq Bytes(D)
      BY <1>4, <1>5, <1>6, <2>2, BytesFacts
    <2> QED
      BY <2>1, <2>3 DEF Within
  <1> HIDE DEF merged
  <1>8. all \in Seq(Within(D))
    BY <1>3, <1>7
  <1> HIDE DEF all
  <1>9. Len(all) \in Nat /\ n \in Nat /\ n <= Len(all)
    <2> DEFINE S == {Len(all), MaxSackBlocks}
    <2>1. S \in SUBSET Nat /\ S # {} /\ Len(all) \in S
      BY <1>8, RxAssumption
    <2>2. PICK m \in S : \A x \in S : m <= x
      <3> HIDE DEF S
      <3> QED
        BY <2>1, Least
    <2>3. n \in S /\ \A x \in S : n <= x
      <3> HIDE DEF S
      <3> QED
        BY <2>2 DEF Min, S
    <2> QED
      BY <2>1, <2>3
  <1> HIDE DEF n
  <1>10. \A i \in 1..n : all[i] \in Within(D)
    BY <1>8, <1>9
  <1>11. SubSeq(all, 1, n) \in Seq(Within(D))
    BY <1>9, <1>10, SubSeqProperties
  <1> QED
    BY <1>1, <1>11

\* A receive buffer: packets apart from each other beyond a gap, and SACK blocks of them.
RxBuffer == [next : Nat \ {0}, data : SUBSET Block, sack : Seq(Block)]

\* The packets beyond the gap are disjoint, and the SACK blocks are of them.
RxGood(r) ==
    /\ r \in RxBuffer
    /\ IsFiniteSet(r.data) /\ Apart(r.data)
    /\ \A d \in r.data : d[1] > r.next
    /\ r.sack \in Seq(Within(r.data))

\* The bytes that it has, and a byte after all of them.
Held(r) == 1..(r.next - 1) \cup Bytes(r.data)
UpTo(r, last) == r.next <= last /\ \A d \in r.data : d[2] <= last

\* The SACK blocks that end after the next byte are of packets that begin after it.
LEMMA ClearSackListFacts ==
    ASSUME NEW D \in SUBSET Block, NEW next \in Nat,
           \A d \in D : d[1] > next \/ d[2] <= next,
           NEW list \in Seq(Within(D))
    PROVE  ClearSackList(list, next) \in Seq(Within({d \in D : d[1] > next}))
  <1> DEFINE S == {block \in ToSet(list) : block[2] > next}
             E == {d \in D : d[1] > next}
  <1>1. Within(D) \cap S \subseteq Within(E)
    <2> SUFFICES ASSUME NEW b \in Within(D), b[2] > next PROVE b \in Within(E)
      OBVIOUS
    <2>1. b \in Block /\ b[1] \in Nat /\ b[2] \in Nat /\ b[1] < b[2]
      BY DEF Within, Block
    <2>2. \A y \in b[1]..(b[2] - 1) : \E d \in D : y \in d[1]..(d[2] - 1)
      BY BytesFacts DEF Within
    <2>3. \A d \in D : d[1] \in Nat /\ d[2] \in Nat
      BY DEF Block
    <2>4. b[1] > next
      <3> SUFFICES ASSUME b[1] <= next PROVE FALSE
        BY <2>1
      <3>1. next \in b[1]..(b[2] - 1)
        BY <2>1
      <3>2. PICK d \in D : next \in d[1]..(d[2] - 1)
        BY <2>2, <3>1
      <3> QED
        BY <2>3, <3>2
    <2>5. \A y \in b[1]..(b[2] - 1) : \E d \in E : y \in d[1]..(d[2] - 1)
      <3> SUFFICES ASSUME NEW y \in b[1]..(b[2] - 1) PROVE \E d \in E : y \in d[1]..(d[2] - 1)
        OBVIOUS
      <3>1. PICK d \in D : y \in d[1]..(d[2] - 1)
        BY <2>2
      <3>2. d[1] > next
        BY <2>1, <2>3, <2>4, <3>1
      <3> QED
        BY <3>1, <3>2
    <2> HIDE DEF E
    <2> QED
      BY <2>1, <2>5, BytesFacts DEF Within
  <1> HIDE DEF S, E
  <1>2. ClearSackList(list, next) = Kept(list, S)
    BY DEF ClearSackList, S
  <1>3. Kept(list, S) \in Seq(Within(D) \cap S)
    BY KeptFacts
  <1>4. Kept(list, S) \in Seq(Within(E))
    BY <1>1, <1>3, SeqMonotonic
  <1> QED
    BY <1>2, <1>4 DEF E

\* A good buffer stays one when a packet is stored, and forgets nothing.
LEMMA StoreFacts ==
    ASSUME NEW r, RxGood(r), NEW p \in Block
    PROVE  LET new == Store(r, p)
           IN  /\ RxGood(new) /\ r.next <= new.next
               /\ Held(r) \subseteq Held(new)
               /\ \A last \in Nat : UpTo(r, last) /\ p[2] <= last => UpTo(new, last)
  <1> DEFINE high == Max({p[1], r.next})
             acc == [head |-> high, tail |-> p[2], data |-> r.data]
             kept == TrimmedByAll(acc, r.data)
             head == kept.head
             tail == kept.tail
             D == kept.data \cup {<<head, tail>>}
             sack == IF head > r.next THEN UpdateSackList(r.sack, head, tail) ELSE r.sack
             next == NextMissing(r.next, D)
             E == {d \in D : d[1] > next}
             list == IF next > r.next THEN ClearSackList(sack, next) ELSE sack
             new == Store(r, p)
  <1>1. /\ r.next \in Nat /\ 1 <= r.next /\ r.data \in SUBSET Block /\ IsFiniteSet(r.data)
        /\ Apart(r.data) /\ \A d \in r.data : d[1] > r.next
        /\ r.sack \in Seq(Within(r.data))
        /\ p[1] \in Nat /\ p[2] \in Nat
    BY DEF RxGood, RxBuffer, Block
  <1>2. high \in Nat /\ r.next <= high
    <2> HIDE DEF high
    <2>1. high = CHOOSE x \in {p[1], r.next} : \A y \in {p[1], r.next} : x >= y
      BY DEF Max, high
    <2>2. \E x \in {p[1], r.next} : \A y \in {p[1], r.next} : x >= y
      BY <1>1
    <2> QED
      BY <1>1, <2>1, <2>2
  <1> HIDE DEF high
  <1>3. /\ kept \in Acc(r.data) /\ high <= head /\ tail <= p[2]
        /\ \A d \in kept.data : d[2] <= head \/ tail <= d[1]
        /\ \A d \in r.data \ kept.data : head <= d[1] /\ d[2] <= tail
    <2>1. acc \in Acc(r.data) /\ acc.data = r.data /\ acc.head = high /\ acc.tail = p[2]
      BY <1>1, <1>2 DEF Acc
    <2> HIDE DEF acc
    <2> QED
      BY <1>1, <2>1, TrimmedByAllFacts
  <1>4. new = IF head >= tail THEN [r EXCEPT !.data = kept.data]
              ELSE [next |-> next, data |-> E, sack |-> list]
    BY DEF Store, high
  <1> HIDE DEF kept
  <1>5. /\ head \in Nat /\ tail \in Nat /\ r.next <= head /\ kept.data \in SUBSET r.data
        /\ \A d \in r.data : d[1] \in Nat /\ d[2] \in Nat /\ d[1] < d[2]
    BY <1>1, <1>2, <1>3 DEF Acc, Block
  <1> HIDE DEF head, tail
  <1>6. CASE head >= tail
    <2>1. \A d \in r.data : d \in kept.data
      BY <1>3, <1>5, <1>6
    <2>2. kept.data = r.data
      BY <1>5, <2>1
    <2>3. new = r
      BY <1>4, <1>6, <2>2 DEF RxGood, RxBuffer
    <2> QED
      BY <1>1, <2>3
  <1>7. CASE head < tail
    <2> HIDE DEF new, next
    <2>1. new.next = next /\ new.data = E /\ new.sack = list
      BY <1>4, <1>5, <1>7
    <2>2. D \in SUBSET Block /\ IsFiniteSet(D)
      <3>1. <<head, tail>> \in Block
        BY <1>1, <1>5, <1>7 DEF Block
      <3>2. IsFiniteSet(kept.data)
        BY <1>1, <1>5, FS_Subset
      <3> QED
        BY <1>1, <1>5, <3>1, <3>2, FS_AddElement
    <2>3. Apart(D)
      <3> SUFFICES ASSUME NEW d \in D, NEW e \in D, d # e PROVE d[2] <= e[1] \/ e[2] <= d[1]
        BY DEF Apart
      <3>1. CASE d \in kept.data /\ e \in kept.data
        BY <1>1, <1>5, <3>1 DEF Apart
      <3>2. CASE d = <<head, tail>> /\ e \in kept.data
        BY <1>3, <3>2
      <3>3. CASE e = <<head, tail>> /\ d \in kept.data
        BY <1>3, <3>3
      <3> QED
        BY <3>1, <3>2, <3>3
    <2>4. \A d \in D : r.next <= d[1]
      BY <1>1, <1>5
    <2>5. /\ next \in Nat /\ r.next <= next
          /\ next = r.next \/ \E d \in D : next = d[2]
          /\ \A d \in D : d[1] # next
      BY <1>1, <2>2, <2>3, NextMissingFacts DEF next
    <2>6. \A d \in D : d[1] \in Nat /\ d[2] \in Nat /\ d[1] < d[2]
      BY <2>2 DEF Block
    <2>7. \A d \in r.data : d \in D \/ (head <= d[1] /\ d[2] <= tail)
      BY <1>3
    <2>8. <<head, tail>> \in D
      OBVIOUS
    <2>9. \A last \in Nat : UpTo(r, last) /\ p[2] <= last => \A d \in D : d[2] <= last
      BY <1>1, <1>3, <1>5 DEF UpTo
    <2> HIDE DEF D
    <2>10. \A d \in D : d[1] > next \/ d[2] <= next
      <3> SUFFICES ASSUME NEW d \in D, d[1] < next PROVE d[2] <= next
        BY <2>5, <2>6
      <3>1. PICK e \in D : next = e[2]
        BY <1>1, <2>4, <2>5, <2>6
      <3>2. d = e \/ d[2] <= e[1] \/ e[2] <= d[1]
        BY <2>3 DEF Apart
      <3> QED
        BY <2>6, <3>1, <3>2
    <2>11. Bytes(r.data) \subseteq Bytes(D)
      <3> SUFFICES ASSUME NEW d \in r.data, NEW y \in d[1]..(d[2] - 1) PROVE y \in Bytes(D)
        BY BytesFacts
      <3>1. CASE d \in D
        BY <3>1, BytesFacts
      <3>2. CASE head <= d[1] /\ d[2] <= tail
        <4>1. y \in head..(tail - 1)
          BY <1>5, <3>2
        <4>2. <<head, tail>>[1] = head /\ <<head, tail>>[2] = tail
          OBVIOUS
        <4> QED
          BY <2>8, <4>1, <4>2, BytesFacts
      <3> QED
        BY <2>7, <3>1, <3>2
    <2>12. sack \in Seq(Within(D))
      <3>1. Within(r.data) \subseteq Within(D)
        BY <2>11 DEF Within
      <3>2. r.sack \in Seq(Within(D))
        BY <1>1, <3>1, SeqMonotonic
      <3>3. <<head, tail>> \in Within(D)
        <4>1. <<head, tail>> \in Block /\ <<head, tail>>[1] = head /\ <<head, tail>>[2] = tail
          BY <2>2, <2>8
        <4> QED
          BY <2>8, <4>1, BytesFacts DEF Within
      <3> QED
        BY <3>2, <3>3, UpdateSackListFacts
    <2> HIDE DEF sack
    <2>13. list \in Seq(Within(E))
      <3>1. CASE next > r.next
        BY <2>2, <2>5, <2>10, <2>12, <3>1, ClearSackListFacts
      <3>2. CASE ~ next > r.next
        <4>1. next = r.next
          BY <1>1, <2>5, <3>2
        <4>2. \A d \in D : d \in E
          BY <2>4, <2>5, <2>6, <4>1
        <4>3. E = D
          BY <4>2
        <4> QED
          BY <2>12, <3>2, <4>3
      <3> QED
        BY <3>1, <3>2
    <2> HIDE DEF list
    <2>14. RxGood(new)
      <3>1. E \in SUBSET D
        OBVIOUS
      <3>2. E \in SUBSET Block /\ IsFiniteSet(E) /\ Apart(E)
        <4> HIDE DEF E
        <4> QED
          BY <2>2, <2>3, <3>1, FS_Subset DEF Apart
      <3>3. list \in Seq(Block)
        <4>1. Within(E) \subseteq Block
          BY DEF Within
        <4> QED
          BY <2>13, <4>1, SeqMonotonic
      <3>4. next \in Nat \ {0} /\ \A d \in E : d[1] > next
        BY <1>1, <2>5
      <3>5. new = [next |-> next, data |-> E, sack |-> list]
        BY <1>4, <1>5, <1>7
      <3> HIDE DEF E
      <3>6. new \in RxBuffer
        BY <3>2, <3>3, <3>4, <3>5 DEF RxBuffer
      <3> QED
        BY <2>1, <2>13, <3>2, <3>4, <3>6 DEF RxGood
    <2>15. Held(r) \subseteq Held(new)
      <3>1. ASSUME NEW y \in 1..(r.next - 1) PROVE y \in 1..(next - 1)
        BY <1>1, <2>5
      <3>2. ASSUME NEW y \in Bytes(D) PROVE y \in 1..(next - 1) \/ y \in Bytes(E)
        <4>1. PICK d \in D : y \in d[1]..(d[2] - 1)
          BY BytesFacts
        <4>2. CASE d[1] > next
          <5>1. d \in E
            BY <4>2
          <5> HIDE DEF E
          <5> QED
            BY <4>1, <5>1, BytesFacts
        <4>3. CASE d[2] <= next
          BY <1>1, <2>4, <2>5, <2>6, <4>1, <4>3
        <4> QED
          BY <2>10, <4>2, <4>3
      <3> QED
        BY <2>1, <2>11, <3>1, <3>2 DEF Held
    <2>16. \A last \in Nat : UpTo(r, last) /\ p[2] <= last => UpTo(new, last)
      BY <2>1, <2>5, <2>9 DEF UpTo
    <2> QED
      BY <2>1, <2>5, <2>14, <2>15, <2>16 DEF new
  <1> QED
    BY <1>5, <1>6, <1>7

-----------------------------------------------------------------------------
(* The buffer of the sender: the items are a row, each begins where the one  *)
(* before it ends.                                                           *)

\* An item of the sent list.
TxItem == [startSeq : Nat, size : Nat \ {0}, sacked : BOOLEAN, lost : BOOLEAN,
           retrans : BOOLEAN]

\* The byte after an item.
Stop(e) == e.startSeq + e.size

\* Items that follow each other, from byte first on.
Row(q, first) ==
    /\ q \in Seq(TxItem)
    /\ \A i \in 1..Len(q) : q[i].startSeq = IF i = 1 THEN first ELSE Stop(q[i - 1])

\* The byte after all that was sent.
EndOf(q, first) == IF q = <<>> THEN first ELSE Stop(q[Len(q)])

\* The bytes of the items that are sacked.
SackedIn(q) == {x \in Nat : \E i \in 1..Len(q) : q[i].sacked /\ q[i].startSeq <= x /\ x < Stop(q[i])}

\* In a row each item begins where the one before ends, the first at the beginning.
LEMMA RowFacts ==
    ASSUME NEW first \in Nat, NEW q, Row(q, first)
    PROVE  /\ Len(q) \in Nat /\ DOMAIN q = 1..Len(q)
           /\ EndOf(q, first) \in Nat /\ first <= EndOf(q, first)
           /\ \A i \in 1..Len(q) :
                 /\ q[i] \in TxItem /\ q[i].startSeq \in Nat /\ q[i].size \in Nat \ {0}
                 /\ Stop(q[i]) \in Nat /\ q[i].startSeq < Stop(q[i])
                 /\ first <= q[i].startSeq /\ Stop(q[i]) <= EndOf(q, first)
                 /\ i < Len(q) => q[i + 1].startSeq = Stop(q[i])
           /\ \A i, j \in 1..Len(q) : i < j => Stop(q[i]) <= q[j].startSeq
  <1> DEFINE N == Len(q)
  <1>1. N \in Nat /\ DOMAIN q = 1..N
    BY DEF Row
  <1>2. \A i \in 1..N : /\ q[i] \in TxItem /\ q[i].startSeq \in Nat /\ q[i].size \in Nat \ {0}
                       /\ Stop(q[i]) \in Nat /\ q[i].startSeq < Stop(q[i])
    <2> SUFFICES ASSUME NEW i \in 1..N
                 PROVE  /\ q[i] \in TxItem /\ q[i].startSeq \in Nat /\ q[i].size \in Nat \ {0}
                        /\ Stop(q[i]) \in Nat /\ q[i].startSeq < Stop(q[i])
      OBVIOUS
    <2>1. q[i] \in TxItem
      BY DEF Row
    <2>2. q[i].startSeq \in Nat /\ q[i].size \in Nat /\ q[i].size # 0
      BY <2>1 DEF TxItem
    <2> QED
      BY <2>1, <2>2 DEF Stop
  <1> HIDE DEF N
  <1>3. \A i \in 1..N : q[i].startSeq = IF i = 1 THEN first ELSE Stop(q[i - 1])
    BY DEF Row, N
  <1>4. \A i \in 1..N : i < N => i + 1 \in 1..N /\ q[i + 1].startSeq = Stop(q[i])
    <2> SUFFICES ASSUME NEW i \in 1..N, i < N
                 PROVE  i + 1 \in 1..N /\ q[i + 1].startSeq = Stop(q[i])
      OBVIOUS
    <2>1. i + 1 \in 1..N /\ i + 1 # 1 /\ (i + 1) - 1 = i
      BY <1>1
    <2> QED
      BY <1>3, <2>1
  <1> DEFINE S == {j \in Nat : j \in 1..N => /\ first <= q[j].startSeq
                                            /\ \A i \in 1..(j - 1) : Stop(q[i]) <= q[j].startSeq}
  <1>5. 0 \in S
    OBVIOUS
  <1>6. ASSUME NEW j \in S PROVE j + 1 \in S
    <2> SUFFICES ASSUME j + 1 \in 1..N
                 PROVE  /\ first <= q[j + 1].startSeq
                        /\ \A i \in 1..((j + 1) - 1) : Stop(q[i]) <= q[j + 1].startSeq
      OBVIOUS
    <2>1. j \in Nat /\ (j + 1) - 1 = j
      OBVIOUS
    <2>2. CASE j = 0
      BY <1>3, <2>1, <2>2
    <2>3. CASE j # 0
      <3>1. j \in 1..N /\ j < N
        BY <1>1, <2>1, <2>3
      <3>2. q[j + 1].startSeq = Stop(q[j]) /\ q[j].startSeq < Stop(q[j])
            /\ q[j].startSeq \in Nat /\ Stop(q[j]) \in Nat
        BY <1>2, <1>4, <3>1
      <3>3. first <= q[j].startSeq /\ \A i \in 1..(j - 1) : Stop(q[i]) <= q[j].startSeq
        BY <3>1
      <3>4. \A i \in 1..j : i = j \/ i \in 1..(j - 1)
        BY <2>1
      <3>5. \A i \in 1..(j - 1) : Stop(q[i]) \in Nat
        BY <1>1, <1>2, <3>1
      <3> QED
        BY <2>1, <3>2, <3>3, <3>4, <3>5
    <2> QED
      BY <2>2, <2>3
  <1>7. \A j \in 1..N : /\ first <= q[j].startSeq
                       /\ \A i \in 1..(j - 1) : Stop(q[i]) <= q[j].startSeq
    <2>1. S = Nat
      <3> HIDE DEF S
      <3>1. S \in SUBSET Nat
        BY DEF S
      <3> QED
        BY <1>5, <1>6, <3>1, Induct
    <2> QED
      BY <1>1, <2>1
  <1>8. \A i, j \in 1..N : i < j => Stop(q[i]) <= q[j].startSeq
    <2> SUFFICES ASSUME NEW i \in 1..N, NEW j \in 1..N, i < j PROVE Stop(q[i]) <= q[j].startSeq
      OBVIOUS
    <2>1. i \in 1..(j - 1)
      OBVIOUS
    <2> QED
      BY <1>7, <2>1
  <1>9. /\ EndOf(q, first) \in Nat /\ first <= EndOf(q, first)
        /\ \A i \in 1..N : Stop(q[i]) <= EndOf(q, first)
    <2>1. CASE q = <<>>
      <3>1. N = 0
        BY <2>1 DEF N
      <3> QED
        BY <1>1, <2>1, <3>1 DEF EndOf
    <2>2. CASE q # <<>>
      <3>1. N \in 1..N /\ EndOf(q, first) = Stop(q[N])
        BY <1>1, <2>2 DEF EndOf, N, Row
      <3>2. \A i \in 1..N : i = N \/ i < N
        BY <1>1
      <3>3. \A i \in 1..N : i = N \/ Stop(q[i]) <= q[N].startSeq
        BY <1>8, <3>1, <3>2
      <3>4. /\ Stop(q[N]) \in Nat /\ q[N].startSeq \in Nat /\ q[N].startSeq < Stop(q[N])
            /\ first <= q[N].startSeq
        BY <1>2, <1>7, <3>1
      <3> QED
        BY <1>2, <3>1, <3>3, <3>4
    <2> QED
      BY <2>1, <2>2
  <1> QED
    BY <1>1, <1>2, <1>4, <1>7, <1>8, <1>9 DEF N

\* What is at each place when sequences a and c are joined.
Join(a, c, w) ==
    /\ Len(a) \in Nat /\ Len(c) \in Nat /\ Len(w) = Len(a) + Len(c)
    /\ \A j \in 1..Len(a) : w[j] = a[j]
    /\ \A j \in 1..Len(c) : w[Len(a) + j] = c[j]

\* The operator \o joins.
LEMMA JoinFacts ==
    ASSUME NEW X, NEW a, NEW c, a \in Seq(X), c \in Seq(X)
    PROVE  a \o c \in Seq(X) /\ Join(a, c, a \o c)
  <1>1. PICK w : w = a \o c
    OBVIOUS
  <1>2. Len(a) \in Nat /\ Len(c) \in Nat
    OBVIOUS
  <1>3. /\ w \in Seq(X) /\ Len(w) = Len(a) + Len(c)
        /\ \A j \in 1..(Len(a) + Len(c)) : w[j] = IF j <= Len(a) THEN a[j] ELSE c[j - Len(a)]
    BY <1>1, <1>2, ConcatProperties
  <1>4. \A j \in 1..Len(a) : w[j] = a[j]
    BY <1>2, <1>3
  <1>5. \A j \in 1..Len(c) : w[Len(a) + j] = c[j]
    <2> SUFFICES ASSUME NEW j \in 1..Len(c) PROVE w[Len(a) + j] = c[j]
      OBVIOUS
    <2>1. /\ Len(a) + j \in 1..(Len(a) + Len(c)) /\ ~ (Len(a) + j <= Len(a))
          /\ Len(a) + j - Len(a) = j
      BY <1>2
    <2> QED
      BY <1>3, <2>1
  <1> QED
    BY <1>1, <1>2, <1>3, <1>4, <1>5 DEF Join

\* A part of a sequence.
LEMMA Cut ==
    ASSUME NEW X, NEW q \in Seq(X), NEW i \in Nat \ {0}, NEW k \in Nat, k <= Len(q), i <= k + 1
    PROVE  /\ SubSeq(q, i, k) \in Seq(X) /\ Len(SubSeq(q, i, k)) = k + 1 - i
           /\ \A j \in 1..(k + 1 - i) : SubSeq(q, i, k)[j] = q[i - 1 + j]
  <1> DEFINE w == SubSeq(q, i, k)
  <1>1. Len(q) \in Nat /\ \A j \in 1..Len(q) : q[j] \in X
    OBVIOUS
  <1>2. \A j \in i..k : q[j] \in X
    BY <1>1
  <1>3. /\ w \in Seq(X) /\ Len(w) = IF i <= k THEN k - i + 1 ELSE 0
        /\ \A j \in 1..(k - i + 1) : w[j] = q[i + j - 1]
    BY <1>2, SubSeqProperties
  <1> HIDE DEF w
  <1>4. \A j \in 1..(k + 1 - i) : j \in 1..(k - i + 1) /\ i + j - 1 = i - 1 + j
    OBVIOUS
  <1>5. Len(w) = k + 1 - i
    BY <1>3
  <1>6. \A j \in 1..(k + 1 - i) : w[j] = q[i - 1 + j]
    BY <1>3, <1>4
  <1> QED
    BY <1>3, <1>5, <1>6 DEF w

\* What is at each place when the part from place i to place k is replaced.
Spliced(q, i, k, mid, w) ==
    /\ Len(w) = i - 1 + Len(mid) + (Len(q) - k)
    /\ \A j \in 1..(i - 1) : w[j] = q[j]
    /\ \A j \in 1..Len(mid) : w[i - 1 + j] = mid[j]
    /\ \A j \in (k + 1)..Len(q) : w[j - k + i - 1 + Len(mid)] = q[j]

\* Elements i to k of a sequence are replaced by the sequence mid.
LEMMA Replaced ==
    ASSUME NEW X, NEW q \in Seq(X), NEW i \in 1..Len(q), NEW k \in i..Len(q), NEW mid \in Seq(X)
    PROVE  LET w == SubSeq(q, 1, i - 1) \o mid \o SubSeq(q, k + 1, Len(q))
           IN  w \in Seq(X) /\ Spliced(q, i, k, mid, w)
  <1> DEFINE N == Len(q)
             a == SubSeq(q, 1, i - 1)
             c == SubSeq(q, k + 1, N)
             w == a \o mid \o c
  <1>1. /\ N \in Nat /\ Len(mid) \in Nat /\ i \in Nat /\ k \in Nat /\ 1 <= i /\ i <= k /\ k <= N
    OBVIOUS
  <1>2. a \in Seq(X) /\ Len(a) = i - 1 /\ \A j \in 1..(i - 1) : a[j] = q[j]
    <2>1. i - 1 \in Nat /\ i - 1 <= Len(q) /\ 1 <= i - 1 + 1 /\ 1 \in Nat \ {0} /\ i - 1 + 1 - 1 = i - 1
      OBVIOUS
    <2>2. /\ a \in Seq(X) /\ Len(a) = i - 1 + 1 - 1
          /\ \A j \in 1..(i - 1 + 1 - 1) : a[j] = q[1 - 1 + j]
      BY <2>1, Cut
    <2>3. \A j \in 1..(i - 1) : 1 - 1 + j = j
      OBVIOUS
    <2> QED
      BY <2>1, <2>2, <2>3
  <1>3. c \in Seq(X) /\ Len(c) = N - k /\ \A j \in 1..(N - k) : c[j] = q[k + j]
    <2>1. k + 1 \in Nat \ {0} /\ N \in Nat /\ N <= Len(q) /\ k + 1 <= N + 1 /\ N + 1 - (k + 1) = N - k
          /\ k + 1 - 1 = k
      OBVIOUS
    <2>2. /\ c \in Seq(X) /\ Len(c) = N + 1 - (k + 1)
          /\ \A j \in 1..(N + 1 - (k + 1)) : c[j] = q[k + 1 - 1 + j]
      BY <2>1, Cut
    <2> QED
      BY <2>1, <2>2
  <1> HIDE DEF a, c, w
  <1> DEFINE u == a \o mid
  <1>4. u \in Seq(X) /\ Join(a, mid, u)
    BY <1>2, JoinFacts
  <1> HIDE DEF u
  <1>5. w \in Seq(X) /\ Join(u, c, w)
    BY <1>3, <1>4, JoinFacts DEF u, w
  <1>6. /\ Len(w) = i - 1 + Len(mid) + (N - k)
        /\ \A j \in 1..(i - 1) : w[j] = a[j]
        /\ \A j \in 1..Len(mid) : w[i - 1 + j] = mid[j]
        /\ \A j \in 1..(N - k) : w[i - 1 + Len(mid) + j] = c[j]
    <2> HIDE DEF N
    <2>1. /\ Len(u) = i - 1 + Len(mid) /\ Len(w) = Len(u) + (N - k)
          /\ \A j \in 1..(i - 1) : u[j] = a[j]
          /\ \A j \in 1..Len(mid) : u[i - 1 + j] = mid[j]
          /\ \A j \in 1..(i - 1 + Len(mid)) : w[j] = u[j]
          /\ \A j \in 1..(N - k) : w[i - 1 + Len(mid) + j] = c[j]
      BY <1>2, <1>3, <1>4, <1>5 DEF Join
    <2>2. \A j \in 1..(i - 1) : j \in 1..(i - 1 + Len(mid))
      BY <1>1
    <2>3. \A j \in 1..Len(mid) : i - 1 + j \in 1..(i - 1 + Len(mid))
      BY <1>1
    <2> QED
      BY <2>1, <2>2, <2>3
  <1> HIDE DEF N
  <1>7. \A j \in (k + 1)..N : w[j - k + i - 1 + Len(mid)] = q[j]
    <2> SUFFICES ASSUME NEW j \in (k + 1)..N PROVE w[j - k + i - 1 + Len(mid)] = q[j]
      OBVIOUS
    <2>1. /\ j - k \in 1..(N - k) /\ k + (j - k) = j
          /\ j - k + i - 1 + Len(mid) = i - 1 + Len(mid) + (j - k)
      BY <1>1
    <2>2. w[i - 1 + Len(mid) + (j - k)] = c[j - k]
      BY <1>6, <2>1
    <2> QED
      BY <1>3, <2>1, <2>2
  <1>8. Spliced(q, i, k, mid, w)
    BY <1>2, <1>6, <1>7 DEF Spliced, N
  <1> QED
    BY <1>5, <1>8 DEF w, a, c, N

\* In a row the items i to k are replaced by others that hold the same bytes.
Substituted(first, q, i, k, mid, w) ==
    /\ Row(q, first) /\ i \in 1..Len(q) /\ k \in i..Len(q)
    /\ Row(mid, q[i].startSeq) /\ mid # <<>> /\ Stop(mid[Len(mid)]) = Stop(q[k])
    /\ w \in Seq(TxItem) /\ Spliced(q, i, k, mid, w)

\* A row in which items are replaced by others of the same range is one, with the same
\* sacked bytes when neither the old items nor the new ones are sacked.
LEMMA SplicedRow ==
    ASSUME NEW first \in Nat, NEW q, NEW i, NEW k, NEW mid, NEW w,
           Substituted(first, q, i, k, mid, w)
    PROVE  /\ Row(w, first) /\ EndOf(w, first) = EndOf(q, first)
           /\ (\A j \in i..k : ~ q[j].sacked) /\ (\A j \in 1..Len(mid) : ~ mid[j].sacked)
                 => SackedIn(w) = SackedIn(q)
  <1> USE DEF Substituted
  <1> DEFINE N == Len(q)
             m == Len(mid)
             d == N - k
  <1>1. /\ N \in Nat /\ m \in Nat /\ m # 0 /\ i \in Nat /\ k \in Nat /\ 1 <= i /\ i <= k /\ k <= N
        /\ d \in Nat /\ d = N - k
    <2>1. m \in Nat /\ m # 0
      BY DEF Row
    <2> QED
      BY <2>1 DEF Row
  <1>2. /\ Len(w) = i - 1 + m + d
        /\ \A j \in 1..N : q[j].startSeq = IF j = 1 THEN first ELSE Stop(q[j - 1])
        /\ \A j \in 1..m : mid[j].startSeq = IF j = 1 THEN q[i].startSeq ELSE Stop(mid[j - 1])
    BY DEF Row, Spliced
  <1>7. \A j \in 1..(i - 1) : w[j] = q[j]
    BY DEF Spliced
  <1>8. \A j \in 1..m : w[i - 1 + j] = mid[j]
    BY DEF Spliced
  <1>9. \A j \in (k + 1)..N : w[j - k + i - 1 + m] = q[j]
    BY DEF Spliced
  <1> HIDE DEF N, m, d
  <1>10. \A x \in 1..(i - 1 + m + d) :
           \/ x \in 1..(i - 1)
           \/ \E j \in 1..m : x = i - 1 + j
           \/ \E j \in (k + 1)..N : x = j - k + i - 1 + m
    <2> SUFFICES ASSUME NEW x \in 1..(i - 1 + m + d), x > i - 1
                 PROVE  \/ \E j \in 1..m : x = i - 1 + j
                        \/ \E j \in (k + 1)..N : x = j - k + i - 1 + m
      BY <1>1
    <2>1. CASE x <= i - 1 + m
      <3>1. x - (i - 1) \in 1..m /\ x = i - 1 + (x - (i - 1))
        BY <1>1, <2>1
      <3> QED
        BY <3>1
    <2>2. CASE x > i - 1 + m
      <3> DEFINE j == x + k - i + 1 - m
      <3>1. j \in (k + 1)..N /\ x = j - k + i - 1 + m
        BY <1>1, <2>2
      <3> HIDE DEF j
      <3> QED
        BY <3>1
    <2> QED
      BY <1>1, <2>1, <2>2
  <1>11. Len(w) \in Nat /\ Len(w) = i - 1 + m + d /\ w # <<>>
    BY <1>1, <1>2
  <1>12. Row(w, first)
    <2> SUFFICES ASSUME NEW x \in 1..(i - 1 + m + d)
                 PROVE  w[x].startSeq = IF x = 1 THEN first ELSE Stop(w[x - 1])
      BY <1>2 DEF Row
    <2>1. \A j \in 1..N : q[j].startSeq = IF j = 1 THEN first ELSE Stop(q[j - 1])
      BY <1>2
    <2>2. \A j \in 1..m : mid[j].startSeq = IF j = 1 THEN q[i].startSeq ELSE Stop(mid[j - 1])
      BY <1>2
    <2>3. CASE x \in 1..(i - 1)
      <3>1. x \in 1..N /\ (x # 1 => x - 1 \in 1..(i - 1))
        BY <1>1, <2>3
      <3> QED
        BY <1>7, <2>1, <2>3, <3>1
    <2>4. ASSUME NEW j \in 1..m, x = i - 1 + j
          PROVE  w[x].startSeq = IF x = 1 THEN first ELSE Stop(w[x - 1])
      <3>1. w[x] = mid[j]
        BY <1>8, <2>4
      <3>2. CASE j = 1
        <4>1. w[x].startSeq = q[i].startSeq /\ x = i
          BY <1>1, <2>2, <2>4, <3>1, <3>2
        <4>2. CASE i = 1
          BY <1>1, <2>1, <4>1, <4>2
        <4>3. CASE i # 1
          <5>1. i - 1 \in 1..(i - 1) /\ i \in 1..N
            BY <1>1, <4>3
          <5> QED
            BY <1>7, <2>1, <4>1, <4>3, <5>1
        <4> QED
          BY <4>2, <4>3
      <3>3. CASE j # 1
        <4>1. j - 1 \in 1..m /\ x - 1 = i - 1 + (j - 1) /\ x # 1
          BY <1>1, <2>4, <3>3
        <4>2. w[x - 1] = mid[j - 1]
          BY <1>8, <4>1
        <4> QED
          BY <2>2, <3>1, <3>3, <4>1, <4>2
      <3> QED
        BY <3>2, <3>3
    <2>5. ASSUME NEW j \in (k + 1)..N, x = j - k + i - 1 + m
          PROVE  w[x].startSeq = IF x = 1 THEN first ELSE Stop(w[x - 1])
      <3>1. w[x] = q[j] /\ x # 1 /\ j \in 1..N /\ j # 1
        BY <1>1, <1>9, <2>5
      <3>2. q[j].startSeq = Stop(q[j - 1])
        BY <2>1, <3>1
      <3>3. CASE j = k + 1
        <4>1. x - 1 = i - 1 + m /\ m \in 1..m /\ j - 1 = k
          BY <1>1, <2>5, <3>3
        <4>2. w[x - 1] = mid[m]
          BY <1>8, <4>1
        <4> QED
          BY <3>1, <3>2, <4>1, <4>2 DEF m
      <3>4. CASE j # k + 1
        <4>1. j - 1 \in (k + 1)..N /\ x - 1 = (j - 1) - k + i - 1 + m
          BY <1>1, <2>5, <3>4
        <4>2. w[x - 1] = q[j - 1]
          BY <1>9, <4>1
        <4> QED
          BY <3>1, <3>2, <4>2
      <3> QED
        BY <3>3, <3>4
    <2> QED
      BY <1>10, <2>3, <2>4, <2>5
  <1>13. EndOf(w, first) = EndOf(q, first)
    <2>1. EndOf(w, first) = Stop(w[i - 1 + m + d]) /\ EndOf(q, first) = Stop(q[N])
      BY <1>1, <1>11 DEF EndOf, N
    <2>2. CASE d = 0
      <3>1. i - 1 + m + d = i - 1 + m /\ m \in 1..m /\ N = k
        BY <1>1, <2>2
      <3>2. w[i - 1 + m] = mid[m]
        BY <1>8, <3>1
      <3> QED
        BY <2>1, <3>1, <3>2 DEF m
    <2>3. CASE d # 0
      <3>1. N \in (k + 1)..N /\ N - k + i - 1 + m = i - 1 + m + d
        BY <1>1, <2>3
      <3> QED
        BY <1>9, <2>1, <3>1
    <2> QED
      BY <2>2, <2>3
  <1>14. ASSUME \A j \in i..k : ~ q[j].sacked, \A j \in 1..m : ~ mid[j].sacked
         PROVE  SackedIn(w) = SackedIn(q)
    <2> DEFINE In(e, y) == e.sacked /\ e.startSeq <= y /\ y < Stop(e)
    <2>1. ASSUME NEW y \in Nat, NEW x \in 1..(i - 1 + m + d), In(w[x], y)
          PROVE  \E j \in 1..N : In(q[j], y)
      <3>1. CASE x \in 1..(i - 1)
        <4>1. x \in 1..N
          BY <1>1, <3>1
        <4> QED
          BY <1>7, <2>1, <3>1, <4>1
      <3>2. ASSUME NEW j \in 1..m, x = i - 1 + j PROVE FALSE
        BY <1>8, <1>14, <2>1, <3>2
      <3>3. ASSUME NEW j \in (k + 1)..N, x = j - k + i - 1 + m PROVE \E e \in 1..N : In(q[e], y)
        <4>1. j \in 1..N /\ w[x] = q[j]
          BY <1>1, <1>9, <3>3
        <4> QED
          BY <2>1, <4>1
      <3> HIDE DEF In
      <3> QED
        BY <1>10, <3>1, <3>2, <3>3
    <2>2. ASSUME NEW y \in Nat, NEW j \in 1..N, In(q[j], y)
          PROVE  \E x \in 1..(i - 1 + m + d) : In(w[x], y)
      <3>1. CASE j \in 1..(i - 1)
        <4>1. j \in 1..(i - 1 + m + d) /\ w[j] = q[j]
          BY <1>1, <1>7, <3>1
        <4> QED
          BY <2>2, <4>1
      <3>2. CASE j \in i..k
        BY <1>14, <2>2, <3>2
      <3>3. CASE j \in (k + 1)..N
        <4>1. j - k + i - 1 + m \in 1..(i - 1 + m + d) /\ w[j - k + i - 1 + m] = q[j]
          BY <1>1, <1>9, <3>3
        <4> QED
          BY <2>2, <4>1
      <3>4. j \in 1..(i - 1) \/ j \in i..k \/ j \in (k + 1)..N
        BY <1>1
      <3> HIDE DEF In
      <3> QED
        BY <3>1, <3>2, <3>3, <3>4
    <2>3. SackedIn(w) = {y \in Nat : \E x \in 1..(i - 1 + m + d) : In(w[x], y)}
      BY <1>11 DEF SackedIn
    <2>4. SackedIn(q) = {y \in Nat : \E j \in 1..N : In(q[j], y)}
      BY DEF SackedIn, N
    <2> HIDE DEF In
    <2> QED
      BY <2>1, <2>2, <2>3, <2>4
  <1> QED
    BY <1>12, <1>13, <1>14 DEF m

\* The smaller of two numbers.
LEMMA MinOfTwo ==
    ASSUME NEW a \in Nat, NEW b \in Nat
    PROVE  Min({a, b}) = IF a <= b THEN a ELSE b
  <1>1. CASE a <= b
    <2>1. \A m \in {a, b} : (\A n \in {a, b} : m <= n) => m = a
      BY <1>1
    <2>2. \E m \in {a, b} : \A n \in {a, b} : m <= n
      BY <1>1
    <2> QED
      BY <1>1, <2>1, <2>2 DEF Min
  <1>2. CASE ~ (a <= b)
    <2>1. \A m \in {a, b} : (\A n \in {a, b} : m <= n) => m = b
      BY <1>2
    <2>2. \E m \in {a, b} : \A n \in {a, b} : m <= n
      BY <1>2
    <2> QED
      BY <1>2, <2>1, <2>2 DEF Min
  <1> QED
    BY <1>1, <1>2

\* A function on 1..n is a sequence of length n.
LEMMA AsSequence ==
    ASSUME NEW X, NEW n \in Nat, NEW w \in [1..n -> X]
    PROVE  w \in Seq(X) /\ Len(w) = n
  <1>1. w \in Seq(X)
    BY SeqDef
  <1> QED
    BY <1>1, LenProperties

\* The items keep their places and lengths.
LEMMA Reshaped ==
    ASSUME NEW first \in Nat, NEW q, Row(q, first), NEW w \in [1..Len(q) -> TxItem],
           \A i \in 1..Len(q) : w[i].startSeq = q[i].startSeq /\ w[i].size = q[i].size
    PROVE  /\ Row(w, first) /\ EndOf(w, first) = EndOf(q, first) /\ Len(w) = Len(q)
           /\ (\A i \in 1..Len(q) : w[i].sacked = q[i].sacked) => SackedIn(w) = SackedIn(q)
  <1>1. Len(q) \in Nat
    BY DEF Row
  <1>2. w \in Seq(TxItem) /\ Len(w) = Len(q)
    BY <1>1, AsSequence
  <1>3. \A i \in 1..Len(q) : Stop(w[i]) = Stop(q[i])
    BY DEF Stop
  <1>4. Row(w, first)
    <2> SUFFICES ASSUME NEW i \in 1..Len(q)
                 PROVE  w[i].startSeq = IF i = 1 THEN first ELSE Stop(w[i - 1])
      BY <1>2 DEF Row
    <2>1. i # 1 => i - 1 \in 1..Len(q)
      BY <1>1
    <2> QED
      BY <1>3, <2>1 DEF Row
  <1>5. EndOf(w, first) = EndOf(q, first)
    <2>1. w = <<>> <=> q = <<>>
      BY <1>2 DEF Row
    <2>2. q # <<>> => Len(q) \in 1..Len(q)
      BY <1>1 DEF Row
    <2> QED
      BY <1>2, <1>3, <2>1, <2>2 DEF EndOf
  <1>6. (\A i \in 1..Len(q) : w[i].sacked = q[i].sacked) => SackedIn(w) = SackedIn(q)
    BY <1>2, <1>3 DEF SackedIn
  <1> QED
    BY <1>2, <1>4, <1>5, <1>6

\* A new item comes after the last one.
LEMMA RowAppend ==
    ASSUME NEW first \in Nat, NEW q, Row(q, first), NEW e \in TxItem,
           e.startSeq = EndOf(q, first), ~ e.sacked
    PROVE  LET w == Append(q, e)
           IN  /\ Row(w, first) /\ EndOf(w, first) = Stop(e) /\ SackedIn(w) = SackedIn(q)
               /\ Len(w) = Len(q) + 1 /\ w[Len(q) + 1] = e
  <1> DEFINE w == Append(q, e)
             N == Len(q)
  <1>1. N \in Nat /\ q \in Seq(TxItem)
    BY DEF Row
  <1>2. /\ w \in Seq(TxItem) /\ Len(w) = N + 1 /\ w[N + 1] = e
        /\ \A i \in 1..N : w[i] = q[i]
    <2>1. \A i \in 1..N : i \in 1..Len(q)
      OBVIOUS
    <2> QED
      BY <1>1, AppendProperties
  <1> HIDE DEF w
  <1>3. \A i \in 1..(N + 1) : i = N + 1 \/ i \in 1..N
    BY <1>1
  <1>4. Row(w, first)
    <2>1. ASSUME NEW i \in 1..N
          PROVE  w[i].startSeq = IF i = 1 THEN first ELSE Stop(w[i - 1])
      <3>1. i # 1 => i - 1 \in 1..N
        BY <1>1
      <3> QED
        BY <1>2, <3>1 DEF Row
    <2>2. e.startSeq = IF N + 1 = 1 THEN first ELSE Stop(w[(N + 1) - 1])
      <3>1. CASE N = 0
        <4>1. q = <<>>
          BY <1>1, <3>1
        <4> QED
          BY <3>1, <4>1 DEF EndOf
      <3>2. CASE N # 0
        <4>1. q # <<>> /\ N \in 1..N /\ (N + 1) - 1 = N /\ N + 1 # 1
          BY <1>1, <3>2
        <4> QED
          BY <1>2, <4>1 DEF EndOf
      <3> QED
        BY <3>1, <3>2
    <2>3. ASSUME NEW i \in 1..(N + 1)
          PROVE  w[i].startSeq = IF i = 1 THEN first ELSE Stop(w[i - 1])
      <3>1. CASE i = N + 1
        BY <1>2, <2>2, <3>1
      <3>2. CASE i \in 1..N
        BY <2>1, <3>2
      <3> QED
        BY <1>3, <3>1, <3>2
    <2> HIDE DEF N
    <2> QED
      BY <1>2, <2>3 DEF Row
  <1>5. EndOf(w, first) = Stop(e)
    <2>1. w # <<>>
      BY <1>1, <1>2
    <2> QED
      BY <1>2, <2>1 DEF EndOf
  <1>6. SackedIn(w) = SackedIn(q)
    <2> DEFINE In(d, y) == d.sacked /\ d.startSeq <= y /\ y < Stop(d)
    <2>1. SackedIn(w) = {y \in Nat : \E i \in 1..(N + 1) : In(w[i], y)}
      BY <1>2 DEF SackedIn
    <2>2. SackedIn(q) = {y \in Nat : \E i \in 1..N : In(q[i], y)}
      BY DEF SackedIn
    <2>3. \A y : ~ In(e, y)
      OBVIOUS
    <2>4. \A i \in 1..N : i \in 1..(N + 1)
      BY <1>1
    <2> HIDE DEF In, N
    <2>5. \A y \in Nat : (\E i \in 1..(N + 1) : In(w[i], y)) <=> (\E i \in 1..N : In(q[i], y))
      BY <1>2, <1>3, <2>3, <2>4
    <2> QED
      BY <2>1, <2>2, <2>5
  <1> QED
    BY <1>2, <1>4, <1>5, <1>6 DEF w

\* The head leaves.
LEMMA RowTail ==
    ASSUME NEW first \in Nat, NEW q, Row(q, first), q # <<>>
    PROVE  LET w == Tail(q)
           IN  /\ Row(w, Stop(q[1])) /\ EndOf(w, Stop(q[1])) = EndOf(q, first)
               /\ SackedIn(w) = {y \in SackedIn(q) : y >= Stop(q[1])}
               /\ Len(w) = Len(q) - 1
  <1> DEFINE w == Tail(q)
             N == Len(q)
  <1>1. N \in Nat /\ N # 0 /\ q \in Seq(TxItem) /\ 1 \in 1..N
    BY DEF Row
  <1>2. w \in Seq(TxItem) /\ Len(w) = N - 1 /\ \A i \in 1..(N - 1) : w[i] = q[i + 1]
    BY <1>1, HeadTailProperties
  <1> HIDE DEF w
  <1>3. \A i \in 1..(N - 1) : i + 1 \in 1..N /\ i + 1 # 1 /\ (i + 1) - 1 = i
    BY <1>1
  <1>4. /\ \A i \in 1..N : /\ q[i].startSeq \in Nat /\ Stop(q[i]) \in Nat
                          /\ q[i].startSeq < Stop(q[i])
        /\ \A i, j \in 1..N : i < j => Stop(q[i]) <= q[j].startSeq
        /\ \A i \in 1..N : q[i].startSeq = IF i = 1 THEN first ELSE Stop(q[i - 1])
    BY RowFacts DEF Row
  <1> HIDE DEF N
  <1>5. Row(w, Stop(q[1]))
    <2> SUFFICES ASSUME NEW i \in 1..(N - 1)
                 PROVE  w[i].startSeq = IF i = 1 THEN Stop(q[1]) ELSE Stop(w[i - 1])
      BY <1>2 DEF Row
    <2>1. w[i].startSeq = Stop(q[i])
      BY <1>2, <1>3, <1>4
    <2>2. i # 1 => i - 1 \in 1..(N - 1) /\ (i - 1) + 1 = i
      BY <1>1
    <2> QED
      BY <1>2, <2>1, <2>2
  <1>6. EndOf(w, Stop(q[1])) = EndOf(q, first)
    <2>1. EndOf(q, first) = Stop(q[N])
      BY <1>1 DEF EndOf, N
    <2>2. CASE N = 1
      <3>1. w = <<>>
        BY <1>2, <2>2
      <3> QED
        BY <2>1, <2>2, <3>1 DEF EndOf
    <2>3. CASE N # 1
      <3>1. N - 1 \in 1..(N - 1) /\ (N - 1) + 1 = N
        BY <1>1, <2>3
      <3>2. w # <<>>
        BY <1>2, <3>1
      <3> QED
        BY <1>2, <2>1, <3>1, <3>2 DEF EndOf
    <2> QED
      BY <2>2, <2>3
  <1>7. SackedIn(w) = {y \in SackedIn(q) : y >= Stop(q[1])}
    <2> DEFINE In(d, y) == d.sacked /\ d.startSeq <= y /\ y < Stop(d)
    <2>1. SackedIn(w) = {y \in Nat : \E i \in 1..(N - 1) : In(w[i], y)}
      BY <1>2 DEF SackedIn
    <2>2. SackedIn(q) = {y \in Nat : \E i \in 1..N : In(q[i], y)}
      BY DEF SackedIn, N
    <2>3. ASSUME NEW y \in Nat, NEW i \in 1..(N - 1), In(w[i], y)
          PROVE  y >= Stop(q[1]) /\ \E j \in 1..N : In(q[j], y)
      <3>1. w[i] = q[i + 1] /\ i + 1 \in 1..N /\ 1 < i + 1
        BY <1>2, <1>3
      <3>2. Stop(q[1]) <= q[i + 1].startSeq
        BY <1>1, <1>4, <3>1
      <3>3. q[i + 1].startSeq <= y /\ q[i + 1].startSeq \in Nat /\ Stop(q[1]) \in Nat
        BY <1>1, <1>4, <2>3, <3>1
      <3>4. y >= Stop(q[1])
        BY <3>2, <3>3
      <3> QED
        BY <2>3, <3>1, <3>4
    <2>4. ASSUME NEW y \in Nat, NEW j \in 1..N, In(q[j], y), y >= Stop(q[1])
          PROVE  \E i \in 1..(N - 1) : In(w[i], y)
      <3>1. j # 1
        BY <1>1, <1>4, <2>4
      <3>2. j - 1 \in 1..(N - 1) /\ (j - 1) + 1 = j
        BY <1>1, <3>1
      <3>3. w[j - 1] = q[j]
        BY <1>2, <3>2
      <3> QED
        BY <2>4, <3>2, <3>3
    <2> HIDE DEF In
    <2> QED
      BY <2>1, <2>2, <2>3, <2>4
  <1> QED
    BY <1>2, <1>5, <1>6, <1>7 DEF w, N

\* The head loses its first n bytes.
Cropped(q, n, w) ==
    /\ w \in [1..Len(q) -> TxItem]
    /\ w[1].startSeq = q[1].startSeq + n /\ w[1].size = q[1].size - n
    /\ w[1].sacked = q[1].sacked
    /\ \A i \in 2..Len(q) : w[i] = q[i]

\* The row when its first item is cropped.
LEMMA RowCut ==
    ASSUME NEW first \in Nat, NEW q, Row(q, first), q # <<>>, NEW n \in Nat, n < q[1].size,
           NEW w, Cropped(q, n, w)
    PROVE  /\ Row(w, first + n) /\ EndOf(w, first + n) = EndOf(q, first)
           /\ SackedIn(w) = {y \in SackedIn(q) : y >= first + n}
           /\ Len(w) = Len(q)
  <1> USE DEF Cropped
  <1> DEFINE N == Len(q)
  <1>1. N \in Nat /\ N # 0 /\ q \in Seq(TxItem) /\ 1 \in 1..N
    BY DEF Row
  <1>2. w \in Seq(TxItem) /\ Len(w) = N
    BY <1>1, AsSequence
  <1>3. \A i \in 1..N : i = 1 \/ i \in 2..N
    BY <1>1
  <1>4. /\ \A i \in 1..N : /\ q[i].startSeq \in Nat /\ Stop(q[i]) \in Nat
                          /\ q[i].startSeq < Stop(q[i]) /\ q[i].size \in Nat
        /\ \A i, j \in 1..N : i < j => Stop(q[i]) <= q[j].startSeq
        /\ \A i \in 1..N : q[i].startSeq = IF i = 1 THEN first ELSE Stop(q[i - 1])
    BY RowFacts DEF Row
  <1>5. w[1].startSeq = first + n /\ Stop(w[1]) = Stop(q[1])
    <2>1. q[1].startSeq = first /\ q[1].size \in Nat
      BY <1>1, <1>4
    <2>2. first + n + (q[1].size - n) = first + q[1].size
      BY <2>1
    <2> QED
      BY <2>1, <2>2 DEF Stop
  <1>6. \A i \in 1..N : Stop(w[i]) = Stop(q[i])
    BY <1>3, <1>5
  <1> HIDE DEF N
  <1>7. Row(w, first + n)
    <2> SUFFICES ASSUME NEW i \in 1..N
                 PROVE  w[i].startSeq = IF i = 1 THEN first + n ELSE Stop(w[i - 1])
      BY <1>2 DEF Row
    <2>1. CASE i = 1
      BY <1>5, <2>1
    <2>2. CASE i # 1
      <3>1. i - 1 \in 1..N /\ i \in 2..N
        BY <1>1, <2>2
      <3>2. w[i] = q[i]
        BY <3>1 DEF N
      <3> QED
        BY <1>4, <1>6, <2>2, <3>1, <3>2
    <2> QED
      BY <2>1, <2>2
  <1>8. EndOf(w, first + n) = EndOf(q, first)
    <2>1. N \in 1..N /\ w # <<>>
      BY <1>1, <1>2
    <2> QED
      BY <1>2, <1>6, <2>1 DEF EndOf, N
  <1>9. SackedIn(w) = {y \in SackedIn(q) : y >= first + n}
    <2> DEFINE In(d, y) == d.sacked /\ d.startSeq <= y /\ y < Stop(d)
    <2>1. SackedIn(w) = {y \in Nat : \E i \in 1..N : In(w[i], y)}
      BY <1>2 DEF SackedIn
    <2>2. SackedIn(q) = {y \in Nat : \E i \in 1..N : In(q[i], y)}
      BY DEF SackedIn, N
    <2>3. first + n \in Nat /\ first + n < Stop(q[1])
      BY <1>1, <1>4 DEF Stop
    <2>4. ASSUME NEW y \in Nat, NEW i \in 1..N
          PROVE  In(w[i], y) <=> In(q[i], y) /\ y >= first + n
      <3>1. CASE i = 1
        <4>1. first \in Nat /\ q[1].startSeq = first
          BY <1>1, <1>4
        <4> QED
          BY <1>5, <3>1, <4>1
      <3>2. CASE i # 1
        <4>1. i \in 2..N /\ 1 < i
          BY <1>1, <3>2
        <4>2. w[i] = q[i]
          BY <4>1 DEF N
        <4>3. Stop(q[1]) <= q[i].startSeq /\ q[i].startSeq \in Nat /\ Stop(q[1]) \in Nat
          BY <1>1, <1>4, <4>1
        <4> QED
          BY <2>3, <4>2, <4>3
      <3> QED
        BY <3>1, <3>2
    <2> HIDE DEF In
    <2> QED
      BY <2>1, <2>2, <2>4
  <1> QED
    BY <1>2, <1>7, <1>8, <1>9 DEF N

-----------------------------------------------------------------------------
(* The buffer of the sender *)

\* The fields of a buffer.
Fields == {"first", "sent", "unsent", "sackedOut", "lostOut", "retrans", "highest",
           "highestSeq", "sackEnabled", "ok"}

\* A buffer of the sender: its items are the row from the first byte.
TxRow(b) ==
    /\ DOMAIN b = Fields
    /\ b.first \in Nat \ {0} /\ b.unsent \in Nat /\ b.sackEnabled \in BOOLEAN
    /\ Row(b.sent, b.first)

\* With SACK its head is not sacked.
TxGood(b) == TxRow(b) /\ (b.sackEnabled => b.first \notin SackedIn(b.sent))

\* The byte after all that was sent from the buffer.
TxEnd(b) == EndOf(b.sent, b.first)

\* From b to c the stream may grow, and nothing else that is told apart changes.
Grows(b, c) ==
    /\ TxGood(c) /\ c.first = b.first /\ c.sackEnabled = b.sackEnabled
    /\ TxEnd(b) <= TxEnd(c)
    /\ b.sackEnabled => SackedIn(c.sent) = SackedIn(b.sent)

\* What follows from the type.
LEMMA TxRowFacts ==
    ASSUME NEW b, TxRow(b)
    PROVE  /\ b.first \in Nat /\ TxEnd(b) \in Nat /\ b.first <= TxEnd(b)
           /\ Len(b.sent) \in Nat /\ DOMAIN b.sent = 1..Len(b.sent)
           /\ b.sent \in Seq(TxItem) /\ b.sent \in [1..Len(b.sent) -> TxItem]
  <1>1. b.first \in Nat /\ Row(b.sent, b.first)
    BY DEF TxRow
  <1>2. b.sent \in [1..Len(b.sent) -> TxItem]
    BY <1>1, LenProperties DEF Row
  <1> QED
    BY <1>1, <1>2, RowFacts DEF TxEnd, Row

\* No change is allowed.
LEMMA GrowsItself ==
    ASSUME NEW b, TxGood(b)
    PROVE  Grows(b, b)
  BY TxRowFacts DEF Grows, TxGood

\* Of two changes the whole is allowed when each is.
LEMMA GrowsOn ==
    ASSUME NEW a, NEW b, NEW c, TxGood(a), Grows(a, b), Grows(b, c)
    PROVE  Grows(a, c)
  <1>1. TxEnd(a) \in Nat /\ TxEnd(b) \in Nat /\ TxEnd(c) \in Nat
    BY TxRowFacts DEF Grows, TxGood
  <1> QED
    BY <1>1 DEF Grows

\* The other fields do not matter.
LEMMA OtherFields ==
    ASSUME NEW b, TxGood(b), NEW c, DOMAIN c = Fields, c.first = b.first, c.sent = b.sent,
           c.unsent = b.unsent, c.sackEnabled = b.sackEnabled
    PROVE  Grows(b, c)
  <1>1. TxGood(c) /\ TxEnd(c) = TxEnd(b)
    BY DEF TxGood, TxRow, TxEnd
  <1> QED
    BY <1>1, TxRowFacts DEF Grows, TxGood

\* An assertion changes no item.
LEMMA AssertedGrows ==
    ASSUME NEW b, TxGood(b), NEW holds
    PROVE  Grows(b, Asserted(b, holds)) /\ Asserted(b, holds).sent = b.sent
  <1> DEFINE c == Asserted(b, holds)
  <1>1. /\ DOMAIN c = Fields /\ c.first = b.first /\ c.sent = b.sent
        /\ c.unsent = b.unsent /\ c.sackEnabled = b.sackEnabled
    BY DEF Asserted, TxGood, TxRow, Fields
  <1> QED
    BY <1>1, OtherFields

\* Only what is believed of the items changes, and with SACK not which are sacked.
LEMMA Flagged ==
    ASSUME NEW b, TxGood(b), NEW c, DOMAIN c = Fields, c.first = b.first,
           c.unsent = b.unsent, c.sackEnabled = b.sackEnabled,
           c.sent \in [1..Len(b.sent) -> TxItem],
           \A i \in 1..Len(b.sent) : /\ c.sent[i].startSeq = b.sent[i].startSeq
                                     /\ c.sent[i].size = b.sent[i].size
                                     /\ b.sackEnabled => c.sent[i].sacked = b.sent[i].sacked
    PROVE  Grows(b, c)
  <1>1. b.first \in Nat /\ Row(b.sent, b.first) /\ TxEnd(b) \in Nat
    BY TxRowFacts DEF TxGood, TxRow
  <1>2. /\ Row(c.sent, b.first) /\ EndOf(c.sent, b.first) = EndOf(b.sent, b.first)
        /\ b.sackEnabled => SackedIn(c.sent) = SackedIn(b.sent)
    BY <1>1, Reshaped
  <1> QED
    BY <1>1, <1>2 DEF Grows, TxGood, TxRow, TxEnd

\* The size of what was sent is the sum of the sizes of the items.
LEMMA SentEndFacts ==
    ASSUME NEW b, TxRow(b)
    PROVE  SentSize(b) \in Nat /\ SentEnd(b) = TxEnd(b)
  <1> DEFINE N == Len(b.sent)
             q == b.sent
             first == b.first
             Reach(i) == IF i = 0 THEN first ELSE Stop(q[i])
             T == [i \in 0..N |-> {x \in Nat : first + x = Reach(i)}]
             Step(i, x) == x + (IF TRUE THEN q[i].size ELSE 0)
             F(g) == [i \in 0..N |-> IF i = 0 THEN 0 ELSE Step(i, g[i - 1])]
             f == CHOOSE g : g = F(g)
             step == [i \in 1..N |-> [x \in Nat |-> Step(i, x)]]
  <1>1. /\ N \in Nat /\ first \in Nat
        /\ \A i \in 1..N : q[i].startSeq \in Nat /\ q[i].size \in Nat
        /\ \A i \in 1..N : q[i].startSeq = IF i = 1 THEN first ELSE Stop(q[i - 1])
    BY RowFacts DEF TxRow, Row
  <1>2. SentSize(b) = f[N]
    BY DEF SentSize, BytesOf
  <1>3. TxEnd(b) = Reach(N)
    <2>1. q = <<>> <=> N = 0
      BY DEF TxRow, Row
    <2> QED
      BY <2>1 DEF TxEnd, EndOf
  <1> HIDE DEF N, q, first
  <1>4. \A i \in 1..N : i \in 0..N /\ i - 1 \in 0..N /\ i # 0
    BY <1>1
  <1>5. 0 \in T[0]
    BY <1>1
  <1>6. \A i \in 1..N : \A x \in T[i - 1] : step[i][x] = Step(i, x) /\ Step(i, x) \in T[i]
    <2> SUFFICES ASSUME NEW i \in 1..N, NEW x \in T[i - 1]
                 PROVE  step[i][x] = Step(i, x) /\ Step(i, x) \in T[i]
      OBVIOUS
    <2>1. x \in Nat /\ first + x = Reach(i - 1)
      BY <1>4
    <2>2. Reach(i - 1) = q[i].startSeq
      BY <1>1, <1>4
    <2>3. Step(i, x) \in Nat /\ first + Step(i, x) = Reach(i)
      <3>1. q[i].size \in Nat /\ q[i].startSeq \in Nat
        BY <1>1
      <3>2. Reach(i) = q[i].startSeq + q[i].size
        BY <1>4 DEF Stop
      <3>3. first + (x + q[i].size) = first + x + q[i].size
        BY <1>1, <2>1, <3>1
      <3> QED
        BY <2>1, <2>2, <3>1, <3>2, <3>3
    <2> HIDE DEF Step, Reach
    <2> QED
      BY <1>4, <2>1, <2>3
  <1> HIDE DEF Step, step, T
  <1>7. f = F(f)
    <2>1. PICK g : Chain(g, 0, step, T, N)
      <3>1. Typed(0, step, T, N)
        BY <1>5, <1>6 DEF Typed
      <3> QED
        BY <1>1, <3>1, Recursion
    <2>2. g = F(g)
      <3>1. ASSUME NEW i \in 0..N PROVE g[i] = IF i = 0 THEN 0 ELSE Step(i, g[i - 1])
        <4>1. CASE i # 0
          <5>1. i \in 1..N
            BY <1>1, <4>1
          <5> QED
            BY <1>4, <1>6, <2>1, <5>1 DEF Chain
        <4> QED
          BY <2>1, <4>1 DEF Chain
      <3>2. g = [i \in 0..N |-> g[i]]
        BY <2>1 DEF Chain
      <3> QED
        BY <3>1, <3>2
    <2> HIDE DEF F
    <2> QED
      BY <2>2
  <1> HIDE DEF f
  <1>8. f[0] = 0 /\ \A i \in 1..N : f[i] = Step(i, f[i - 1])
    <2>1. \A i \in 0..N : f[i] = IF i = 0 THEN 0 ELSE Step(i, f[i - 1])
      BY <1>7
    <2> QED
      BY <1>1, <1>4, <2>1
  <1>9. \A i \in 0..N : f[i] \in T[i]
    <2>1. \A i \in 1..N : f[i - 1] \in T[i - 1] => f[i] \in T[i]
      BY <1>6, <1>8
    <2> QED
      BY <1>1, <1>5, <1>8, <2>1, Along
  <1>10. f[N] \in Nat /\ first + f[N] = Reach(N)
    <2>1. N \in 0..N
      BY <1>1
    <2> QED
      BY <1>9, <2>1 DEF T
  <1> QED
    BY <1>2, <1>3, <1>10 DEF SentEnd, first

\* An item stays in its place, though it may become shorter or longer.
Took(b, c, i) ==
    /\ Grows(b, c) /\ TxEnd(c) = TxEnd(b)
    /\ i \in 1..Len(c.sent)
    /\ c.sent[i].startSeq = b.sent[i].startSeq /\ c.sent[i].sacked = b.sent[i].sacked

\* Two items that follow each other, neither of which is sacked, become one.
LEMMA MergeItemsGrows ==
    ASSUME NEW b, TxGood(b), NEW i \in 1..Len(b.sent), i < Len(b.sent),
           b.sackEnabled => ~ b.sent[i].sacked /\ ~ b.sent[i + 1].sacked
    PROVE  Took(b, MergeItems(b, i), i)
  <1> DEFINE q == b.sent
             N == Len(b.sent)
             t1 == b.sent[i]
             t2 == b.sent[i + 1]
             both == t1.retrans /\ t2.retrans
             merged == [t1 EXCEPT !.size = @ + t2.size, !.retrans = both]
             mid == <<merged>>
             w == SubSeq(q, 1, i - 1) \o mid \o SubSeq(q, i + 2, N)
             c == MergeItems(b, i)
  <1>1. /\ DOMAIN c = Fields /\ c.first = b.first /\ c.sent = w
        /\ c.unsent = b.unsent /\ c.sackEnabled = b.sackEnabled
    BY DEF MergeItems, TxGood, TxRow, Fields
  <1>2. /\ b.first \in Nat /\ Row(q, b.first) /\ q \in Seq(TxItem) /\ N \in Nat
        /\ TxEnd(b) \in Nat
    BY TxRowFacts DEF TxGood, TxRow
  <1>3. i + 1 \in 1..N /\ i + 1 \in i..N /\ (i + 1) + 1 = i + 2
    BY <1>2
  <1>4. /\ t1 \in TxItem /\ t2 \in TxItem /\ t2.startSeq = Stop(t1)
        /\ t1.startSeq \in Nat /\ t1.size \in Nat \ {0} /\ t2.size \in Nat \ {0}
    BY <1>2, <1>3, RowFacts, SMTT(40)
  <1>5. /\ merged \in TxItem /\ merged.startSeq = t1.startSeq /\ merged.sacked = t1.sacked
        /\ merged.size = t1.size + t2.size
    <2>1. both \in BOOLEAN
      OBVIOUS
    <2>2. t1.size + t2.size \in Nat \ {0}
      <3>1. \A x, y \in Nat \ {0} : x + y \in Nat \ {0}
        OBVIOUS
      <3> QED
        BY <1>4, <3>1
    <2> HIDE DEF both
    <2> QED
      BY <1>4, <2>1, <2>2 DEF TxItem
  <1>6. Stop(merged) = Stop(t2)
    BY <1>4, <1>5 DEF Stop
  <1> HIDE DEF merged
  <1>7. /\ Len(mid) = 1 /\ mid # <<>> /\ mid[1] = merged /\ mid \in Seq(TxItem)
    BY <1>5
  <1> HIDE DEF mid, q, N
  <1>8. Row(mid, t1.startSeq)
    BY <1>5, <1>7 DEF Row
  <1>9. w \in Seq(TxItem) /\ Spliced(q, i, i + 1, mid, w)
    BY <1>2, <1>3, <1>7, Replaced DEF N, q
  <1> HIDE DEF w
  <1>10. /\ Row(w, b.first) /\ EndOf(w, b.first) = EndOf(q, b.first)
         /\ b.sackEnabled => SackedIn(w) = SackedIn(q)
    <2>1. Stop(mid[Len(mid)]) = Stop(q[i + 1])
      BY <1>6, <1>7 DEF q
    <2>2. b.sackEnabled => (\A j \in i..(i + 1) : ~ q[j].sacked) /\ (\A j \in 1..Len(mid) : ~ mid[j].sacked)
      <3>1. \A j \in i..(i + 1) : j = i \/ j = i + 1
        BY <1>3
      <3> QED
        BY <1>5, <1>7, <3>1 DEF q
    <2>3. Row(mid, q[i].startSeq)
      BY <1>8 DEF q
    <2> QED
      <3>1. i \in 1..Len(q) /\ i + 1 \in i..Len(q)
        BY <1>3 DEF N, q
      <3>2. Substituted(b.first, q, i, i + 1, mid, w)
        BY <1>2, <1>7, <1>9, <2>1, <2>3, <3>1 DEF Substituted
      <3> QED
        BY <1>2, <2>2, <3>2, SplicedRow
  <1>11. TxGood(c) /\ TxEnd(c) = TxEnd(b)
    BY <1>1, <1>10 DEF TxGood, TxRow, TxEnd, q
  <1>12. Len(w) = N - 1 /\ w[i] = merged
    <2>1. Len(w) = i - 1 + 1 + (N - (i + 1)) /\ w[i - 1 + 1] = mid[1]
      <3>1. Len(q) = N /\ 1 \in 1..Len(mid)
        BY <1>7 DEF N, q
      <3> QED
        BY <1>7, <1>9, <3>1 DEF Spliced
    <2>2. i - 1 + 1 = i
      BY <1>3
    <2> QED
      BY <1>2, <1>7, <2>1, <2>2
  <1>13. i \in 1..Len(w)
    BY <1>2, <1>3, <1>12
  <1> HIDE DEF c
  <1> QED
    BY <1>1, <1>2, <1>5, <1>10, <1>11, <1>12, <1>13 DEF Took, Grows, q, c

\* An item that is not sacked becomes two.
LEMMA SplitItemsGrows ==
    ASSUME NEW b, TxGood(b), NEW i \in 1..Len(b.sent), NEW n \in Nat \ {0},
           n < b.sent[i].size, b.sackEnabled => ~ b.sent[i].sacked
    PROVE  Took(b, SplitItems(b, i, n), i)
  <1> DEFINE q == b.sent
             N == Len(b.sent)
             t == b.sent[i]
             t1 == [t EXCEPT !.size = n]
             t2 == [t EXCEPT !.startSeq = @ + n, !.size = @ - n]
             mid == <<t1, t2>>
             w == SubSeq(q, 1, i - 1) \o mid \o SubSeq(q, i + 1, N)
             c == SplitItems(b, i, n)
  <1>1. /\ DOMAIN c = Fields /\ c.first = b.first /\ c.sent = w
        /\ c.unsent = b.unsent /\ c.sackEnabled = b.sackEnabled
    BY DEF SplitItems, TxGood, TxRow, Fields
  <1>2. /\ b.first \in Nat /\ Row(q, b.first) /\ q \in Seq(TxItem) /\ N \in Nat
        /\ TxEnd(b) \in Nat
    BY TxRowFacts DEF TxGood, TxRow
  <1>3. i \in 1..N /\ i \in i..N
    BY <1>2
  <1>4. t \in TxItem /\ t.startSeq \in Nat /\ t.size \in Nat \ {0}
    BY <1>2, <1>3, RowFacts
  <1>5. /\ t1 \in TxItem /\ t1.startSeq = t.startSeq /\ t1.sacked = t.sacked /\ t1.size = n
    BY <1>4 DEF TxItem
  <1>6. /\ t2.startSeq = t.startSeq + n /\ t2.sacked = t.sacked /\ t2.size = t.size - n
        /\ t2 \in TxItem
    <2>1. t.startSeq + n \in Nat /\ t.size - n \in Nat \ {0}
      <3>1. \A x \in Nat : x + n \in Nat /\ (n < x => x - n \in Nat \ {0})
        OBVIOUS
      <3> QED
        BY <1>4, <3>1
    <2> QED
      BY <1>4, <2>1 DEF TxItem
  <1>7. t2.startSeq = Stop(t1) /\ Stop(t2) = Stop(t)
    <2>1. \A x, y \in Nat : x + n + (y - n) = x + y
      OBVIOUS
    <2>2. t.startSeq + n + (t.size - n) = t.startSeq + t.size
      BY <1>4, <2>1
    <2> QED
      BY <1>5, <1>6, <2>2 DEF Stop
  <1> HIDE DEF t1, t2
  <1>8. /\ Len(mid) = 2 /\ mid # <<>> /\ mid[1] = t1 /\ mid[2] = t2 /\ mid \in Seq(TxItem)
    BY <1>5, <1>6
  <1> HIDE DEF mid, q, N
  <1>9. Row(mid, t.startSeq)
    <2>1. \A j \in 1..2 : j = 1 \/ j = 2
      OBVIOUS
    <2> QED
      BY <1>5, <1>7, <1>8, <2>1 DEF Row
  <1>10. w \in Seq(TxItem) /\ Spliced(q, i, i, mid, w)
    BY <1>2, <1>3, <1>8, Replaced DEF N, q
  <1> HIDE DEF w
  <1>11. /\ Row(w, b.first) /\ EndOf(w, b.first) = EndOf(q, b.first)
         /\ b.sackEnabled => SackedIn(w) = SackedIn(q)
    <2>1. Stop(mid[Len(mid)]) = Stop(q[i])
      BY <1>7, <1>8 DEF q
    <2>2. b.sackEnabled => (\A j \in i..i : ~ q[j].sacked) /\ (\A j \in 1..Len(mid) : ~ mid[j].sacked)
      <3>1. (\A j \in i..i : j = i) /\ (\A j \in 1..2 : j = 1 \/ j = 2)
        BY <1>3
      <3> QED
        BY <1>5, <1>6, <1>8, <3>1 DEF q
    <2>3. Row(mid, q[i].startSeq)
      BY <1>9 DEF q
    <2> QED
      <3>1. i \in 1..Len(q) /\ i \in i..Len(q)
        BY <1>3 DEF N, q
      <3>2. Substituted(b.first, q, i, i, mid, w)
        BY <1>2, <1>8, <1>10, <2>1, <2>3, <3>1 DEF Substituted
      <3> QED
        BY <1>2, <2>2, <3>2, SplicedRow
  <1>12. TxGood(c) /\ TxEnd(c) = TxEnd(b)
    BY <1>1, <1>11 DEF TxGood, TxRow, TxEnd, q
  <1>13. Len(w) = N + 1 /\ w[i] = t1
    <2>1. Len(w) = i - 1 + 2 + (N - i) /\ w[i - 1 + 1] = mid[1]
      <3>1. Len(q) = N /\ 1 \in 1..Len(mid)
        BY <1>8 DEF N, q
      <3> QED
        BY <1>8, <1>10, <3>1 DEF Spliced
    <2>2. i - 1 + 1 = i
      BY <1>3
    <2> QED
      BY <1>2, <1>8, <2>1, <2>2
  <1>14. i \in 1..Len(w)
    BY <1>2, <1>3, <1>13
  <1> HIDE DEF c
  <1> QED
    BY <1>1, <1>2, <1>5, <1>11, <1>12, <1>13, <1>14 DEF Took, Grows, q, c

\* An item is taken in several steps.
LEMMA TookOn ==
    ASSUME NEW a, NEW b, NEW c, NEW i, TxGood(a), Took(a, b, i), Took(b, c, i)
    PROVE  Took(a, c, i)
  BY GrowsOn DEF Took

\* An item is taken as it is.
LEMMA TookItself ==
    ASSUME NEW b, TxGood(b), NEW i \in 1..Len(b.sent)
    PROVE  Took(b, b, i)
  BY GrowsItself DEF Took

\* Where an item lies in the buffer.
LEMMA ItemFacts ==
    ASSUME NEW b, TxGood(b), NEW i \in 1..Len(b.sent)
    PROVE  /\ b.sent[i] \in TxItem /\ b.sent[i].startSeq \in Nat /\ b.sent[i].size \in Nat \ {0}
           /\ b.first <= b.sent[i].startSeq /\ b.sent[i].startSeq < Stop(b.sent[i])
           /\ Stop(b.sent[i]) \in Nat /\ Stop(b.sent[i]) <= TxEnd(b)
           /\ i = 1 => b.sent[i].startSeq = b.first
  <1>1. b.first \in Nat /\ Row(b.sent, b.first)
    BY DEF TxGood, TxRow
  <1> QED
    BY <1>1, RowFacts DEF TxEnd, Row

\* GetPacketFromList, in its range.
LEMMA GetPacketFromListGrows ==
    ASSUME NEW b, TxGood(b), NEW i \in 1..Len(b.sent), NEW n \in Nat \ {0},
           b.sackEnabled => ~ b.sent[i].sacked,
           b.sackEnabled /\ n > b.sent[i].size /\ i < Len(b.sent) => ~ b.sent[i + 1].sacked
    PROVE  Took(b, GetPacketFromList(b, i, n), i)
  <1> DEFINE whole == IF n > b.sent[i].size /\ i < Len(b.sent) THEN MergeItems(b, i) ELSE b
  <1>1. Took(b, whole, i)
    BY MergeItemsGrows, TookItself
  <1>2. GetPacketFromList(b, i, n) =
          IF n < whole.sent[i].size THEN SplitItems(whole, i, n) ELSE whole
    BY DEF GetPacketFromList
  <1> HIDE DEF whole
  <1>3. /\ TxGood(whole) /\ i \in 1..Len(whole.sent)
        /\ whole.sackEnabled => ~ whole.sent[i].sacked
    BY <1>1 DEF Took, Grows
  <1>4. n < whole.sent[i].size => Took(whole, SplitItems(whole, i, n), i)
    BY <1>3, SplitItemsGrows
  <1> QED
    BY <1>1, <1>2, <1>4, TookOn

\* GetTransmittedSegment of an item that is not sacked.
LEMMA GetTransmittedSegmentGrows ==
    ASSUME NEW b, TxGood(b), NEW i \in 1..Len(b.sent), NEW n \in Nat \ {0},
           b.sackEnabled => ~ b.sent[i].sacked
    PROVE  Took(b, GetTransmittedSegment(b, i, n), i)
  <1> DEFINE joins == i < Len(b.sent) /\ ~b.sent[i + 1].sacked
                        /\ b.sent[i].lost = b.sent[i + 1].lost
             most == b.sent[i].size + (IF joins THEN b.sent[i + 1].size ELSE 0)
             m == Min({n, most})
             got == GetPacketFromList(b, i, m)
             item == got.sent[i]
             c == GetTransmittedSegment(b, i, n)
  <1>1. c = [got EXCEPT !.ok = @ /\ n <= SentSize(b) /\ ~item.sacked,
                        !.retrans = IF item.retrans THEN @ ELSE @ + item.size,
                        !.sent[i].retrans = TRUE]
    BY DEF GetTransmittedSegment
  <1>2. Len(b.sent) \in Nat /\ b.sent[i].size \in Nat \ {0}
    BY ItemFacts, TxRowFacts DEF TxGood
  <1>3. joins => i + 1 \in 1..Len(b.sent) /\ b.sent[i + 1].size \in Nat \ {0}
    <2>1. joins => i + 1 \in 1..Len(b.sent)
      BY <1>2
    <2> HIDE DEF joins
    <2> QED
      BY <2>1, ItemFacts
  <1>4. most \in Nat \ {0} /\ (~ joins => most = b.sent[i].size)
    <2> HIDE DEF joins
    <2> QED
      BY <1>2, <1>3
  <1>5. joins => ~ b.sent[i + 1].sacked
    OBVIOUS
  <1> HIDE DEF joins, most
  <1>6. m \in Nat \ {0} /\ m <= most
    <2>1. m = IF n <= most THEN n ELSE most
      BY <1>4, MinOfTwo
    <2> QED
      BY <1>4, <2>1
  <1> HIDE DEF m
  <1>7. m > b.sent[i].size => joins
    BY <1>2, <1>4, <1>6
  <1>8. Took(b, got, i)
    BY <1>5, <1>6, <1>7, GetPacketFromListGrows
  <1> HIDE DEF got, c
  <1>9. /\ TxGood(got) /\ i \in 1..Len(got.sent) /\ DOMAIN got = Fields
        /\ got.sent \in [1..Len(got.sent) -> TxItem]
    BY <1>8, TxRowFacts DEF Took, Grows, TxGood, TxRow
  <1>10. /\ DOMAIN c = Fields /\ c.first = got.first /\ c.unsent = got.unsent
         /\ c.sackEnabled = got.sackEnabled
         /\ c.sent = [got.sent EXCEPT ![i] = [got.sent[i] EXCEPT !.retrans = TRUE]]
    BY <1>1, <1>9 DEF Fields
  <1>11. [got.sent[i] EXCEPT !.retrans = TRUE] \in TxItem
    BY <1>9 DEF TxItem
  <1>12. /\ c.sent \in [1..Len(got.sent) -> TxItem]
         /\ \A j \in 1..Len(got.sent) : /\ c.sent[j].startSeq = got.sent[j].startSeq
                                        /\ c.sent[j].size = got.sent[j].size
                                        /\ c.sent[j].sacked = got.sent[j].sacked
    <2>1. /\ c.sent \in [1..Len(got.sent) -> TxItem]
          /\ \A j \in 1..Len(got.sent) :
               c.sent[j] = IF j = i THEN [got.sent[i] EXCEPT !.retrans = TRUE] ELSE got.sent[j]
      BY <1>9, <1>10, <1>11
    <2>2. LET e == [got.sent[i] EXCEPT !.retrans = TRUE]
          IN  /\ e.startSeq = got.sent[i].startSeq /\ e.size = got.sent[i].size
              /\ e.sacked = got.sent[i].sacked
      BY <1>9 DEF TxItem
    <2> QED
      BY <2>1, <2>2
  <1>13. /\ Row(got.sent, got.first) /\ got.first \in Nat
    BY <1>9 DEF TxGood, TxRow
  <1>14. Len(c.sent) = Len(got.sent) /\ EndOf(c.sent, got.first) = EndOf(got.sent, got.first)
    BY <1>12, <1>13, Reshaped
  <1>15. Grows(got, c) /\ TxEnd(c) = TxEnd(got)
    BY <1>9, <1>10, <1>12, <1>14, Flagged DEF TxEnd
  <1>16. Took(got, c, i)
    BY <1>9, <1>12, <1>14, <1>15 DEF Took
  <1> QED
    BY <1>8, <1>16, TookOn DEF c

\* A transmission may begin where the new data or an item begin, with SACK one
\* that is not sacked.
Ready(b, seq) ==
    \/ seq = TxEnd(b)
    \/ \E i \in 1..Len(b.sent) : /\ b.sent[i].startSeq = seq
                                 /\ b.sackEnabled => ~ b.sent[i].sacked

\* CopyFromSequence; what it takes is an item of the buffer.
LEMMA CopyFromSequenceGrows ==
    ASSUME NEW b, TxGood(b), NEW n \in Nat \ {0}, NEW seq, Ready(b, seq)
    PROVE  LET got == CopyFromSequence(b, n, seq)
           IN  /\ Grows(b, got.buffer)
               /\ got.item # 0 => got.item \in 1..Len(got.buffer.sent)
  <1> DEFINE s == Min({n, TailSequence(b) - seq})
             at == CHOOSE i \in DOMAIN b.sent : Begin(b, i) = seq
             got == CopyFromSequence(b, n, seq)
             N == Len(b.sent)
  <1>1. /\ SentEnd(b) = TxEnd(b) /\ TxEnd(b) \in Nat /\ N \in Nat /\ DOMAIN b.sent = 1..N
        /\ b.unsent \in Nat /\ DOMAIN b = Fields /\ b.first \in Nat /\ Row(b.sent, b.first)
        /\ b.sackEnabled \in BOOLEAN
    BY SentEndFacts, TxRowFacts DEF TxGood, TxRow
  <1>2. \A i \in 1..N : /\ b.sent[i].startSeq \in Nat /\ b.sent[i].startSeq < TxEnd(b)
    <2> SUFFICES ASSUME NEW i \in 1..N
                 PROVE  b.sent[i].startSeq \in Nat /\ b.sent[i].startSeq < TxEnd(b)
      OBVIOUS
    <2> QED
      BY <1>1, ItemFacts
  <1>3. /\ seq \in Nat /\ seq <= TxEnd(b)
        /\ TailSequence(b) - seq \in Nat /\ (seq = TxEnd(b) => TailSequence(b) - seq = b.unsent)
    <2>1. seq \in Nat /\ seq <= TxEnd(b)
      BY <1>1, <1>2 DEF Ready
    <2> QED
      BY <1>1, <2>1 DEF TailSequence
  <1>4. /\ s \in Nat /\ s <= TailSequence(b) - seq
    <2>1. s = IF n <= TailSequence(b) - seq THEN n ELSE TailSequence(b) - seq
      BY <1>3, MinOfTwo
    <2> QED
      BY <1>3, <2>1
  <1>5. got = IF s = 0 THEN [buffer |-> Asserted(b, FALSE), item |-> 0]
              ELSE IF seq < SentEnd(b)
              THEN [buffer |-> GetTransmittedSegment(b, at, Min({s, SentEnd(b) - seq})),
                    item |-> at]
              ELSE [buffer |-> [b EXCEPT !.sent = Append(@, Segment(seq, s)), !.unsent = @ - s],
                    item |-> Len(b.sent) + 1]
    BY DEF CopyFromSequence
  <1> HIDE DEF s, got
  <1>6. CASE s = 0
    <2>1. got.buffer = Asserted(b, FALSE) /\ got.item = 0
      BY <1>5, <1>6
    <2> QED
      BY <2>1, AssertedGrows DEF got
  <1>7. CASE s # 0 /\ seq < SentEnd(b)
    <2> DEFINE k == Min({s, SentEnd(b) - seq})
    <2>1. got.buffer = GetTransmittedSegment(b, at, k) /\ got.item = at
      BY <1>5, <1>7
    <2>2. k \in Nat \ {0}
      <3>1. SentEnd(b) - seq \in Nat \ {0}
        BY <1>1, <1>3, <1>7
      <3>2. k = IF s <= SentEnd(b) - seq THEN s ELSE SentEnd(b) - seq
        BY <1>4, <3>1, MinOfTwo
      <3> QED
        BY <1>4, <1>7, <3>1, <3>2
    <2>3. PICK i \in 1..N : b.sent[i].startSeq = seq /\ (b.sackEnabled => ~ b.sent[i].sacked)
      BY <1>1, <1>3, <1>7 DEF Ready
    <2>4. at \in 1..N /\ b.sent[at].startSeq = seq
      <3>1. \E j \in DOMAIN b.sent : Begin(b, j) = seq
        BY <1>1, <2>3 DEF Begin
      <3> QED
        BY <1>1, <3>1 DEF Begin
    <2> HIDE DEF at, k
    <2>5. at = i
      <3>1. \A x, y \in 1..N : x < y => b.sent[x].startSeq < b.sent[y].startSeq
        <4> SUFFICES ASSUME NEW x \in 1..N, NEW y \in 1..N, x < y
                     PROVE  b.sent[x].startSeq < b.sent[y].startSeq
          OBVIOUS
        <4>1. Stop(b.sent[x]) <= b.sent[y].startSeq
          BY <1>1, RowFacts
        <4>2. b.sent[x].startSeq < Stop(b.sent[x]) /\ b.sent[x].startSeq \in Nat
              /\ Stop(b.sent[x]) \in Nat /\ b.sent[y].startSeq \in Nat
          BY ItemFacts
        <4> QED
          BY <4>1, <4>2
      <3>2. at = i \/ at < i \/ i < at
        BY <1>1, <2>3, <2>4
      <3> QED
        BY <1>3, <2>3, <2>4, <3>1, <3>2
    <2>6. Took(b, GetTransmittedSegment(b, at, k), at)
      BY <2>2, <2>3, <2>5, GetTransmittedSegmentGrows
    <2> QED
      BY <2>1, <2>6 DEF Took, got
  <1>8. CASE s # 0 /\ ~ (seq < SentEnd(b))
    <2> DEFINE e == Segment(seq, s)
               c == [b EXCEPT !.sent = Append(@, e), !.unsent = @ - s]
    <2>1. got.buffer = c /\ got.item = N + 1
      BY <1>5, <1>8
    <2>2. seq = TxEnd(b) /\ s \in Nat \ {0} /\ b.unsent - s \in Nat
      BY <1>1, <1>3, <1>4, <1>8
    <2>3. e \in TxItem /\ e.startSeq = TxEnd(b) /\ ~ e.sacked /\ Stop(e) = TxEnd(b) + s
      BY <1>3, <2>2 DEF Segment, TxItem, Stop
    <2> HIDE DEF e
    <2>4. /\ DOMAIN c = Fields /\ c.first = b.first /\ c.unsent = b.unsent - s
          /\ c.sackEnabled = b.sackEnabled /\ c.sent = Append(b.sent, e)
      BY <1>1 DEF Fields
    <2> HIDE DEF c
    <2>5. /\ Row(c.sent, b.first) /\ EndOf(c.sent, b.first) = Stop(e)
          /\ SackedIn(c.sent) = SackedIn(b.sent) /\ Len(c.sent) = N + 1
      BY <1>1, <2>3, <2>4, RowAppend DEF TxEnd
    <2>6. TxGood(c) /\ TxEnd(c) = TxEnd(b) + s
      BY <1>1, <2>2, <2>3, <2>4, <2>5 DEF TxGood, TxRow, TxEnd
    <2>7. Grows(b, c)
      BY <1>1, <2>2, <2>4, <2>5, <2>6 DEF Grows
    <2>8. N + 1 \in 1..Len(c.sent)
      BY <1>1, <2>5
    <2> QED
      BY <2>1, <2>7, <2>8 DEF got
  <1> QED
    BY <1>6, <1>7, <1>8

\* With SACK the head is not sacked.
LEMMA HeadFree ==
    ASSUME NEW b, TxGood(b), b.sent # <<>>
    PROVE  1 \in 1..Len(b.sent) /\ (b.sackEnabled => ~ b.sent[1].sacked)
  <1>1. 1 \in 1..Len(b.sent)
    BY TxRowFacts DEF TxGood
  <1>2. b.first \in Nat /\ b.sent[1].startSeq = b.first /\ b.first < Stop(b.sent[1])
    BY <1>1, ItemFacts
  <1>3. b.sent[1].sacked => b.first \in SackedIn(b.sent)
    BY <1>1, <1>2 DEF SackedIn
  <1> QED
    BY <1>1, <1>3 DEF TxGood

\* NextSeg finds an item that is not sacked, or the unsent data.
LEMMA NextSegReady ==
    ASSUME NEW b, TxGood(b), NEW isRecovery \in BOOLEAN, NextSeg(b, isRecovery) # 0
    PROVE  Ready(b, NextSeg(b, isRecovery))
  <1> DEFINE open == {i \in DOMAIN b.sent : ~b.sent[i].retrans /\ ~b.sent[i].sacked}
             lost == {i \in open : b.sent[i].lost}
  <1>1. DOMAIN b.sent = 1..Len(b.sent) /\ Len(b.sent) \in Nat /\ SentEnd(b) = TxEnd(b)
    BY TxRowFacts, SentEndFacts DEF TxGood
  <1>2. /\ open \in SUBSET Nat /\ lost \in SUBSET Nat
        /\ \A i \in open : i \in 1..Len(b.sent) /\ ~ b.sent[i].sacked
        /\ \A i \in lost : i \in open
    BY <1>1
  <1>3. NextSeg(b, isRecovery) =
          IF lost # {} THEN Begin(b, Min(lost))
          ELSE IF b.unsent > 0 THEN SentEnd(b)
          ELSE IF isRecovery /\ open # {} THEN Begin(b, Min(open))
          ELSE 0
    BY DEF NextSeg
  <1> HIDE DEF open, lost
  <1>4. \A i \in open : Ready(b, Begin(b, i))
    BY <1>2 DEF Ready, Begin
  <1>5. (lost # {} => Min(lost) \in open) /\ (open # {} => Min(open) \in open)
    BY <1>2, MinFacts
  <1>6. Ready(b, SentEnd(b))
    BY <1>1 DEF Ready
  <1> QED
    BY <1>3, <1>4, <1>5, <1>6

\* The head is not sacked with SACK, and may be transmitted again.
LEMMA FirstReady ==
    ASSUME NEW b, TxGood(b)
    PROVE  Ready(b, b.first)
  <1>1. CASE b.sent = <<>>
    BY <1>1 DEF Ready, TxEnd, EndOf
  <1>2. CASE b.sent # <<>>
    BY <1>2, HeadFree, ItemFacts DEF Ready
  <1> QED
    BY <1>1, <1>2

\* MarkHeadAsLost.
LEMMA MarkHeadAsLostGrows ==
    ASSUME NEW b, TxGood(b)
    PROVE  Grows(b, MarkHeadAsLost(b))
  <1> DEFINE head == b.sent[1]
             e == [head EXCEPT !.sacked = FALSE, !.retrans = FALSE, !.lost = TRUE]
             c == MarkHeadAsLost(b)
  <1>1. CASE b.sent = <<>>
    BY <1>1, GrowsItself DEF MarkHeadAsLost
  <1>2. CASE b.sent # <<>>
    <2>1. /\ 1 \in 1..Len(b.sent) /\ (b.sackEnabled => ~ head.sacked) /\ head \in TxItem
          /\ b.sent \in [1..Len(b.sent) -> TxItem] /\ DOMAIN b = Fields
      BY <1>2, HeadFree, ItemFacts, TxRowFacts DEF TxGood, TxRow
    <2>2. c = [b EXCEPT !.sackedOut = IF head.sacked THEN @ - head.size ELSE @,
                        !.retrans = IF head.retrans THEN @ - head.size ELSE @,
                        !.lostOut = IF head.lost THEN @ ELSE @ + head.size,
                        !.sent[1] = e]
      BY <1>2 DEF MarkHeadAsLost
    <2>3. e \in TxItem /\ e.startSeq = head.startSeq /\ e.size = head.size /\ ~ e.sacked
      BY <2>1 DEF TxItem
    <2>4. head.sacked \in BOOLEAN /\ e.sacked \in BOOLEAN
      BY <2>1, <2>3 DEF TxItem
    <2> HIDE DEF e, c
    <2>5. /\ DOMAIN c = Fields /\ c.first = b.first /\ c.unsent = b.unsent
          /\ c.sackEnabled = b.sackEnabled /\ c.sent = [b.sent EXCEPT ![1] = e]
      BY <2>1, <2>2 DEF Fields
    <2> HIDE DEF head
    <2>6. /\ c.sent \in [1..Len(b.sent) -> TxItem]
          /\ \A i \in 1..Len(b.sent) : c.sent[i] = IF i = 1 THEN e ELSE b.sent[i]
      BY <2>1, <2>3, <2>5
    <2>7. b.sackEnabled => e.sacked = head.sacked
      BY <2>1, <2>3, <2>4
    <2>8. \A i \in 1..Len(b.sent) : /\ c.sent[i].startSeq = b.sent[i].startSeq
                                     /\ c.sent[i].size = b.sent[i].size
      BY <2>3, <2>6 DEF head
    <2>9. c.sent \in [1..Len(b.sent) -> TxItem]
      BY <2>6
    <2>10. /\ DOMAIN c = Fields /\ c.first = b.first /\ c.unsent = b.unsent
           /\ c.sackEnabled = b.sackEnabled
      BY <2>5
    <2>11. CASE b.sackEnabled
      <3>1. \A i \in 1..Len(b.sent) : c.sent[i].sacked = b.sent[i].sacked
        BY <2>6, <2>7, <2>11 DEF head
      <3>2. Grows(b, c)
        BY <2>8, <2>9, <2>10, <3>1, Flagged
      <3> QED
        BY <3>2 DEF c
    <2>12. CASE ~ b.sackEnabled
      <3>1. Grows(b, c)
        BY <2>8, <2>9, <2>10, <2>12, Flagged
      <3> QED
        BY <3>1 DEF c
    <2> QED
      BY <2>11, <2>12
  <1> QED
    BY <1>1, <1>2

\* AddRenoSack, which only a sender without SACK calls.
LEMMA AddRenoSackGrows ==
    ASSUME NEW b, TxGood(b), ~ b.sackEnabled
    PROVE  Grows(b, AddRenoSack(b)) 
  <1> DEFINE free == {i \in 2..Len(b.sent) : ~b.sent[i].sacked}
             i == Min(free)
             a == Asserted(b, Len(b.sent) > (IF b.sackEnabled THEN 1 ELSE 0))
             c == AddRenoSack(b)
  <1>1. c = IF free = {} THEN a
            ELSE [a EXCEPT !.sent[i].sacked = TRUE, !.sackedOut = @ + b.sent[i].size,
                           !.highest = i, !.highestSeq = Begin(b, i)]
    BY DEF AddRenoSack
  <1>2. Grows(b, a) /\ a.sent = b.sent
    BY AssertedGrows
  <1> HIDE DEF a
  <1>3. CASE free = {}
    BY <1>1, <1>2, <1>3
  <1>4. CASE free # {}
    <2>1. /\ TxGood(a) /\ DOMAIN a = Fields /\ Len(b.sent) \in Nat
          /\ a.sent \in [1..Len(a.sent) -> TxItem]
      BY <1>2, TxRowFacts DEF Grows, TxGood, TxRow
    <2>2. i \in 1..Len(a.sent)
      <3>1. free \in SUBSET Nat
        OBVIOUS
      <3>2. i \in free
        <4> HIDE DEF free
        <4> QED
          BY <1>4, <3>1, MinFacts
      <3> QED
        BY <1>2, <2>1, <3>2
    <2> HIDE DEF i, c
    <2> DEFINE e == [a.sent[i] EXCEPT !.sacked = TRUE]
    <2>3. a.sent[i] \in TxItem
      BY <2>1, <2>2
    <2>4. e \in TxItem /\ e.startSeq = a.sent[i].startSeq /\ e.size = a.sent[i].size
      BY <2>3 DEF TxItem
    <2>5. /\ DOMAIN c = Fields /\ c.first = a.first /\ c.unsent = a.unsent
          /\ c.sackEnabled = a.sackEnabled /\ c.sent = [a.sent EXCEPT ![i] = e]
      BY <1>1, <1>4, <2>1 DEF Fields
    <2> HIDE DEF e
    <2>6. /\ c.sent \in [1..Len(a.sent) -> TxItem]
          /\ \A j \in 1..Len(a.sent) : c.sent[j] = IF j = i THEN e ELSE a.sent[j]
      BY <2>1, <2>4, <2>5
    <2>7. \A j \in 1..Len(a.sent) : /\ c.sent[j].startSeq = a.sent[j].startSeq
                                     /\ c.sent[j].size = a.sent[j].size
      BY <2>4, <2>6
    <2>8. ~ a.sackEnabled
      BY <1>2 DEF Grows
    <2>9. Grows(a, c)
      BY <2>1, <2>5, <2>6, <2>7, <2>8, Flagged
    <2> QED
      BY <1>2, <2>9, GrowsOn DEF c
  <1> QED
    BY <1>3, <1>4

\* The mark is taken from a head that has none with SACK.
LEMMA HeadUnsackedGrows ==
    ASSUME NEW b, TxGood(b)
    PROVE  Grows(b, HeadUnsacked(b))
  <1> DEFINE c == [b EXCEPT !.ok = @ /\ ~b.sent[1].lost,
                            !.sent[1].sacked = FALSE,
                            !.sackedOut = @ - b.sent[1].size]
  <1>1. CASE b.sent = <<>> \/ ~ b.sent[1].sacked
    BY <1>1, GrowsItself DEF HeadUnsacked
  <1>2. CASE b.sent # <<>> /\ b.sent[1].sacked
    <2>1. /\ 1 \in 1..Len(b.sent) /\ ~ b.sackEnabled /\ b.sent[1] \in TxItem
          /\ b.sent \in [1..Len(b.sent) -> TxItem] /\ DOMAIN b = Fields
      BY <1>2, HeadFree, ItemFacts, TxRowFacts DEF TxGood, TxRow
    <2> DEFINE e == [b.sent[1] EXCEPT !.sacked = FALSE]
    <2>2. e \in TxItem /\ e.startSeq = b.sent[1].startSeq /\ e.size = b.sent[1].size
      BY <2>1 DEF TxItem
    <2>3. /\ DOMAIN c = Fields /\ c.first = b.first /\ c.unsent = b.unsent
          /\ c.sackEnabled = b.sackEnabled /\ c.sent = [b.sent EXCEPT ![1] = e]
      BY <2>1 DEF Fields
    <2>4. HeadUnsacked(b) = MarkHeadAsLost(AddRenoSack(c))
      BY <1>2 DEF HeadUnsacked
    <2> HIDE DEF c, e
    <2>5. /\ c.sent \in [1..Len(b.sent) -> TxItem]
          /\ \A i \in 1..Len(b.sent) : c.sent[i] = IF i = 1 THEN e ELSE b.sent[i]
      BY <2>1, <2>2, <2>3
    <2>6. \A i \in 1..Len(b.sent) : /\ c.sent[i].startSeq = b.sent[i].startSeq
                                     /\ c.sent[i].size = b.sent[i].size
      BY <2>2, <2>5
    <2>7. Grows(b, c)
      BY <2>1, <2>3, <2>5, <2>6, Flagged
    <2>8. Grows(c, AddRenoSack(c))
      BY <2>1, <2>7, AddRenoSackGrows DEF Grows
    <2>9. Grows(AddRenoSack(c), MarkHeadAsLost(AddRenoSack(c)))
      BY <2>8, MarkHeadAsLostGrows DEF Grows
    <2>10. Grows(b, AddRenoSack(c))
      BY <2>7, <2>8, GrowsOn
    <2> QED
      BY <2>4, <2>9, <2>10, GrowsOn
  <1> QED
    BY <1>1, <1>2

\* UpdateLostCount marks items as lost.
LEMMA UpdateLostCountGrows ==
    ASSUME NEW b, TxGood(b)
    PROVE  Grows(b, UpdateLostCount(b))
  <1> DEFINE above(i) == Cardinality({j \in i..b.highest : j > 1 /\ b.sent[j].sacked})
             lost == {i \in 1..b.highest : above(i) >= DupThresh
                                        /\ (i = 1 \/ ~b.sent[i].sacked) /\ ~b.sent[i].lost}
             c == UpdateLostCount(b)
  <1>1. /\ DOMAIN b = Fields /\ b.sent \in [1..Len(b.sent) -> TxItem]
        /\ DOMAIN b.sent = 1..Len(b.sent)
    BY TxRowFacts DEF TxGood, TxRow
  <1>2. /\ DOMAIN c = Fields /\ c.first = b.first /\ c.unsent = b.unsent
        /\ c.sackEnabled = b.sackEnabled
        /\ c.sent = [i \in DOMAIN b.sent |-> IF i \in lost THEN [b.sent[i] EXCEPT !.lost = TRUE]
                                             ELSE b.sent[i]]
    BY <1>1 DEF UpdateLostCount, Fields
  <1> HIDE DEF c, lost
  <1>3. \A i \in 1..Len(b.sent) :
           LET e == [b.sent[i] EXCEPT !.lost = TRUE]
           IN  /\ e \in TxItem /\ e.startSeq = b.sent[i].startSeq
               /\ e.size = b.sent[i].size /\ e.sacked = b.sent[i].sacked
    <2> SUFFICES ASSUME NEW i \in 1..Len(b.sent)
                 PROVE  LET e == [b.sent[i] EXCEPT !.lost = TRUE]
                        IN  /\ e \in TxItem /\ e.startSeq = b.sent[i].startSeq
                            /\ e.size = b.sent[i].size /\ e.sacked = b.sent[i].sacked
      OBVIOUS
    <2>1. b.sent[i] \in TxItem
      BY <1>1
    <2> QED
      BY <2>1 DEF TxItem
  <1>4. \A i \in 1..Len(b.sent) : b.sent[i] \in TxItem
    BY <1>1
  <1>5. c.sent \in [1..Len(b.sent) -> TxItem]
    BY <1>1, <1>2, <1>3, <1>4
  <1>6. \A i \in 1..Len(b.sent) : /\ c.sent[i].startSeq = b.sent[i].startSeq
                                   /\ c.sent[i].size = b.sent[i].size
                                   /\ c.sent[i].sacked = b.sent[i].sacked
    BY <1>1, <1>2, <1>3
  <1> QED
    BY <1>2, <1>5, <1>6, Flagged DEF c

\* ResetRenoSack, which only a sender without SACK calls.
LEMMA ResetRenoSackGrows ==
    ASSUME NEW b, TxGood(b), ~ b.sackEnabled
    PROVE  Grows(b, ResetRenoSack(b)) /\ Len(ResetRenoSack(b).sent) = Len(b.sent)
  <1> DEFINE c == ResetRenoSack(b)
  <1>1. /\ DOMAIN b = Fields /\ b.sent \in [1..Len(b.sent) -> TxItem]
        /\ DOMAIN b.sent = 1..Len(b.sent) /\ Len(b.sent) \in Nat
    BY TxRowFacts DEF TxGood, TxRow
  <1>2. /\ DOMAIN c = Fields /\ c.first = b.first /\ c.unsent = b.unsent
        /\ c.sackEnabled = b.sackEnabled
        /\ c.sent = [i \in DOMAIN b.sent |-> [b.sent[i] EXCEPT !.sacked = FALSE]]
    BY <1>1 DEF ResetRenoSack, WithoutHighest, Fields
  <1> HIDE DEF c
  <1>3. \A i \in 1..Len(b.sent) :
           LET e == [b.sent[i] EXCEPT !.sacked = FALSE]
           IN  e \in TxItem /\ e.startSeq = b.sent[i].startSeq /\ e.size = b.sent[i].size
    <2> SUFFICES ASSUME NEW i \in 1..Len(b.sent)
                 PROVE  LET e == [b.sent[i] EXCEPT !.sacked = FALSE]
                        IN  e \in TxItem /\ e.startSeq = b.sent[i].startSeq
                            /\ e.size = b.sent[i].size
      OBVIOUS
    <2>1. b.sent[i] \in TxItem
      BY <1>1
    <2> QED
      BY <2>1 DEF TxItem
  <1>4. c.sent \in [1..Len(b.sent) -> TxItem]
    BY <1>1, <1>2, <1>3
  <1>5. \A i \in 1..Len(b.sent) : /\ c.sent[i].startSeq = b.sent[i].startSeq
                                   /\ c.sent[i].size = b.sent[i].size
    BY <1>1, <1>2, <1>3
  <1>6. Grows(b, c)
    BY <1>2, <1>4, <1>5, Flagged
  <1>7. Len(c.sent) = Len(b.sent)
    BY <1>1, <1>4, AsSequence
  <1> QED
    BY <1>6, <1>7 DEF c

\* SetSentListLost.
LEMMA SetSentListLostGrows ==
    ASSUME NEW b, TxGood(b)
    PROVE  Grows(b, SetSentListLost(b, ~ b.sackEnabled))
  <1> DEFINE reset == ~ b.sackEnabled
             c == IF reset THEN ResetRenoSack(b) ELSE b
             lost(i) == c.sent[i].lost \/ ~b.sent[i].sacked \/ reset
             d == [c EXCEPT !.sent = [i \in DOMAIN @ |->
                       [@[i] EXCEPT !.lost = c.sent[i].lost \/ ~b.sent[i].sacked \/ reset,
                                    !.retrans = FALSE]]]
             isLost(x) == x.lost
             h == [d EXCEPT !.lostOut = BytesOf(d, isLost), !.retrans = 0]
  <1>1. SetSentListLost(b, reset) = CountsFit(h)
    BY DEF SetSentListLost
  <1>2. Grows(b, c)
    <2>1. CASE reset
      BY <2>1, ResetRenoSackGrows
    <2>2. CASE ~ reset
      BY <2>2, GrowsItself
    <2> QED
      BY <2>1, <2>2
  <1> HIDE DEF c
  <1>3. /\ TxGood(c) /\ DOMAIN c = Fields /\ c.sent \in [1..Len(c.sent) -> TxItem]
        /\ DOMAIN c.sent = 1..Len(c.sent)
    BY <1>2, TxRowFacts DEF Grows, TxGood, TxRow
  <1>4. /\ DOMAIN d = Fields /\ d.first = c.first /\ d.unsent = c.unsent
        /\ d.sackEnabled = c.sackEnabled
        /\ d.sent = [i \in DOMAIN c.sent |->
                       [c.sent[i] EXCEPT !.lost = lost(i), !.retrans = FALSE]]
    BY <1>3 DEF Fields
  <1>5. \A i : lost(i) \in BOOLEAN
    OBVIOUS
  <1> HIDE DEF d, lost
  <1>6. \A i \in 1..Len(c.sent) :
           LET e == [c.sent[i] EXCEPT !.lost = lost(i), !.retrans = FALSE]
           IN  /\ e \in TxItem /\ e.startSeq = c.sent[i].startSeq /\ e.size = c.sent[i].size
               /\ e.sacked = c.sent[i].sacked
    <2> SUFFICES ASSUME NEW i \in 1..Len(c.sent)
                 PROVE  LET e == [c.sent[i] EXCEPT !.lost = lost(i), !.retrans = FALSE]
                        IN  /\ e \in TxItem /\ e.startSeq = c.sent[i].startSeq
                            /\ e.size = c.sent[i].size /\ e.sacked = c.sent[i].sacked
      OBVIOUS
    <2>1. c.sent[i] \in TxItem /\ lost(i) \in BOOLEAN
      BY <1>3, <1>5
    <2> QED
      BY <2>1 DEF TxItem
  <1>7. d.sent \in [1..Len(c.sent) -> TxItem]
    BY <1>3, <1>4, <1>6
  <1>8. \A i \in 1..Len(c.sent) : /\ d.sent[i].startSeq = c.sent[i].startSeq
                                   /\ d.sent[i].size = c.sent[i].size
                                   /\ d.sent[i].sacked = c.sent[i].sacked
    BY <1>3, <1>4, <1>6
  <1>9. Grows(c, d)
    BY <1>3, <1>4, <1>7, <1>8, Flagged
  <1>10. Grows(d, h)
    <2>1. TxGood(d) /\ DOMAIN d = Fields
      BY <1>9 DEF Grows, TxGood, TxRow
    <2>2. /\ DOMAIN h = Fields /\ h.first = d.first /\ h.sent = d.sent
          /\ h.unsent = d.unsent /\ h.sackEnabled = d.sackEnabled
      BY <2>1 DEF Fields
    <2> HIDE DEF h
    <2> QED
      BY <2>1, <2>2, OtherFields
  <1> HIDE DEF h
  <1>11. Grows(h, CountsFit(h))
    BY <1>10, AssertedGrows DEF CountsFit, Grows
  <1>12. Grows(b, d) /\ TxGood(c) /\ TxGood(d)
    BY <1>2, <1>9, GrowsOn DEF Grows
  <1>13. Grows(b, h) /\ TxGood(h)
    BY <1>10, <1>12, GrowsOn DEF Grows
  <1>14. Grows(b, CountsFit(h))
    BY <1>11, <1>13, GrowsOn
  <1> QED
    BY <1>1, <1>14

-----------------------------------------------------------------------------
(* SACK blocks are read *)

\* One turn of the loops of Update and of DiscardUpTo.
Turn(reads, x, block, seq) ==
    IF reads THEN SackedBlock(x, block)
    ELSE IF x.sent = <<>> THEN x ELSE DiscardHead(x, seq)

\* The buffers after each turn.
Turns(f, start, N, reads, list, seq) ==
    f = [i \in 0..N |-> IF i = 0 THEN start ELSE Turn(reads, f[i - 1], list[i], seq)]

\* The buffers that these loops go through exist.
LEMMA TurnsExist ==
    ASSUME NEW start, NEW N \in Nat, NEW reads, NEW list, NEW seq
    PROVE  \E f : Turns(f, start, N, reads, list, seq)
  <1> DEFINE Upto(f, n) == Turns(f, start, n, reads, list, seq)
             S == {n \in Nat : \E f : Upto(f, n)}
  <1>1. 0 \in S
    <2> DEFINE f == [i \in 0..0 |-> start]
    <2>1. Upto(f, 0)
      <3>1. \A i \in 0..0 : i = 0
        OBVIOUS
      <3> QED
        BY <3>1 DEF Turns
    <2> QED
      BY <2>1
  <1>2. ASSUME NEW n \in S PROVE n + 1 \in S
    <2>1. PICK f : Upto(f, n)
      OBVIOUS
    <2> DEFINE last == Turn(reads, f[n], list[n + 1], seq)
               h == [i \in 0..(n + 1) |-> IF i = n + 1 THEN last ELSE f[i]]
    <2>2. n \in Nat /\ n \in 0..n /\ n \in 0..(n + 1) /\ n + 1 \in 0..(n + 1) /\ n + 1 # 0
      OBVIOUS
    <2>3. h[n] = f[n] /\ h[n + 1] = Turn(reads, f[n], list[n + 1], seq)
      BY <2>2
    <2>4. \A i \in 0..n : i \in 0..(n + 1) /\ i # n + 1 /\ h[i] = f[i]
      BY <2>2
    <2>5. h = [i \in 0..(n + 1) |-> h[i]]
      OBVIOUS
    <2> HIDE DEF h, last
    <2>6. ASSUME NEW i \in 0..(n + 1)
          PROVE  h[i] = IF i = 0 THEN start ELSE Turn(reads, h[i - 1], list[i], seq)
      <3>1. CASE i = n + 1
        <4>1. i - 1 = n
          BY <2>2, <3>1
        <4> QED
          BY <2>2, <2>3, <3>1, <4>1
      <3>2. CASE i = 0
        <4>1. 0 \in 0..n
          BY <2>2
        <4>2. f[0] = start
          BY <2>1, <4>1 DEF Turns
        <4> QED
          BY <2>4, <3>2, <4>1, <4>2
      <3>3. CASE i # 0 /\ i # n + 1
        <4>1. i \in 0..n /\ i - 1 \in 0..n
          BY <2>2, <3>3
        <4>2. f[i] = Turn(reads, f[i - 1], list[i], seq)
          BY <2>1, <3>3, <4>1 DEF Turns
        <4> QED
          BY <2>4, <3>3, <4>1, <4>2
      <3> QED
        BY <3>1, <3>2, <3>3
    <2>7. Upto(h, n + 1)
      BY <2>5, <2>6 DEF Turns
    <2> QED
      BY <2>2, <2>7
  <1> HIDE DEF S
  <1>3. S \in SUBSET Nat
    BY DEF S
  <1>4. N \in S
    BY <1>1, <1>2, <1>3, Induct
  <1> QED
    BY <1>4 DEF S

-----------------------------------------------------------------------------
(* The blocks of an option are read *)

\* From b to c only bytes of B are sacked.
Reads(b, c, B) ==
    /\ TxGood(c) /\ c.first = b.first /\ c.sackEnabled = b.sackEnabled
    /\ TxEnd(b) <= TxEnd(c)
    /\ SackedIn(b.sent) \subseteq SackedIn(c.sent)
    /\ SackedIn(c.sent) \subseteq SackedIn(b.sent) \cup B

\* Blocks are read one after the other.
LEMMA ReadsOn ==
    ASSUME NEW a, NEW b, NEW c, NEW B, TxGood(a), Reads(a, b, B), Reads(b, c, B)
    PROVE  Reads(a, c, B)
  <1>1. TxEnd(a) \in Nat /\ TxEnd(b) \in Nat /\ TxEnd(c) \in Nat
    BY TxRowFacts DEF Reads, TxGood
  <1> QED
    BY <1>1 DEF Reads

\* What sacks nothing reads any blocks.
LEMMA GrowsReads ==
    ASSUME NEW b, NEW c, NEW B, b.sackEnabled, Grows(b, c)
    PROVE  Reads(b, c, B)
  BY DEF Reads, Grows

\* One block of an option is read.
LEMMA SackedBlockReads ==
    ASSUME NEW b, TxGood(b), b.sackEnabled, NEW block \in Block, NEW B,
           Bytes({block}) \subseteq B, b.first \notin SackedIn(b.sent) \cup B
    PROVE  Reads(b, SackedBlock(b, block), B)
  <1> DEFINE within == {i \in DOMAIN b.sent : Begin(b, i) >= block[1] /\ End(b, i) <= block[2]}
             new == {i \in within : ~b.sent[i].sacked}
             c == Asserted(b, \A i \in within \ new : ~b.sent[i].lost)
             d == SackedBlock(b, block)
  <1>1. Grows(b, c) /\ c.sent = b.sent
    BY AssertedGrows
  <1>2. new = {} => d = c
    BY DEF SackedBlock
  <1>3. /\ DOMAIN c = Fields /\ b.sent \in [1..Len(b.sent) -> TxItem]
        /\ DOMAIN b.sent = 1..Len(b.sent) /\ Len(b.sent) \in Nat
        /\ b.first \in Nat /\ Row(b.sent, b.first)
    BY <1>1, TxRowFacts DEF Grows, TxGood, TxRow
  <1>4. new # {} =>
          /\ DOMAIN d = Fields /\ d.first = c.first /\ d.unsent = c.unsent
          /\ d.sackEnabled = c.sackEnabled
          /\ d.sent = [i \in DOMAIN b.sent |->
                         IF i \in new THEN [b.sent[i] EXCEPT !.sacked = TRUE, !.lost = FALSE]
                         ELSE b.sent[i]]
    <2> HIDE DEF c
    <2> QED
      BY <1>1, <1>3 DEF SackedBlock, Fields, c
  <1>5. \A i \in new : /\ i \in 1..Len(b.sent) /\ block[1] <= b.sent[i].startSeq
                       /\ Stop(b.sent[i]) <= block[2]
    BY <1>3 DEF Begin, End, Stop
  <1> HIDE DEF c, d, new
  <1>6. CASE new = {}
    <2>1. Reads(b, c, B)
      BY <1>1, GrowsReads
    <2> QED
      BY <1>2, <1>6, <2>1 DEF d
  <1>7. CASE new # {}
    <2>1. \A i \in 1..Len(b.sent) :
             LET e == [b.sent[i] EXCEPT !.sacked = TRUE, !.lost = FALSE]
             IN  /\ e \in TxItem /\ e.startSeq = b.sent[i].startSeq
                 /\ e.size = b.sent[i].size /\ e.sacked
      <3> SUFFICES ASSUME NEW i \in 1..Len(b.sent)
                   PROVE  LET e == [b.sent[i] EXCEPT !.sacked = TRUE, !.lost = FALSE]
                          IN  /\ e \in TxItem /\ e.startSeq = b.sent[i].startSeq
                              /\ e.size = b.sent[i].size /\ e.sacked
        OBVIOUS
      <3>1. b.sent[i] \in TxItem
        BY <1>3
      <3> QED
        BY <3>1 DEF TxItem
    <2>2. \A i \in 1..Len(b.sent) : b.sent[i] \in TxItem
      BY <1>3
    <2>3. d.sent \in [1..Len(b.sent) -> TxItem]
      BY <1>3, <1>4, <1>7, <2>1, <2>2
    <2>4. /\ \A i \in 1..Len(b.sent) : /\ d.sent[i].startSeq = b.sent[i].startSeq
                                       /\ d.sent[i].size = b.sent[i].size
          /\ \A i \in 1..Len(b.sent) : b.sent[i].sacked => d.sent[i].sacked
          /\ \A i \in 1..Len(b.sent) : d.sent[i].sacked => b.sent[i].sacked \/ i \in new
      <3>1. \A i \in 1..Len(b.sent) :
               d.sent[i] = IF i \in new THEN [b.sent[i] EXCEPT !.sacked = TRUE, !.lost = FALSE]
                           ELSE b.sent[i]
        BY <1>3, <1>4, <1>7
      <3>2. ASSUME NEW i \in 1..Len(b.sent), i \in new
            PROVE  /\ d.sent[i].startSeq = b.sent[i].startSeq
                   /\ d.sent[i].size = b.sent[i].size /\ d.sent[i].sacked
        BY <2>1, <3>1, <3>2
      <3>3. ASSUME NEW i \in 1..Len(b.sent), i \notin new
            PROVE  d.sent[i] = b.sent[i]
        BY <3>1, <3>3
      <3>4. \A i \in 1..Len(b.sent) : /\ d.sent[i].startSeq = b.sent[i].startSeq
                                         /\ d.sent[i].size = b.sent[i].size
        BY <3>2, <3>3
      <3>5. \A i \in 1..Len(b.sent) : b.sent[i].sacked => d.sent[i].sacked
        BY <3>2, <3>3
      <3>6. \A i \in 1..Len(b.sent) : d.sent[i].sacked => b.sent[i].sacked \/ i \in new
        BY <3>3
      <3> QED
        BY <3>4, <3>5, <3>6
    <2>5. Row(d.sent, b.first) /\ EndOf(d.sent, b.first) = EndOf(b.sent, b.first)
          /\ Len(d.sent) = Len(b.sent)
      BY <1>3, <2>3, <2>4, Reshaped
    <2>6. \A i \in 1..Len(b.sent) : Stop(d.sent[i]) = Stop(b.sent[i])
      BY <2>4 DEF Stop
    <2>7. SackedIn(b.sent) \subseteq SackedIn(d.sent)
      BY <2>4, <2>5, <2>6 DEF SackedIn
    <2>8. SackedIn(d.sent) \subseteq SackedIn(b.sent) \cup B
      <3> SUFFICES ASSUME NEW y \in Nat, NEW i \in 1..Len(b.sent), d.sent[i].sacked,
                          d.sent[i].startSeq <= y, y < Stop(d.sent[i])
                   PROVE  y \in SackedIn(b.sent) \cup B
        BY <2>5 DEF SackedIn
      <3>1. b.sent[i].startSeq <= y /\ y < Stop(b.sent[i])
        BY <2>4, <2>6
      <3>2. CASE b.sent[i].sacked
        BY <3>1, <3>2 DEF SackedIn
      <3>3. CASE i \in new
        <4>1. block[1] \in Nat /\ block[2] \in Nat
          BY DEF Block
        <4>2. b.sent[i].startSeq \in Nat /\ Stop(b.sent[i]) \in Nat
          BY ItemFacts
        <4>3. y \in block[1]..(block[2] - 1)
          BY <1>5, <3>1, <3>3, <4>1, <4>2
        <4>4. y \in Bytes({block})
          BY <4>3, BytesFacts
        <4> QED
          BY <4>4
      <3> QED
        BY <2>4, <3>2, <3>3
    <2>9. /\ DOMAIN d = Fields /\ d.first = b.first /\ d.unsent = c.unsent
          /\ d.sackEnabled = b.sackEnabled
      BY <1>1, <1>4, <1>7 DEF Grows
    <2>10. c.unsent \in Nat
      BY <1>1 DEF Grows, TxGood, TxRow
    <2>11. b.first \in Nat \ {0} /\ b.sackEnabled \in BOOLEAN
      BY DEF TxGood, TxRow
    <2>12. TxGood(d) /\ TxEnd(d) = TxEnd(b) /\ TxEnd(b) \in Nat
      <3>1. TxRow(d)
        BY <2>5, <2>9, <2>10, <2>11 DEF TxRow
      <3>2. d.first \notin SackedIn(d.sent)
        BY <2>8, <2>9
      <3>3. TxEnd(d) = TxEnd(b)
        BY <2>5, <2>9 DEF TxEnd
      <3> QED
        BY <3>1, <3>2, <3>3, TxRowFacts DEF TxGood
    <2>13. TxEnd(b) <= TxEnd(d)
      BY <2>12
    <2> QED
      BY <2>7, <2>8, <2>9, <2>12, <2>13 DEF Reads, d
  <1> QED
    BY <1>6, <1>7

\* Update reads the blocks of an option.
LEMMA UpdateReads ==
    ASSUME NEW b, TxGood(b), b.sackEnabled, NEW list \in Seq(Block),
           b.first \notin SackedIn(b.sent) \cup Bytes(ToSet(list))
    PROVE  Reads(b, Update(b, list), Bytes(ToSet(list)))
  <1> DEFINE N == Len(list)
             B == Bytes(ToSet(list))
             F(g) == [i \in 0..N |-> IF i = 0 THEN b ELSE SackedBlock(g[i - 1], list[i])]
             f == CHOOSE g : g = F(g)
             c == f[N]
             a == Asserted(c, c.highest # 0)
             d == IF c.sackedOut = b.sackedOut THEN c ELSE UpdateLostCount(a)
             e == Asserted(d, d.sent # <<>> /\ ~d.sent[1].sacked)
  <1>1. Update(b, list) = CountsFit(e)
    BY DEF Update
  <1>2. N \in Nat /\ \A i \in 1..N : list[i] \in Block /\ Bytes({list[i]}) \subseteq B
    <2>1. N \in Nat
      OBVIOUS
    <2>2. ASSUME NEW i \in 1..N PROVE list[i] \in Block /\ Bytes({list[i]}) \subseteq B
      <3>1. list[i] \in Block /\ list[i] \in ToSet(list)
        BY DEF ToSet
      <3> QED
        BY <3>1 DEF Bytes
    <2> QED
      BY <2>1, <2>2
  <1> HIDE DEF N, B
  <1>3. f = F(f)
    <2>1. PICK g : Turns(g, b, N, TRUE, list, 0)
      BY <1>2, TurnsExist
    <2>2. g = F(g)
      BY <2>1 DEF Turns, Turn
    <2> HIDE DEF F
    <2> QED
      BY <2>2
  <1> HIDE DEF f
  <1>4. f[0] = b /\ \A i \in 1..N : f[i] = SackedBlock(f[i - 1], list[i])
    <2>1. \A i \in 0..N : f[i] = IF i = 0 THEN b ELSE SackedBlock(f[i - 1], list[i])
      BY <1>3
    <2>2. 0 \in 0..N /\ \A i \in 1..N : i \in 0..N /\ i # 0
      BY <1>2
    <2> QED
      BY <2>1, <2>2
  <1>5. \A i \in 0..N : Reads(b, f[i], B)
    <2> DEFINE S == {i \in Nat : i <= N => Reads(b, f[i], B)}
    <2>1. 0 \in S
      <3>1. Reads(b, b, B)
        BY GrowsItself, GrowsReads
      <3> QED
        BY <1>4, <3>1
    <2>2. ASSUME NEW i \in S PROVE i + 1 \in S
      <3> SUFFICES ASSUME i + 1 <= N PROVE Reads(b, f[i + 1], B)
        OBVIOUS
      <3>1. i + 1 \in 1..N /\ (i + 1) - 1 = i /\ i <= N
        BY <1>2
      <3>2. Reads(b, f[i], B)
        BY <3>1
      <3>3. f[i + 1] = SackedBlock(f[i], list[i + 1])
        BY <1>4, <3>1
      <3>4. TxGood(f[i]) /\ f[i].sackEnabled /\ f[i].first \notin SackedIn(f[i].sent) \cup B
        BY <3>2 DEF Reads, B
      <3>5. Reads(f[i], SackedBlock(f[i], list[i + 1]), B)
        BY <1>2, <3>1, <3>4, SackedBlockReads
      <3> QED
        BY <3>2, <3>3, <3>5, ReadsOn
    <2> HIDE DEF S
    <2>3. S \in SUBSET Nat
      BY DEF S
    <2>4. S = Nat
      BY <2>1, <2>2, <2>3, Induct
    <2> QED
      BY <1>2, <2>4 DEF S
  <1>6. Reads(b, c, B) /\ TxGood(c) /\ c.sackEnabled
    <2>1. N \in 0..N
      BY <1>2
    <2> QED
      BY <1>5, <2>1 DEF Reads
  <1> HIDE DEF c
  <1>7. Grows(c, d)
    <2>1. Grows(c, a) /\ TxGood(a)
      BY <1>6, AssertedGrows DEF Grows
    <2> HIDE DEF a
    <2>2. Grows(c, UpdateLostCount(a))
      BY <1>6, <2>1, UpdateLostCountGrows, GrowsOn
    <2>3. Grows(c, c)
      BY <1>6, GrowsItself
    <2> QED
      BY <2>2, <2>3
  <1> HIDE DEF d
  <1>8. TxGood(d)
    BY <1>7 DEF Grows
  <1>9. Grows(d, e) /\ TxGood(e)
    BY <1>8, AssertedGrows DEF Grows
  <1> HIDE DEF e
  <1>10. Grows(e, CountsFit(e))
    BY <1>9, AssertedGrows DEF CountsFit
  <1>11. Grows(c, e)
    BY <1>6, <1>7, <1>9, GrowsOn
  <1>12. Grows(c, CountsFit(e))
    BY <1>6, <1>10, <1>11, GrowsOn
  <1>13. Reads(c, CountsFit(e), B)
    BY <1>6, <1>12, GrowsReads
  <1> QED
    BY <1>1, <1>6, <1>13, ReadsOn DEF B

-----------------------------------------------------------------------------
(* What is acknowledged leaves *)

\* From b to c what is before the first byte of c, at most seq, leaves.
Dropped(b, c, seq) ==
    /\ TxRow(c) /\ c.sackEnabled = b.sackEnabled
    /\ b.first <= c.first /\ c.first <= seq /\ TxEnd(c) = TxEnd(b)
    /\ SackedIn(c.sent) = {y \in SackedIn(b.sent) : y >= c.first}

\* No byte before the first of the buffer is sacked in it.
LEMMA SackedInFacts ==
    ASSUME NEW b, TxRow(b), NEW y \in SackedIn(b.sent)
    PROVE  y \in Nat /\ y >= b.first
  <1>1. b.first \in Nat /\ Row(b.sent, b.first)
    BY DEF TxRow
  <1>2. PICK i \in 1..Len(b.sent) : b.sent[i].startSeq <= y
    BY DEF SackedIn
  <1>3. b.first <= b.sent[i].startSeq /\ b.sent[i].startSeq \in Nat
    BY <1>1, RowFacts
  <1>4. y \in Nat
    BY DEF SackedIn
  <1> QED
    BY <1>1, <1>2, <1>3, <1>4

\* Nothing leaves.
LEMMA DroppedItself ==
    ASSUME NEW b, TxRow(b), NEW seq, b.first <= seq
    PROVE  Dropped(b, b, seq)
  <1>1. \A y \in SackedIn(b.sent) : y >= b.first
    BY SackedInFacts
  <1>2. b.first <= b.first
    BY DEF TxRow
  <1> QED
    BY <1>1, <1>2 DEF Dropped

\* What leaves in two steps.
LEMMA DroppedOn ==
    ASSUME NEW a, NEW b, NEW c, NEW seq \in Nat, TxRow(a), Dropped(a, b, seq), Dropped(b, c, seq)
    PROVE  Dropped(a, c, seq)
  <1>1. a.first \in Nat /\ b.first \in Nat /\ c.first \in Nat
    BY TxRowFacts DEF Dropped
  <1>2. a.first <= c.first
    BY <1>1 DEF Dropped
  <1>3. \A y \in SackedIn(a.sent) : y >= c.first => y >= b.first
    <2>1. \A y \in SackedIn(a.sent) : y \in Nat
      BY DEF SackedIn
    <2> QED
      BY <1>1, <2>1 DEF Dropped
  <1>4. SackedIn(c.sent) = {y \in SackedIn(a.sent) : y >= c.first}
    BY <1>3 DEF Dropped
  <1> QED
    BY <1>2, <1>4 DEF Dropped

\* The head leaves, or what of it is before seq.
LEMMA DiscardHeadDrops ==
    ASSUME NEW b, TxRow(b), NEW seq \in Nat, b.first <= seq, b.sent # <<>>
    PROVE  LET c == DiscardHead(b, seq)
           IN  /\ Dropped(b, c, seq)
               /\ c.first = seq \/ Len(c.sent) = Len(b.sent) - 1
  <1> DEFINE e == b.sent[1]
             n == Min({e.size, seq - b.first})
             a == RemoveFromCounts(Asserted(b, e.startSeq = b.first), e, n)
             c == DiscardHead(b, seq)
  <1>1. /\ b.first \in Nat /\ Row(b.sent, b.first) /\ DOMAIN b = Fields
        /\ b.sent \in [1..Len(b.sent) -> TxItem] /\ Len(b.sent) \in Nat
    BY TxRowFacts DEF TxRow
  <1>2. 1 \in 1..Len(b.sent)
    BY <1>1 DEF Row
  <1>3. /\ e \in TxItem /\ e.startSeq = b.first /\ e.size \in Nat \ {0}
        /\ Stop(e) = b.first + e.size /\ b.sent \in Seq(TxItem)
    <2>1. e \in TxItem /\ e.size \in Nat \ {0} /\ e.startSeq = b.first /\ b.sent \in Seq(TxItem)
      BY <1>1, <1>2, RowFacts DEF Row
    <2> HIDE DEF e
    <2> QED
      BY <2>1 DEF Stop
  <1>4. CASE seq <= b.first
    <2>1. c = b /\ b.first = seq
      BY <1>1, <1>4 DEF DiscardHead
    <2> QED
      BY <2>1, DroppedItself
  <1>5. CASE ~ (seq <= b.first)
    <2>1. c = IF n = e.size
              THEN [a EXCEPT !.first = @ + n, !.sent = Tail(@), !.highest = Max({0, @ - 1})]
              ELSE [a EXCEPT !.first = @ + n, !.sent[1].startSeq = @ + n, !.sent[1].size = @ - n]
      BY <1>5 DEF DiscardHead
    <2>2. /\ DOMAIN a = Fields /\ a.first = b.first /\ a.sent = b.sent
          /\ a.unsent = b.unsent /\ a.sackEnabled = b.sackEnabled
      BY <1>1 DEF RemoveFromCounts, Asserted, Fields
    <2> HIDE DEF e, a, c
    <2>3. /\ n \in Nat \ {0} /\ n <= seq - b.first /\ n <= e.size
          /\ n = e.size \/ n = seq - b.first
      <3>1. seq - b.first \in Nat \ {0}
        BY <1>1, <1>5
      <3>2. n = IF e.size <= seq - b.first THEN e.size ELSE seq - b.first
        BY <1>3, <3>1, MinOfTwo
      <3> QED
        BY <1>3, <3>1, <3>2
    <2> HIDE DEF n
    <2>4. /\ b.first + n \in Nat \ {0} /\ b.first <= b.first + n /\ b.first + n <= seq
          /\ n = e.size \/ b.first + n = seq
      BY <1>1, <1>3, <2>3
    <2>5. b.unsent \in Nat /\ b.sackEnabled \in BOOLEAN
      BY DEF TxRow
    <2>6. CASE n = e.size
      <3>1. /\ DOMAIN c = Fields /\ c.first = b.first + n /\ c.sent = Tail(b.sent)
            /\ c.unsent = b.unsent /\ c.sackEnabled = b.sackEnabled
        BY <2>1, <2>2, <2>6 DEF Fields
      <3>2. c.first = Stop(e)
        BY <1>3, <2>6, <3>1
      <3>3. /\ Row(c.sent, c.first) /\ EndOf(c.sent, c.first) = EndOf(b.sent, b.first)
            /\ SackedIn(c.sent) = {y \in SackedIn(b.sent) : y >= c.first}
            /\ Len(c.sent) = Len(b.sent) - 1
        BY <1>1, <3>1, <3>2, RowTail DEF e
      <3>4. TxRow(c)
        BY <2>4, <2>5, <3>1, <3>3 DEF TxRow
      <3>5. Dropped(b, c, seq)
        BY <2>4, <3>1, <3>3, <3>4 DEF Dropped, TxEnd
      <3> QED
        BY <3>3, <3>5 DEF c
    <2>7. CASE n # e.size
      <3> DEFINE h == [[e EXCEPT !.startSeq = @ + n] EXCEPT !.size = @ - n]
      <3>1. /\ DOMAIN c = Fields /\ c.first = b.first + n
            /\ c.unsent = b.unsent /\ c.sackEnabled = b.sackEnabled
        BY <2>1, <2>2, <2>7 DEF Fields
      <3>2. c.sent = [b.sent EXCEPT ![1] = h]
        <4>1. c.sent = [[b.sent EXCEPT ![1].startSeq = @ + n] EXCEPT ![1].size = @ - n]
          BY <2>1, <2>2, <2>7 DEF Fields
        <4> QED
          BY <1>1, <1>2, <4>1 DEF e
      <3>3. h \in TxItem /\ h.startSeq = e.startSeq + n /\ h.size = e.size - n
            /\ h.sacked = e.sacked
        <4>1. e.startSeq + n \in Nat /\ e.size - n \in Nat \ {0}
          BY <1>1, <1>3, <2>3, <2>7
        <4> QED
          BY <1>3, <4>1 DEF TxItem
      <3> HIDE DEF h
      <3>4. /\ c.sent \in [1..Len(b.sent) -> TxItem] /\ c.sent[1] = h
            /\ \A i \in 2..Len(b.sent) : c.sent[i] = b.sent[i]
        BY <1>1, <1>2, <3>2, <3>3
      <3>5. n \in Nat /\ n < e.size
        BY <1>3, <2>3, <2>7
      <3>6. /\ Row(c.sent, b.first + n) /\ EndOf(c.sent, b.first + n) = EndOf(b.sent, b.first)
            /\ SackedIn(c.sent) = {y \in SackedIn(b.sent) : y >= b.first + n}
        <4>1. /\ c.sent[1].startSeq = b.sent[1].startSeq + n
              /\ c.sent[1].size = b.sent[1].size - n
              /\ c.sent[1].sacked = b.sent[1].sacked /\ n < b.sent[1].size
          BY <3>3, <3>4, <3>5 DEF e
        <4>2. Cropped(b.sent, n, c.sent)
          BY <3>4, <4>1 DEF Cropped
        <4> QED
          BY <1>1, <3>5, <4>1, <4>2, RowCut
      <3>7. TxRow(c)
        BY <2>4, <2>5, <3>1, <3>6 DEF TxRow
      <3>8. Dropped(b, c, seq)
        BY <2>4, <3>1, <3>6, <3>7 DEF Dropped, TxEnd
      <3> QED
        BY <2>4, <2>7, <3>1, <3>8 DEF c
    <2> QED
      BY <2>6, <2>7
  <1> QED
    BY <1>4, <1>5

\* All that is before seq leaves; nothing else changes.
LEMMA DiscardUpToDrops ==
    ASSUME NEW b, TxGood(b), NEW seq \in Nat, b.first <= seq, seq <= TxEnd(b),
           b.sackEnabled => seq \notin SackedIn(b.sent)
    PROVE  LET c == DiscardUpTo(b, seq)
           IN  /\ TxGood(c) /\ c.first = seq /\ c.sackEnabled = b.sackEnabled
               /\ TxEnd(b) <= TxEnd(c)
               /\ b.sackEnabled => SackedIn(c.sent) = {y \in SackedIn(b.sent) : y >= seq}
  <1> DEFINE N == Len(b.sent)
             F(g) == [i \in 0..N |-> IF i = 0 THEN b ELSE
                                     IF g[i - 1].sent = <<>> THEN g[i - 1]
                                     ELSE DiscardHead(g[i - 1], seq)]
             f == CHOOSE g : g = F(g)
             a == f[N]
             c == HeadUnsacked(a)
             d == IF c.highestSeq <= c.first THEN WithoutHighest(c) ELSE c
             e == Asserted(d, d.first = seq)
  <1>1. DiscardUpTo(b, seq) = IF b.first >= seq THEN b ELSE CountsFit(e)
    BY DEF DiscardUpTo
  <1>2. TxRow(b) /\ b.first \in Nat /\ N \in Nat /\ TxEnd(b) \in Nat
    BY TxRowFacts DEF TxGood
  <1> HIDE DEF N
  <1>3. CASE b.first >= seq
    <2>1. DiscardUpTo(b, seq) = b
      BY <1>1, <1>3
    <2>2. b.first = seq
      BY <1>2, <1>3
    <2>3. \A y \in SackedIn(b.sent) : y >= seq
      BY <1>2, <2>2, SackedInFacts
    <2>4. SackedIn(b.sent) = {y \in SackedIn(b.sent) : y >= seq}
      BY <2>3
    <2> QED
      BY <1>2, <2>2, <2>1, <2>4
  <1>4. CASE ~ (b.first >= seq)
    <2>1. f = F(f)
      <3>1. PICK g : Turns(g, b, N, FALSE, <<>>, seq)
        BY <1>2, TurnsExist
      <3>2. g = F(g)
        BY <3>1 DEF Turns, Turn
      <3> HIDE DEF F
      <3> QED
        BY <3>2
    <2> HIDE DEF f
    <2>2. f[0] = b /\ \A i \in 1..N : f[i] = IF f[i - 1].sent = <<>> THEN f[i - 1]
                                              ELSE DiscardHead(f[i - 1], seq)
      <3>1. \A i \in 0..N : f[i] = IF i = 0 THEN b ELSE
                                    IF f[i - 1].sent = <<>> THEN f[i - 1]
                                    ELSE DiscardHead(f[i - 1], seq)
        BY <2>1
      <3>2. 0 \in 0..N /\ \A i \in 1..N : i \in 0..N /\ i # 0
        BY <1>2
      <3> QED
        BY <3>1, <3>2
    <2> DEFINE Done(i) == /\ Dropped(b, f[i], seq)
                          /\ f[i].first = seq \/ Len(f[i].sent) <= N - i
               S == {i \in Nat : i <= N => Done(i)}
    <2>3. 0 \in S
      <3>1. Dropped(b, b, seq)
        BY <1>2, DroppedItself
      <3>2. Len(b.sent) <= N - 0
        BY <1>2 DEF N
      <3> QED
        BY <2>2, <3>1, <3>2
    <2>4. ASSUME NEW i \in S PROVE i + 1 \in S
      <3> SUFFICES ASSUME i + 1 <= N PROVE Done(i + 1)
        OBVIOUS
      <3>1. i \in Nat /\ i + 1 \in 1..N /\ (i + 1) - 1 = i /\ i <= N
        BY <1>2
      <3>2. Done(i)
        BY <3>1
      <3> HIDE DEF S
      <3>3. /\ TxRow(f[i]) /\ f[i].first <= seq /\ f[i].first \in Nat
            /\ Len(f[i].sent) \in Nat
        BY <3>2, TxRowFacts DEF Dropped
      <3>4. f[i + 1] = IF f[i].sent = <<>> THEN f[i] ELSE DiscardHead(f[i], seq)
        BY <2>2, <3>1
      <3>5. CASE f[i].sent = <<>>
        <4>1. Len(f[i].sent) = 0 /\ 0 <= N - (i + 1)
          BY <1>2, <3>1, <3>5
        <4> QED
          BY <3>2, <3>4, <3>5, <4>1
      <3>6. CASE f[i].sent # <<>>
        <4>1. /\ Dropped(f[i], f[i + 1], seq)
              /\ f[i + 1].first = seq \/ Len(f[i + 1].sent) = Len(f[i].sent) - 1
          BY <3>3, <3>4, <3>6, DiscardHeadDrops
        <4>2. Dropped(b, f[i + 1], seq)
          BY <1>2, <3>2, <4>1, DroppedOn
        <4>3. f[i].first = seq => f[i + 1].first = seq
          <5>1. f[i].first <= f[i + 1].first /\ f[i + 1].first <= seq /\ f[i + 1].first \in Nat
            BY <4>1, TxRowFacts DEF Dropped
          <5> QED
            BY <5>1
        <4>4. f[i + 1].first = seq \/ Len(f[i + 1].sent) <= N - (i + 1)
          <5> SUFFICES ASSUME f[i + 1].first # seq
                       PROVE  Len(f[i + 1].sent) <= N - (i + 1)
            OBVIOUS
          <5>1. Len(f[i + 1].sent) = Len(f[i].sent) - 1 /\ Len(f[i].sent) <= N - i
            BY <3>2, <4>1, <4>3
          <5> HIDE DEF Done
          <5>2. \A x, y \in Nat : x = y - 1 /\ y <= N - i => x <= N - (i + 1)
            BY <1>2, <3>1
          <5>3. Len(f[i + 1].sent) \in Nat
            BY <4>2, TxRowFacts DEF Dropped
          <5> QED
            BY <3>3, <5>1, <5>2, <5>3
        <4> QED
          BY <4>2, <4>4
      <3> QED
        BY <3>5, <3>6
    <2>5. Done(N)
      <3> HIDE DEF Done
      <3>1. S \in SUBSET Nat
        OBVIOUS
      <3>2. S = Nat
        <4> HIDE DEF S
        <4> QED
          BY <2>3, <2>4, <3>1, Induct
      <3> QED
        BY <1>2, <3>2
    <2>6. Dropped(b, a, seq) /\ (a.first = seq \/ Len(a.sent) <= 0)
      BY <1>2, <2>5
    <2> HIDE DEF a, Done
    <2>7. a.first = seq
      <3>1. TxRow(a) /\ a.first <= seq /\ TxEnd(a) = TxEnd(b) /\ a.first \in Nat
            /\ Len(a.sent) \in Nat
        BY <2>6, TxRowFacts DEF Dropped
      <3>2. CASE Len(a.sent) <= 0
        <4>1. a.sent = <<>>
          BY <3>1, <3>2 DEF TxRow, Row
        <4>2. a.first = TxEnd(a)
          BY <4>1 DEF TxEnd, EndOf
        <4> QED
          BY <1>2, <3>1, <4>2
      <3> QED
        BY <2>6, <3>2
    <2>8. SackedIn(a.sent) = {y \in SackedIn(b.sent) : y >= seq}
      BY <2>6, <2>7 DEF Dropped
    <2>9. TxGood(a) /\ TxEnd(a) = TxEnd(b) /\ a.sackEnabled = b.sackEnabled
      BY <2>6, <2>7, <2>8 DEF Dropped, TxGood
    <2>10. Grows(a, c) /\ TxGood(c) /\ DOMAIN c = Fields
      BY <2>9, HeadUnsackedGrows DEF Grows, TxGood, TxRow
    <2> HIDE DEF c
    <2>11. Grows(c, d)
      <3>1. Grows(c, WithoutHighest(c))
        <4> DEFINE w == WithoutHighest(c)
        <4>1. /\ DOMAIN w = Fields /\ w.first = c.first /\ w.sent = c.sent
              /\ w.unsent = c.unsent /\ w.sackEnabled = c.sackEnabled
          BY <2>10 DEF WithoutHighest, Fields
        <4> HIDE DEF w
        <4>2. Grows(c, w)
          BY <2>10, <4>1, OtherFields
        <4> QED
          BY <4>2 DEF w
      <3> QED
        BY <2>10, <3>1, GrowsItself
    <2> HIDE DEF d
    <2>12. Grows(d, e) /\ TxGood(d) /\ TxGood(e)
      BY <2>11, AssertedGrows DEF Grows
    <2> HIDE DEF e
    <2>13. Grows(e, CountsFit(e))
      BY <2>12, AssertedGrows DEF CountsFit
    <2>14. Grows(a, d)
      BY <2>9, <2>10, <2>11, GrowsOn
    <2>15. Grows(a, e)
      BY <2>9, <2>12, <2>14, GrowsOn
    <2>16. Grows(a, CountsFit(e))
      BY <2>9, <2>13, <2>15, GrowsOn
    <2>17. DiscardUpTo(b, seq) = CountsFit(e)
      BY <1>1, <1>4
    <2> QED
      BY <2>7, <2>8, <2>9, <2>16, <2>17 DEF Grows
  <1> QED
    BY <1>3, <1>4

-----------------------------------------------------------------------------
(* The handlers of the sender *)

\* The segments that end by the last byte sent.
SentBlocks(b) == {e \in Block : e[2] <= TxEnd(b)}

\* The state that the handlers of the sender hand on.
SenderGood(s) ==
    /\ DOMAIN s = {"tx", "cong", "retxEvent", "out"}
    /\ TxGood(s.tx)
    /\ s.out \in Seq(SentBlocks(s.tx))

\* What a handler may do, from s to t, except to read an ACK.
Evolves(s, t) == SenderGood(t) /\ Grows(s.tx, t.tx)

\* A handler may do nothing.
LEMMA EvolvesItself ==
    ASSUME NEW s, SenderGood(s)
    PROVE  Evolves(s, s)
  BY GrowsItself DEF Evolves, SenderGood

\* A handler may do several things.
LEMMA EvolvesOn ==
    ASSUME NEW r, NEW s, NEW t, SenderGood(r), Evolves(r, s), Evolves(s, t)
    PROVE  Evolves(r, t)
  BY GrowsOn DEF Evolves, SenderGood

\* What was within the stream that was sent stays within it.
LEMMA SentBlocksGrow ==
    ASSUME NEW b, NEW c, TxGood(b), TxGood(c), TxEnd(b) <= TxEnd(c)
    PROVE  Seq(SentBlocks(b)) \subseteq Seq(SentBlocks(c))
  <1>1. TxEnd(b) \in Nat /\ TxEnd(c) \in Nat
    BY TxRowFacts DEF TxGood
  <1>2. SentBlocks(b) \subseteq SentBlocks(c)
    <2> SUFFICES ASSUME NEW e \in Block, e[2] <= TxEnd(b) PROVE e[2] <= TxEnd(c)
      BY DEF SentBlocks
    <2>1. e[2] \in Nat
      BY DEF Block
    <2> QED
      BY <1>1, <2>1
  <1> SUFFICES ASSUME NEW q \in Seq(SentBlocks(b)) PROVE q \in Seq(SentBlocks(c))
    OBVIOUS
  <1>3. Len(q) \in Nat /\ q \in [1..Len(q) -> SentBlocks(b)]
    BY LenProperties
  <1>4. q \in [1..Len(q) -> SentBlocks(c)]
    BY <1>2, <1>3
  <1> QED
    BY <1>3, <1>4, AsSequence

\* A handler that sends nothing.
LEMMA Silent ==
    ASSUME NEW s, SenderGood(s), NEW t, DOMAIN t = DOMAIN s, t.out = s.out, Grows(s.tx, t.tx)
    PROVE  Evolves(s, t)
  <1>1. TxGood(t.tx) /\ TxEnd(s.tx) <= TxEnd(t.tx)
    BY DEF Grows
  <1>2. t.out \in Seq(SentBlocks(t.tx))
    BY <1>1, SentBlocksGrow DEF SenderGood
  <1> QED
    BY <1>1, <1>2 DEF Evolves, SenderGood

\* A handler that leaves the buffer alone.
LEMMA SameBuffer ==
    ASSUME NEW s, SenderGood(s), NEW t, DOMAIN t = DOMAIN s, t.out = s.out, t.tx = s.tx
    PROVE  Evolves(s, t)
  BY Silent, GrowsItself DEF SenderGood

\* A handler that changes the buffer.
LEMMA MarkedEvolves ==
    ASSUME NEW s, SenderGood(s), NEW b, Grows(s.tx, b)
    PROVE  Evolves(s, Marked(s, b)) /\ Marked(s, b).tx = b
  <1> DEFINE t == Marked(s, b)
  <1>1. DOMAIN t = DOMAIN s /\ t.out = s.out /\ t.tx = b
    BY DEF Marked, SenderGood
  <1> HIDE DEF t
  <1>2. Evolves(s, t)
    BY <1>1, Silent
  <1> QED
    BY <1>1, <1>2 DEF t

\* A handler that asserts something.
LEMMA ExpectEvolves ==
    ASSUME NEW s, SenderGood(s), NEW holds
    PROVE  Evolves(s, Expect(s, holds)) /\ Expect(s, holds).tx.sent = s.tx.sent
  <1> DEFINE t == Expect(s, holds)
  <1>1. DOMAIN t = DOMAIN s /\ t.out = s.out /\ t.tx = Asserted(s.tx, holds)
    BY DEF Expect, SenderGood
  <1>2. Grows(s.tx, Asserted(s.tx, holds)) /\ Asserted(s.tx, holds).sent = s.tx.sent
    BY AssertedGrows DEF SenderGood
  <1> HIDE DEF t
  <1>3. Evolves(s, t)
    BY <1>1, <1>2, Silent
  <1> QED
    BY <1>1, <1>2, <1>3 DEF t

\* SendDataPacket sends what was taken from the buffer.
LEMMA SendDataPacketEvolves ==
    ASSUME NEW s, SenderGood(s), NEW seq, Ready(s.tx, seq), NEW n \in Nat \ {0}
    PROVE  Evolves(s, SendDataPacket(s, seq, n))
  <1> DEFINE got == CopyFromSequence(s.tx, n, seq)
             item == got.buffer.sent[got.item]
             p == <<item.startSeq, item.startSeq + item.size>>
             t == SendDataPacket(s, seq, n)
  <1>1. TxGood(s.tx) /\ DOMAIN s = {"tx", "cong", "retxEvent", "out"}
    BY DEF SenderGood
  <1>2. /\ Grows(s.tx, got.buffer)
        /\ got.item # 0 => got.item \in 1..Len(got.buffer.sent)
    BY <1>1, CopyFromSequenceGrows
  <1>3. t = IF got.item = 0 THEN Marked(s, got.buffer)
            ELSE [s EXCEPT !.tx = got.buffer, !.retxEvent = TRUE, !.out = Append(@, p)]
    BY DEF SendDataPacket
  <1> HIDE DEF got, t
  <1>4. CASE got.item = 0
    BY <1>2, <1>3, <1>4, MarkedEvolves DEF t
  <1>5. CASE got.item # 0
    <2>1. TxGood(got.buffer) /\ TxEnd(s.tx) <= TxEnd(got.buffer)
      BY <1>2 DEF Grows
    <2>2. /\ item.startSeq \in Nat /\ item.size \in Nat \ {0}
          /\ got.buffer.first <= item.startSeq /\ Stop(item) <= TxEnd(got.buffer)
      BY <1>2, <1>5, <2>1, ItemFacts
    <2>3. got.buffer.first \in Nat \ {0}
      BY <2>1 DEF TxGood, TxRow
    <2> HIDE DEF item
    <2>4. p \in SentBlocks(got.buffer)
      BY <2>2, <2>3 DEF SentBlocks, Block, Stop
    <2> HIDE DEF p
    <2>5. s.out \in Seq(SentBlocks(got.buffer))
      BY <1>1, <2>1, SentBlocksGrow DEF SenderGood
    <2>6. t.tx = got.buffer /\ t.out = Append(s.out, p) /\ DOMAIN t = DOMAIN s
      BY <1>1, <1>3, <1>5
    <2>7. t.out \in Seq(SentBlocks(got.buffer))
      BY <2>4, <2>5, <2>6, AppendProperties
    <2> QED
      BY <1>1, <1>2, <2>1, <2>6, <2>7 DEF Evolves, SenderGood, t
  <1> QED
    BY <1>4, <1>5

\* A turn of the loop of SendPendingData.
LEMMA SendOneEvolves ==
    ASSUME NEW s, SenderGood(s)
    PROVE  Evolves(s, SendOne(s))
  <1> DEFINE isRecovery == s.tx.sackEnabled /\ s.cong.state = "CA_RECOVERY"
             next == NextSeg(s.tx, isRecovery)
  <1>1. isRecovery \in BOOLEAN /\ TxGood(s.tx)
    BY DEF SenderGood
  <1>2. SendOne(s) = IF next = 0 THEN s ELSE SendDataPacket(s, next, SegmentSize)
    BY DEF SendOne
  <1> HIDE DEF isRecovery
  <1>3. next # 0 => Ready(s.tx, next)
    BY <1>1, NextSegReady
  <1> HIDE DEF next
  <1>4. next # 0 => Evolves(s, SendDataPacket(s, next, SegmentSize))
    BY <1>3, SendDataPacketEvolves, TxAssumption
  <1> QED
    BY <1>2, <1>4, EvolvesItself

\* DoRetransmit.
LEMMA DoRetransmitEvolves ==
    ASSUME NEW s, SenderGood(s)
    PROVE  Evolves(s, DoRetransmit(s))
  <1> DEFINE next == NextSeg(s.tx, FALSE)
             seq == IF next = 0 THEN s.tx.first ELSE next
             t == Expect(s, s.tx.sackEnabled \/ seq = s.tx.first)
  <1>1. DoRetransmit(s) = SendDataPacket(t, seq, SegmentSize)
    BY DEF DoRetransmit
  <1>2. TxGood(s.tx)
    BY DEF SenderGood
  <1>3. Ready(s.tx, seq)
    <2>1. next # 0 => Ready(s.tx, next)
      BY <1>2, NextSegReady
    <2> HIDE DEF next
    <2> QED
      BY <1>2, <2>1, FirstReady
  <1>4. Evolves(s, t) /\ t.tx.sent = s.tx.sent
    BY ExpectEvolves
  <1> HIDE DEF t, seq
  <1>5. SenderGood(t) /\ t.tx.first = s.tx.first /\ t.tx.sackEnabled = s.tx.sackEnabled
    BY <1>4 DEF Evolves, Grows
  <1>6. Ready(t.tx, seq)
    BY <1>3, <1>4, <1>5 DEF Ready, TxEnd
  <1>7. Evolves(t, SendDataPacket(t, seq, SegmentSize))
    BY <1>5, <1>6, SendDataPacketEvolves, TxAssumption
  <1> QED
    BY <1>1, <1>4, <1>7, EvolvesOn

\* EnterRecovery.
LEMMA EnterRecoveryEvolves ==
    ASSUME NEW s, SenderGood(s)
    PROVE  Evolves(s, EnterRecovery(s))
  <1> DEFINE marked == IF ~s.tx.sackEnabled THEN MarkHeadAsLost(AddRenoSack(s.tx))
                       ELSE IF IsLost(s.tx, s.tx.first) THEN s.tx
                       ELSE MarkHeadAsLost(s.tx)
             t == [s EXCEPT !.tx = marked, !.cong.state = "CA_RECOVERY",
                            !.cong.recover = SentEnd(s.tx), !.cong.active = TRUE]
  <1>1. EnterRecovery(s) = DoRetransmit(t)
    BY DEF EnterRecovery
  <1>2. TxGood(s.tx) /\ DOMAIN s = {"tx", "cong", "retxEvent", "out"}
    BY DEF SenderGood
  <1>3. Grows(s.tx, marked)
    <2>1. CASE ~ s.tx.sackEnabled
      <3>1. Grows(s.tx, AddRenoSack(s.tx))
        BY <1>2, <2>1, AddRenoSackGrows
      <3>2. Grows(AddRenoSack(s.tx), MarkHeadAsLost(AddRenoSack(s.tx)))
        BY <3>1, MarkHeadAsLostGrows DEF Grows
      <3>3. Grows(s.tx, MarkHeadAsLost(AddRenoSack(s.tx)))
        BY <1>2, <3>1, <3>2, GrowsOn
      <3> QED
        BY <2>1, <3>3
    <2>2. CASE s.tx.sackEnabled
      <3>1. Grows(s.tx, s.tx) /\ Grows(s.tx, MarkHeadAsLost(s.tx))
        BY <1>2, GrowsItself, MarkHeadAsLostGrows
      <3> QED
        BY <2>2, <3>1
    <2> QED
      BY <2>1, <2>2
  <1> HIDE DEF marked
  <1>4. DOMAIN t = DOMAIN s /\ t.out = s.out /\ t.tx = marked
    BY <1>2
  <1> HIDE DEF t
  <1>5. Evolves(s, t)
    BY <1>3, <1>4, Silent
  <1>6. Evolves(t, DoRetransmit(t))
    BY <1>5, DoRetransmitEvolves DEF Evolves
  <1> QED
    BY <1>1, <1>5, <1>6, EvolvesOn

\* A sender without SACK counts a duplicate ACK.
LEMMA AddRenoSackEvolves ==
    ASSUME NEW s, SenderGood(s), ~ s.tx.sackEnabled
    PROVE  Evolves(s, Marked(s, AddRenoSack(s.tx)))
  <1>1. Grows(s.tx, AddRenoSack(s.tx))
    BY AddRenoSackGrows DEF SenderGood
  <1> QED
    BY <1>1, MarkedEvolves

\* DupAck.
LEMMA DupAckEvolves ==
    ASSUME NEW s, SenderGood(s)
    PROVE  Evolves(s, DupAck(s))
  <1> DEFINE count == s.cong.dupAckCount + 1
             r == [s EXCEPT !.cong.dupAckCount = count, !.cong.state = "CA_DISORDER"]
             c == Expect(r, /\ s.cong.state = "CA_OPEN" => count = 1
                            /\ count <= DupThresh \/ s.cong.active)
             lost == \/ /\ count = DupThresh
                        /\ s.tx.first >= s.cong.recover \/ ~s.cong.active
                     \/ IsLost(s.tx, s.tx.first + SegmentSize)
  <1>1. Evolves(s, r)
    <2>1. DOMAIN r = DOMAIN s /\ r.out = s.out /\ r.tx = s.tx
      BY DEF SenderGood
    <2> HIDE DEF r
    <2> QED
      BY <2>1, SameBuffer
  <1>2. Evolves(s, c) /\ SenderGood(c) /\ c.tx.sackEnabled = s.tx.sackEnabled
    <2> HIDE DEF r
    <2>1. Evolves(r, c)
      BY <1>1, ExpectEvolves DEF Evolves
    <2> HIDE DEF c
    <2>2. Evolves(s, c)
      BY <1>1, <2>1, EvolvesOn
    <2> QED
      BY <2>2 DEF Evolves, Grows
  <1>3. DupAck(s) =
          CASE s.cong.state = "CA_LOSS" -> s
            [] s.cong.state = "CA_RECOVERY" ->
                  IF s.tx.sackEnabled THEN s ELSE Marked(s, AddRenoSack(s.tx))
            [] OTHER ->
                  IF lost THEN EnterRecovery(c)
                  ELSE IF s.tx.sackEnabled \/ ~LimitedTx THEN c
                  ELSE Marked(c, AddRenoSack(c.tx))
    BY DEF DupAck
  <1> HIDE DEF c, lost
  <1>4. Evolves(s, s)
    BY EvolvesItself
  <1>5. ~ s.tx.sackEnabled => Evolves(s, Marked(s, AddRenoSack(s.tx)))
    BY AddRenoSackEvolves
  <1>6. Evolves(s, EnterRecovery(c))
    BY <1>2, EnterRecoveryEvolves, EvolvesOn
  <1>7. ~ s.tx.sackEnabled => Evolves(s, Marked(c, AddRenoSack(c.tx)))
    BY <1>2, AddRenoSackEvolves, EvolvesOn
  <1> QED
    BY <1>2, <1>3, <1>4, <1>5, <1>6, <1>7

\* NewAck.
LEMMA NewAckEvolves ==
    ASSUME NEW s, SenderGood(s)
    PROVE  Evolves(s, NewAck(s))
  <1>1. DOMAIN NewAck(s) = DOMAIN s /\ NewAck(s).out = s.out /\ NewAck(s).tx = s.tx
    BY DEF NewAck, SenderGood
  <1> QED
    BY <1>1, SameBuffer

\* The part of ProcessAck for a partial ACK.
LEMMA PartialAckEvolves ==
    ASSUME NEW s, SenderGood(s), NEW ack
    PROVE  Evolves(s, PartialAck(s, ack))
  <1> DEFINE c == IF s.tx.sackEnabled THEN s ELSE Marked(s, MarkHeadAsLost(s.tx))
  <1>1. PartialAck(s, ack) =
          IF IsRetransmittedDataAcked(c.tx, ack + SegmentSize) THEN c ELSE DoRetransmit(c)
    BY DEF PartialAck
  <1>2. Evolves(s, c)
    <2>1. Grows(s.tx, MarkHeadAsLost(s.tx))
      BY MarkHeadAsLostGrows DEF SenderGood
    <2>2. Evolves(s, Marked(s, MarkHeadAsLost(s.tx)))
      BY <2>1, MarkedEvolves
    <2> QED
      BY <2>2, EvolvesItself
  <1> HIDE DEF c
  <1>3. Evolves(c, DoRetransmit(c))
    BY <1>2, DoRetransmitEvolves DEF Evolves
  <1>4. Evolves(s, DoRetransmit(c))
    BY <1>2, <1>3, EvolvesOn
  <1> QED
    BY <1>1, <1>2, <1>4

\* The part of ProcessAck for an ACK outside of, or beyond, the recovery.
LEMMA FullAckEvolves ==
    ASSUME NEW s, SenderGood(s), NEW ack, NEW isDupack
    PROVE  Evolves(s, FullAck(s, ack, isDupack))
  <1> DEFINE stays == s.cong.state = "CA_DISORDER" /\ isDupack
             c == [s EXCEPT !.cong.state = IF stays THEN @ ELSE "CA_OPEN",
                            !.cong.dupAckCount = IF s.cong.state = "CA_RECOVERY" THEN 0 ELSE @,
                            !.cong.active = @ /\ ack < s.cong.recover]
  <1>1. FullAck(s, ack, isDupack) = IF stays THEN c ELSE NewAck(c)
    BY DEF FullAck
  <1> HIDE DEF stays
  <1>2. DOMAIN c = DOMAIN s /\ c.out = s.out /\ c.tx = s.tx
    BY DEF SenderGood
  <1> HIDE DEF c
  <1>3. Evolves(s, c)
    BY <1>2, SameBuffer
  <1>4. Evolves(c, NewAck(c))
    BY <1>3, NewAckEvolves DEF Evolves
  <1>5. Evolves(s, NewAck(c))
    BY <1>3, <1>4, EvolvesOn
  <1> QED
    BY <1>1, <1>3, <1>5

\* ProcessAck, when the buffer has been updated.
LEMMA ProcessAckEvolves ==
    ASSUME NEW s, SenderGood(s), NEW ack, NEW old, NEW updated
    PROVE  Evolves(s, ProcessAck(s, ack, old, updated))
  <1> DEFINE isDupack == IF s.tx.sackEnabled THEN updated ELSE ack = old /\ ack < SentEnd(s.tx)
             d == IF isDupack THEN DupAck(s) ELSE s
             h == [d EXCEPT !.cong.dupAckCount = 0]
             c == IF isDupack THEN d ELSE h
             x == Expect(c, c.tx.sackEnabled \/ c.tx.sackedOut = 0)
  <1>1. ProcessAck(s, ack, old, updated) =
          CASE ack = old -> d
            [] ack > old /\ ack < c.cong.recover /\ c.cong.state = "CA_RECOVERY" ->
                  PartialAck(c, ack)
            [] ack > old /\ ack < c.cong.recover /\ c.cong.state = "CA_LOSS" -> NewAck(x)
            [] OTHER -> FullAck(c, ack, isDupack)
    BY DEF ProcessAck
  <1> HIDE DEF isDupack
  <1>2. Evolves(s, d)
    BY DupAckEvolves, EvolvesItself
  <1> HIDE DEF d
  <1>3. Evolves(d, h)
    <2>1. SenderGood(d)
      BY <1>2 DEF Evolves
    <2>2. DOMAIN h = DOMAIN d /\ h.out = d.out /\ h.tx = d.tx
      BY <2>1 DEF SenderGood
    <2> HIDE DEF h
    <2> QED
      BY <2>1, <2>2, SameBuffer
  <1> HIDE DEF h
  <1>4. Evolves(s, c) /\ SenderGood(c)
    <2>1. Evolves(s, h)
      BY <1>2, <1>3, EvolvesOn
    <2> QED
      BY <1>2, <2>1 DEF Evolves
  <1> HIDE DEF c
  <1>5. Evolves(s, PartialAck(c, ack)) /\ Evolves(s, FullAck(c, ack, isDupack))
    BY <1>4, PartialAckEvolves, FullAckEvolves, EvolvesOn
  <1>6. Evolves(s, x) /\ SenderGood(x)
    <2>1. Evolves(c, x)
      BY <1>4, ExpectEvolves
    <2> HIDE DEF x
    <2> QED
      BY <1>4, <2>1, EvolvesOn DEF Evolves
  <1> HIDE DEF x
  <1>7. Evolves(s, NewAck(x))
    BY <1>6, NewAckEvolves, EvolvesOn
  <1> QED
    BY <1>1, <1>2, <1>5, <1>7

\* ReTxTimeout.
LEMMA ReTxTimeoutEvolves ==
    ASSUME NEW s, SenderGood(s)
    PROVE  Evolves(s, ReTxTimeout(s))
  <1> DEFINE lost == SetSentListLost(s.tx, ~s.tx.sackEnabled)
             a == Asserted(lost, BytesInFlight(lost) = 0)
             t == [s EXCEPT !.tx = a,
                            !.retxEvent = FALSE,
                            !.cong = [state |-> "CA_LOSS", dupAckCount |-> 0,
                                      recover |-> SentEnd(s.tx), active |-> TRUE]]
  <1>1. ReTxTimeout(s) = SendOne(t)
    BY DEF ReTxTimeout
  <1>2. TxGood(s.tx) /\ DOMAIN s = {"tx", "cong", "retxEvent", "out"}
    BY DEF SenderGood
  <1>3. Grows(s.tx, lost) /\ TxGood(lost)
    BY <1>2, SetSentListLostGrows DEF Grows
  <1> HIDE DEF lost
  <1>4. Grows(lost, a)
    BY <1>3, AssertedGrows
  <1> HIDE DEF a
  <1>5. Grows(s.tx, a)
    BY <1>2, <1>3, <1>4, GrowsOn
  <1>6. DOMAIN t = DOMAIN s /\ t.out = s.out /\ t.tx = a
    BY <1>2
  <1> HIDE DEF t
  <1>7. Evolves(s, t)
    BY <1>5, <1>6, Silent
  <1>8. Evolves(t, SendOne(t))
    BY <1>7, SendOneEvolves DEF Evolves
  <1> QED
    BY <1>1, <1>7, <1>8, EvolvesOn

\* What it does to the buffer to read an ACK of all before ack with blocks of bytes B.
AckTaken(b, c, ack, B) ==
    /\ TxGood(c) /\ c.sackEnabled = b.sackEnabled /\ TxEnd(b) <= TxEnd(c)
    /\ c.first \in {b.first, ack}
    /\ b.sackEnabled =>
         /\ SackedIn(c.sent) \subseteq SackedIn(b.sent) \cup B
         /\ \A y \in SackedIn(b.sent) : y < c.first \/ y \in SackedIn(c.sent)

\* ReceivedAck, when neither the first byte of the buffer nor the one that the ACK asks
\* for is sacked or reported.
LEMMA ReceivedAckTaken ==
    ASSUME NEW s, SenderGood(s), NEW m, m.ack \in Nat, m.ack <= TxEnd(s.tx),
           m.sack \in Seq(Block),
           s.tx.sackEnabled => /\ s.tx.first \notin SackedIn(s.tx.sent) \cup Bytes(ToSet(m.sack))
                               /\ m.ack \notin SackedIn(s.tx.sent) \cup Bytes(ToSet(m.sack))
    PROVE  LET t == ReceivedAck(s, m)
           IN  SenderGood(t) /\ AckTaken(s.tx, t.tx, m.ack, Bytes(ToSet(m.sack)))
  <1> DEFINE b == s.tx
             B == Bytes(ToSet(m.sack))
             read == IF b.sackEnabled /\ m.sack # <<>> THEN Update(b, m.sack) ELSE b
             updated == read.sackedOut > b.sackedOut
             c == DiscardUpTo(read, m.ack)
             h == Marked(s, c)
             t == ProcessAck(h, m.ack, b.first, updated)
  <1>1. ReceivedAck(s, m) = IF m.ack < b.first THEN s ELSE t
    BY DEF ReceivedAck
  <1>2. TxGood(b) /\ b.first \in Nat /\ TxEnd(b) \in Nat /\ b.sackEnabled \in BOOLEAN
        /\ DOMAIN s = {"tx", "cong", "retxEvent", "out"}
    BY TxRowFacts DEF SenderGood, TxGood, TxRow
  <1>3. b.sackEnabled => b.first \notin SackedIn(b.sent) \cup B /\ m.ack \notin SackedIn(b.sent) \cup B
    OBVIOUS
  <1> HIDE DEF B, updated
  <1>4. /\ TxGood(read) /\ read.first = b.first /\ read.sackEnabled = b.sackEnabled
        /\ TxEnd(b) <= TxEnd(read)
        /\ b.sackEnabled => /\ SackedIn(b.sent) \subseteq SackedIn(read.sent)
                            /\ SackedIn(read.sent) \subseteq SackedIn(b.sent) \cup B
    <2>1. CASE b.sackEnabled /\ m.sack # <<>>
      <3>1. Reads(b, Update(b, m.sack), B)
        BY <1>2, <1>3, <2>1, UpdateReads DEF B
      <3> QED
        BY <2>1, <3>1 DEF Reads
    <2>2. CASE ~ (b.sackEnabled /\ m.sack # <<>>)
      <3>1. read = b
        BY <2>2
      <3> HIDE DEF read, b
      <3> QED
        BY <1>2, <3>1
    <2> QED
      BY <2>1, <2>2
  <1> HIDE DEF read
  <1>5. CASE m.ack < b.first
    <2>1. \A y \in SackedIn(b.sent) : y \in SackedIn(b.sent)
      OBVIOUS
    <2>2. AckTaken(b, b, m.ack, B)
      BY <1>2, <2>1 DEF AckTaken
    <2> QED
      BY <1>1, <1>5, <2>2 DEF B
  <1>6. CASE ~ (m.ack < b.first)
    <2>1. read.first <= m.ack /\ m.ack <= TxEnd(read)
      <3>1. TxEnd(read) \in Nat
        BY <1>4, TxRowFacts DEF TxGood
      <3> HIDE DEF b
      <3> QED
        BY <1>2, <1>4, <1>6, <3>1 DEF b
    <2>2. read.sackEnabled => m.ack \notin SackedIn(read.sent)
      BY <1>3, <1>4
    <2>3. /\ TxGood(c) /\ c.first = m.ack /\ c.sackEnabled = b.sackEnabled
          /\ TxEnd(read) <= TxEnd(c)
          /\ b.sackEnabled => SackedIn(c.sent) = {y \in SackedIn(read.sent) : y >= m.ack}
      BY <1>4, <2>1, <2>2, DiscardUpToDrops
    <2> HIDE DEF c
    <2>4. TxEnd(read) \in Nat /\ TxEnd(c) \in Nat /\ TxEnd(b) <= TxEnd(c)
      <3>1. TxEnd(read) \in Nat /\ TxEnd(c) \in Nat
        BY <1>4, <2>3, TxRowFacts DEF TxGood
      <3> HIDE DEF b
      <3> QED
        BY <1>2, <1>4, <2>3, <3>1
    <2>5. SenderGood(h) /\ h.tx = c
      <3>1. DOMAIN h = DOMAIN s /\ h.tx = c /\ h.out = s.out
        BY <1>2 DEF Marked
      <3>2. s.out \in Seq(SentBlocks(c))
        BY <1>2, <2>3, <2>4, SentBlocksGrow DEF SenderGood
      <3> HIDE DEF h
      <3> QED
        BY <1>2, <2>3, <3>1, <3>2 DEF SenderGood
    <2> HIDE DEF h
    <2>6. Evolves(h, t)
      BY <2>5, ProcessAckEvolves
    <2> HIDE DEF t
    <2>7. /\ SenderGood(t) /\ TxGood(t.tx) /\ t.tx.first = m.ack
          /\ t.tx.sackEnabled = b.sackEnabled /\ TxEnd(c) <= TxEnd(t.tx)
          /\ b.sackEnabled => SackedIn(t.tx.sent) = {y \in SackedIn(read.sent) : y >= m.ack}
      BY <2>3, <2>5, <2>6 DEF Evolves, Grows
    <2>8. TxEnd(b) <= TxEnd(t.tx)
      <3>1. TxEnd(t.tx) \in Nat
        BY <2>7, TxRowFacts DEF TxGood
      <3> HIDE DEF b
      <3> QED
        BY <1>2, <2>4, <2>7, <3>1
    <2>9. ASSUME b.sackEnabled
          PROVE  /\ SackedIn(t.tx.sent) \subseteq SackedIn(b.sent) \cup B
                 /\ \A y \in SackedIn(b.sent) : y < m.ack \/ y \in SackedIn(t.tx.sent)
      <3>1. \A y \in SackedIn(b.sent) : y \in Nat
        BY DEF SackedIn
      <3>2. \A y \in SackedIn(b.sent) : y < m.ack \/ y >= m.ack
        BY <3>1
      <3> HIDE DEF b
      <3> QED
        BY <1>4, <2>7, <2>9, <3>2
    <2>10. AckTaken(b, t.tx, m.ack, B)
      BY <2>7, <2>8, <2>9 DEF AckTaken
    <2> QED
      BY <1>1, <1>6, <2>7, <2>10 DEF B
  <1> QED
    BY <1>5, <1>6

-----------------------------------------------------------------------------
(* The inductive invariant, of the buffers t and r of the sender and of the  *)
(* receiver, the segments S and the ACKs A on the way.                       *)

\* What the sender thinks received, or will when it reads an ACK.
Known(t, A) == SackedIn(t.sent) \cup UNION {Bytes(ToSet(m.sack)) : m \in A}

\* An ACK, perhaps an old one, of the receiver.
AckGood(r, m) == m.ack \in Nat /\ m.ack <= r.next /\ m.sack \in Seq(Block)

\* All of it was received, and neither the first byte of the buffer nor one that an
\* ACK asks for is of it.
Trusted(t, r, A) ==
    /\ Known(t, A) \subseteq Held(r)
    /\ t.first \notin Known(t, A)
    /\ \A m \in A : m.ack \notin Known(t, A)

\* What was received and what is on the way was sent, and ACKs tell what was received.
Sound(t, r, S, A) ==
    /\ TxGood(t) /\ RxGood(r)
    /\ UpTo(r, TxEnd(t)) /\ t.first <= r.next
    /\ S \subseteq SentBlocks(t)
    /\ \A m \in A : AckGood(r, m)
    /\ t.sackEnabled => Trusted(t, r, A)

\* The next byte of the receiver is missing.
LEMMA RxFacts ==
    ASSUME NEW r, RxGood(r)
    PROVE  /\ r.next \in Nat /\ 1 <= r.next
           /\ r.next \notin Held(r)
           /\ \A d \in r.data : d[1] \in Nat /\ d[2] \in Nat /\ d[1] > r.next
           /\ \A y \in Bytes(r.data) : y > r.next
  <1>1. /\ r.next \in Nat /\ 1 <= r.next /\ r.data \subseteq Block
        /\ \A d \in r.data : d[1] > r.next
    BY DEF RxGood, RxBuffer
  <1>2. \A d \in r.data : d[1] \in Nat /\ d[2] \in Nat /\ d[1] > r.next
    BY <1>1 DEF Block
  <1>3. \A y \in Bytes(r.data) : y > r.next
    <2> SUFFICES ASSUME NEW d \in r.data, NEW y \in d[1]..(d[2] - 1) PROVE y > r.next
      BY DEF Bytes
    <2> QED
      BY <1>1, <1>2
  <1>4. r.next \notin Held(r)
    <2>1. r.next \notin 1..(r.next - 1)
      BY <1>1
    <2>2. r.next \notin Bytes(r.data)
      BY <1>1, <1>3
    <2> QED
      BY <2>1, <2>2 DEF Held
  <1> QED
    BY <1>1, <1>2, <1>3, <1>4

\* What is up to a byte is up to each later one.
LEMMA UpToGrows ==
    ASSUME NEW r, RxGood(r), NEW m \in Nat, NEW n \in Nat, m <= n, UpTo(r, m)
    PROVE  UpTo(r, n)
  BY RxFacts DEF UpTo

\* The sender does not read an ACK.
LEMMA SoundWhenSent ==
    ASSUME NEW t, NEW r, NEW S, NEW A, Sound(t, r, S, A), NEW u, Grows(t, u),
           NEW S2, S2 \subseteq S \cup SentBlocks(u)
    PROVE  Sound(u, r, S2, A)
  <1>1. TxGood(t) /\ TxGood(u) /\ TxEnd(t) \in Nat /\ TxEnd(u) \in Nat /\ TxEnd(t) <= TxEnd(u)
    BY TxRowFacts DEF Sound, Grows, TxGood
  <1>2. UpTo(r, TxEnd(u))
    BY <1>1, UpToGrows DEF Sound
  <1>3. SentBlocks(t) \subseteq SentBlocks(u)
    <2> SUFFICES ASSUME NEW e \in Block, e[2] <= TxEnd(t) PROVE e[2] <= TxEnd(u)
      BY DEF SentBlocks
    <2>1. e[2] \in Nat
      BY DEF Block
    <2> QED
      BY <1>1, <2>1
  <1>4. u.sackEnabled => Trusted(u, r, A)
    BY DEF Sound, Grows, Trusted, Known
  <1> QED
    BY <1>1, <1>2, <1>3, <1>4 DEF Sound, Grows

\* The sender reads an ACK.
LEMMA SoundWhenAcked ==
    ASSUME NEW t, NEW r, NEW S, NEW A, Sound(t, r, S, A), NEW m \in A,
           NEW u, AckTaken(t, u, m.ack, Bytes(ToSet(m.sack))),
           NEW S2, S2 \subseteq S \cup SentBlocks(u), NEW A2, A2 \subseteq A
    PROVE  Sound(u, r, S2, A2)
  <1>1. TxGood(t) /\ TxGood(u) /\ TxEnd(t) \in Nat /\ TxEnd(u) \in Nat /\ TxEnd(t) <= TxEnd(u)
    BY TxRowFacts DEF Sound, AckTaken, TxGood
  <1>2. UpTo(r, TxEnd(u))
    BY <1>1, UpToGrows DEF Sound
  <1>3. SentBlocks(t) \subseteq SentBlocks(u)
    <2> SUFFICES ASSUME NEW e \in Block, e[2] <= TxEnd(t) PROVE e[2] <= TxEnd(u)
      BY DEF SentBlocks
    <2>1. e[2] \in Nat
      BY DEF Block
    <2> QED
      BY <1>1, <2>1
  <1>4. u.first \in {t.first, m.ack} /\ u.first <= r.next
    BY DEF Sound, AckTaken, AckGood
  <1>5. ASSUME u.sackEnabled PROVE Trusted(u, r, A2)
    <2>1. t.sackEnabled /\ SackedIn(u.sent) \subseteq SackedIn(t.sent) \cup Bytes(ToSet(m.sack))
      BY <1>5 DEF AckTaken
    <2>2. Known(u, A2) \subseteq Known(t, A)
      BY <2>1 DEF Known
    <2>3. Trusted(t, r, A)
      BY <2>1 DEF Sound
    <2> QED
      BY <1>4, <2>2, <2>3 DEF Trusted
  <1> QED
    BY <1>1, <1>2, <1>3, <1>4, <1>5 DEF Sound

\* A segment arrives.
LEMMA SoundWhenStored ==
    ASSUME NEW t, NEW r, NEW S, NEW A, Sound(t, r, S, A), NEW p \in S,
           NEW S2, S2 \subseteq S
    PROVE  Sound(t, Store(r, p), S2, A)
  <1> DEFINE n == Store(r, p)
  <1>1. p \in Block /\ p[2] <= TxEnd(t) /\ RxGood(r) /\ TxGood(t) /\ TxEnd(t) \in Nat
    BY TxRowFacts DEF Sound, SentBlocks, TxGood
  <1>2. /\ RxGood(n) /\ r.next <= n.next /\ Held(r) \subseteq Held(n)
        /\ UpTo(n, TxEnd(t))
    BY <1>1, StoreFacts DEF Sound
  <1> HIDE DEF n
  <1>3. r.next \in Nat /\ n.next \in Nat /\ t.first \in Nat
    BY <1>1, <1>2, RxFacts, TxRowFacts DEF TxGood
  <1>4. t.first <= n.next /\ \A m \in A : AckGood(n, m)
    <2>1. \A x \in Nat : x <= r.next => x <= n.next
      BY <1>2, <1>3
    <2> QED
      BY <1>3, <2>1 DEF Sound, AckGood
  <1>5. t.sackEnabled => Trusted(t, n, A)
    BY <1>2 DEF Sound, Trusted
  <1> QED
    BY <1>1, <1>2, <1>4, <1>5 DEF Sound, n

\* An ACK is sent.
LEMMA SoundWhenAcknowledged ==
    ASSUME NEW t, NEW r, NEW S, NEW A, Sound(t, r, S, A), NEW m, m.ack = r.next,
           m.sack \in Seq(Within(r.data)), NEW A2, A2 \subseteq A \cup {m}
    PROVE  Sound(t, r, S, A2)
  <1>1. RxGood(r) /\ r.next \in Nat /\ t.first \in Nat /\ t.first <= r.next
    BY RxFacts, TxRowFacts DEF Sound, TxGood
  <1>2. Within(r.data) \subseteq Block
    BY DEF Within
  <1>3. m.sack \in Seq(Block)
    <2>1. Len(m.sack) \in Nat /\ m.sack \in [1..Len(m.sack) -> Within(r.data)]
      BY LenProperties
    <2>2. m.sack \in [1..Len(m.sack) -> Block]
      BY <1>2, <2>1
    <2> QED
      BY <2>1, <2>2, AsSequence
  <1>4. AckGood(r, m)
    BY <1>1, <1>3 DEF AckGood
  <1>5. Bytes(ToSet(m.sack)) \subseteq Bytes(r.data)
    <2>1. \A b \in ToSet(m.sack) : b \in Within(r.data)
      BY LenProperties DEF ToSet
    <2> SUFFICES ASSUME NEW b \in ToSet(m.sack), NEW y \in b[1]..(b[2] - 1)
                 PROVE  y \in Bytes(r.data)
      BY DEF Bytes
    <2>2. y \in Bytes({b})
      BY BytesFacts
    <2> QED
      BY <2>1, <2>2 DEF Within
  <1>6. ASSUME t.sackEnabled PROVE Trusted(t, r, A2)
    <2>1. Trusted(t, r, A)
      BY <1>6 DEF Sound
    <2>2. Known(t, A2) \subseteq Known(t, A) \cup Bytes(r.data)
      BY <1>5 DEF Known
    <2>3. Known(t, A2) \subseteq Held(r)
      BY <2>1, <2>2 DEF Trusted, Held
    <2>4. \A x \in Nat : x <= r.next => x \notin Bytes(r.data)
      <3> SUFFICES ASSUME NEW x \in Nat, x <= r.next, x \in Bytes(r.data) PROVE FALSE
        OBVIOUS
      <3>1. x > r.next
        BY <1>1, RxFacts
      <3> QED
        BY <1>1, <3>1
    <2>5. t.first \notin Known(t, A2)
      BY <1>1, <2>1, <2>2, <2>4 DEF Trusted
    <2>6. \A x \in A : x.ack \notin Known(t, A2)
      BY <2>1, <2>2, <2>4 DEF Trusted, Sound, AckGood
    <2>7. r.next \notin Known(t, A2)
      BY <1>1, <2>3, RxFacts
    <2> QED
      BY <2>3, <2>5, <2>6, <2>7 DEF Trusted
  <1> QED
    BY <1>4, <1>6 DEF Sound

\* Segments and ACKs are lost.
LEMMA SoundWhenLost ==
    ASSUME NEW t, NEW r, NEW S, NEW A, Sound(t, r, S, A),
           NEW S2, S2 \subseteq S, NEW A2, A2 \subseteq A
    PROVE  Sound(t, r, S2, A2)
  <1>1. t.sackEnabled => Trusted(t, r, A2)
    <2>1. Known(t, A2) \subseteq Known(t, A)
      BY DEF Known
    <2> QED
      BY <2>1 DEF Sound, Trusted
  <1> QED
    BY <1>1 DEF Sound

-----------------------------------------------------------------------------
(* The steps *)

\* What the operators on bags do to the set of elements.
LEMMA BagFacts ==
    /\ \A B, C : DOMAIN (B (+) C) = DOMAIN B \cup DOMAIN C
    /\ \A B, C : DOMAIN (B (-) C) \subseteq DOMAIN B
    /\ \A S : DOMAIN SetToBag(S) = S
    /\ DOMAIN EmptyBag = {}
    /\ \A B : BagToSet(B) = DOMAIN B
  BY DEF (+), (-), SetToBag, EmptyBag, BagToSet

\* The bag of a sequence has its elements.
LEMMA BagOfSequence ==
    ASSUME NEW X, NEW q \in Seq(X)
    PROVE  DOMAIN ToBag(q) \subseteq X
  <1>1. DOMAIN ToBag(q) = {q[i] : i \in DOMAIN q}
    BY DEF ToBag, Range
  <1>2. \A i \in DOMAIN q : q[i] \in X
    BY LenProperties
  <1> QED
    BY <1>1, <1>2

\* The invariant of the behaviour.
SackInv == Sound(tx, rx, DOMAIN segments, DOMAIN acks)

\* The application writes.
LEMMA AddGrows ==
    ASSUME NEW b, TxGood(b), NEW n \in Nat
    PROVE  Grows(b, Add(b, n))
  <1> DEFINE c == Add(b, n)
  <1>1. /\ DOMAIN c = Fields /\ c.first = b.first /\ c.sent = b.sent
        /\ c.unsent \in Nat /\ c.sackEnabled = b.sackEnabled
    <2>1. DOMAIN b = Fields /\ b.unsent \in Nat
      BY DEF TxGood, TxRow
    <2> QED
      BY <2>1 DEF Add, Fields
  <1> HIDE DEF c
  <1>2. TxGood(c) /\ TxEnd(c) = TxEnd(b)
    BY <1>1 DEF TxGood, TxRow, TxEnd
  <1>3. Grows(b, c)
    BY <1>1, <1>2, TxRowFacts DEF Grows, TxGood
  <1> QED
    BY <1>3 DEF c

\* The handlers begin with the state of the sender.
LEMMA SenderIsGood ==
    ASSUME TxGood(tx)
    PROVE  SenderGood(Sender) /\ Sender.tx = tx
  <1>1. /\ DOMAIN Sender = {"tx", "cong", "retxEvent", "out"}
        /\ Sender.tx = tx /\ Sender.out = <<>>
    BY DEF Sender
  <1>2. <<>> \in Seq(SentBlocks(tx))
    OBVIOUS
  <1> QED
    BY <1>1, <1>2 DEF SenderGood

\* After a handler of the sender the segments on the way are those of before and
\* those it sent.
LEMMA BecomesFacts ==
    ASSUME NEW s, SenderGood(s), Becomes(s)
    PROVE  tx' = s.tx /\ DOMAIN segments' \subseteq DOMAIN segments \cup SentBlocks(tx')
  <1>1. tx' = s.tx /\ segments' = segments (+) ToBag(s.out)
    BY DEF Becomes
  <1>2. DOMAIN segments' = DOMAIN segments \cup DOMAIN ToBag(s.out)
    BY <1>1, BagFacts
  <1>3. DOMAIN ToBag(s.out) \subseteq SentBlocks(s.tx)
    BY BagOfSequence DEF SenderGood
  <1> QED
    BY <1>1, <1>2, <1>3

\* It holds at first.
LEMMA SackInit == Init => SackInv
  <1> SUFFICES ASSUME Init PROVE SackInv
    OBVIOUS
  <1>1. PICK sack \in SackModes : tx = EmptyTxBuffer(sack)
    BY DEF Init
  <1>2. sack \in BOOLEAN
    BY SackAssumption
  <1>3. /\ DOMAIN tx = Fields /\ tx.first = 1 /\ tx.unsent = 0 /\ tx.sent = <<>>
        /\ tx.sackEnabled = sack
    BY <1>1 DEF EmptyTxBuffer, Fields
  <1>4. SackedIn(tx.sent) = {} /\ TxEnd(tx) = 1
    BY <1>3 DEF SackedIn, TxEnd, EndOf
  <1>5. Row(tx.sent, tx.first)
    BY <1>3 DEF Row
  <1>6. TxGood(tx)
    BY <1>2, <1>3, <1>4, <1>5 DEF TxGood, TxRow
  <1>7. rx = [next |-> 1, data |-> {}, sack |-> <<>>]
    BY DEF Init, EmptyRxBuffer
  <1>8. RxGood(rx)
    <2>1. rx.next = 1 /\ rx.data = {} /\ rx.sack = <<>> /\ IsFiniteSet({})
      BY <1>7, FS_EmptySet
    <2>2. <<>> \in Seq(Block) /\ <<>> \in Seq(Within({}))
      OBVIOUS
    <2>3. rx \in RxBuffer
      BY <1>7, <2>2 DEF RxBuffer
    <2> QED
      BY <2>1, <2>2, <2>3 DEF RxGood, Apart
  <1>9. DOMAIN segments = {} /\ DOMAIN acks = {}
    BY BagFacts DEF Init
  <1>10. Known(tx, {}) = {}
    BY <1>4 DEF Known
  <1>11. Trusted(tx, rx, {})
    BY <1>10 DEF Trusted
  <1>12. UpTo(rx, TxEnd(tx)) /\ tx.first <= rx.next
    BY <1>3, <1>4, <1>7 DEF UpTo
  <1> QED
    BY <1>6, <1>8, <1>9, <1>11, <1>12 DEF SackInv, Sound

\* Send keeps it.
LEMMA SendKeeps ==
    ASSUME SackInv, NEW n \in 1..SegmentSize, Send(n)
    PROVE  SackInv' /\ Grows(tx, tx')
  <1>1. n \in Nat
    BY TxAssumption
  <1>2. Grows(tx, tx')
    BY <1>1, AddGrows DEF Send, SackInv, Sound
  <1>3. rx' = rx /\ segments' = segments /\ acks' = acks
    BY DEF Send, receiverVars
  <1>4. Sound(tx', rx, DOMAIN segments, DOMAIN acks)
    BY <1>2, SoundWhenSent DEF SackInv
  <1> QED
    BY <1>2, <1>3, <1>4 DEF SackInv

\* A handler of the sender other than of an ACK.
LEMMA HandlerKeeps ==
    ASSUME SackInv, NEW s, Evolves(Sender, s), Becomes(s),
           UNCHANGED <<receiverVars, acks>>
    PROVE  SackInv' /\ Grows(tx, tx')
  <1>1. Sender.tx = tx /\ SenderGood(s) /\ Grows(tx, s.tx)
    BY SenderIsGood DEF SackInv, Sound, Evolves
  <1>2. tx' = s.tx /\ DOMAIN segments' \subseteq DOMAIN segments \cup SentBlocks(tx')
    BY <1>1, BecomesFacts
  <1>3. rx' = rx /\ acks' = acks
    BY DEF receiverVars
  <1>4. Sound(tx', rx, DOMAIN segments', DOMAIN acks)
    BY <1>1, <1>2, SoundWhenSent DEF SackInv
  <1> QED
    BY <1>1, <1>2, <1>3, <1>4 DEF SackInv

\* The sender reads an ACK.
LEMMA ReceiveAckKeeps ==
    ASSUME SackInv, NEW m \in BagToSet(acks), ReceiveAck(m)
    PROVE  SackInv' /\ AckTaken(tx, tx', m.ack, Bytes(ToSet(m.sack)))
                    /\ (tx.sackEnabled => m.ack \notin SackedIn(tx.sent))
  <1> DEFINE s == ReceivedAck(Sender, m)
             A == DOMAIN acks
  <1>1. SenderGood(Sender) /\ Sender.tx = tx
    BY SenderIsGood DEF SackInv, Sound
  <1>2. m \in A
    BY BagFacts
  <1>3. m.ack \in Nat /\ m.ack <= rx.next /\ m.sack \in Seq(Block)
    BY <1>2 DEF SackInv, Sound, AckGood
  <1>4. m.ack <= TxEnd(tx)
    <2>1. rx.next \in Nat /\ TxEnd(tx) \in Nat /\ rx.next <= TxEnd(tx)
      BY RxFacts, TxRowFacts DEF SackInv, Sound, TxGood, UpTo
    <2> QED
      BY <1>3, <2>1
  <1>5. ASSUME tx.sackEnabled
        PROVE  /\ tx.first \notin SackedIn(tx.sent) \cup Bytes(ToSet(m.sack))
               /\ m.ack \notin SackedIn(tx.sent) \cup Bytes(ToSet(m.sack))
    <2>1. Trusted(tx, rx, A)
      BY <1>5 DEF SackInv, Sound
    <2>2. SackedIn(tx.sent) \cup Bytes(ToSet(m.sack)) \subseteq Known(tx, A)
      BY <1>2 DEF Known
    <2> QED
      BY <1>2, <2>1, <2>2 DEF Trusted
  <1>6. SenderGood(s) /\ AckTaken(tx, s.tx, m.ack, Bytes(ToSet(m.sack)))
    BY <1>1, <1>3, <1>4, <1>5, ReceivedAckTaken
  <1>7. Becomes(s) /\ acks' = acks (-) SetToBag({m}) /\ rx' = rx
    BY DEF ReceiveAck, receiverVars
  <1> HIDE DEF s
  <1>8. tx' = s.tx /\ DOMAIN segments' \subseteq DOMAIN segments \cup SentBlocks(tx')
    BY <1>6, <1>7, BecomesFacts
  <1>9. DOMAIN acks' \subseteq A
    BY <1>7, BagFacts
  <1>10. AckTaken(tx, tx', m.ack, Bytes(ToSet(m.sack)))
    BY <1>6, <1>8
  <1>11. Sound(tx', rx, DOMAIN segments', DOMAIN acks')
    BY <1>2, <1>8, <1>9, <1>10, SoundWhenAcked DEF SackInv
  <1> QED
    BY <1>5, <1>7, <1>10, <1>11 DEF SackInv

\* An ACK tells what the receiver has.
LEMMA AcknowledgeKeeps ==
    ASSUME NEW r, NEW S, Sound(tx, r, S, DOMAIN acks), Acknowledge(r)
    PROVE  Sound(tx, r, S, DOMAIN acks')
  <1> DEFINE m == Ack(r)
             n == Min({Len(r.sack), AllowedSackBlocks})
  <1>1. DOMAIN acks' = DOMAIN acks \cup {m}
    <2>1. acks' = acks (+) SetToBag({m})
      BY DEF Acknowledge
    <2> HIDE DEF m
    <2>2. DOMAIN SetToBag({m}) = {m}
      BY BagFacts
    <2>3. DOMAIN (acks (+) SetToBag({m})) = DOMAIN acks \cup DOMAIN SetToBag({m})
      BY BagFacts
    <2> QED
      BY <2>1, <2>2, <2>3
  <1>2. m.ack = r.next /\ m.sack = IF tx.sackEnabled THEN SubSeq(r.sack, 1, n) ELSE <<>>
    BY DEF Ack
  <1>3. r.sack \in Seq(Within(r.data)) /\ Len(r.sack) \in Nat
    BY DEF Sound, RxGood
  <1>4. n \in Nat /\ n <= Len(r.sack)
    BY <1>3, MinOfTwo, SackAssumption
  <1> HIDE DEF n, m
  <1>5. SubSeq(r.sack, 1, n) \in Seq(Within(r.data))
    BY <1>3, <1>4, Cut
  <1>6. m.sack \in Seq(Within(r.data))
    <2>1. <<>> \in Seq(Within(r.data))
      OBVIOUS
    <2> QED
      BY <1>2, <1>5, <2>1
  <1> QED
    BY <1>1, <1>2, <1>6, SoundWhenAcknowledged

\* A segment arrives, and is acknowledged or not.
LEMMA ReceivedDataKeeps ==
    ASSUME SackInv, NEW p \in BagToSet(segments), ReceivedData(p)
    PROVE  SackInv' /\ UNCHANGED tx
  <1> DEFINE new == Store(rx, p)
  <1>1. /\ p \in DOMAIN segments /\ rx' = new /\ tx' = tx
        /\ segments' = segments (-) SetToBag({p})
        /\ acks' = acks \/ Acknowledge(new)
    BY BagFacts DEF ReceivedData, senderVars
  <1>2. DOMAIN segments' \subseteq DOMAIN segments
    BY <1>1, BagFacts
  <1>3. Sound(tx, new, DOMAIN segments', DOMAIN acks)
    BY <1>1, <1>2, SoundWhenStored DEF SackInv
  <1> HIDE DEF new
  <1>4. Sound(tx, new, DOMAIN segments', DOMAIN acks')
    BY <1>1, <1>3, AcknowledgeKeeps
  <1> QED
    BY <1>1, <1>4 DEF SackInv

\* The timer of the delayed ACK expires.
LEMMA DelAckTimeoutKeeps ==
    ASSUME SackInv, DelAckTimeout
    PROVE  SackInv' /\ UNCHANGED tx
  <1>1. rx' = rx /\ tx' = tx /\ segments' = segments /\ Acknowledge(rx)
    BY DEF DelAckTimeout, senderVars
  <1>2. Sound(tx, rx, DOMAIN segments, DOMAIN acks')
    BY <1>1, AcknowledgeKeeps DEF SackInv
  <1> QED
    BY <1>1, <1>2 DEF SackInv

\* A segment or an ACK is lost.
LEMMA LoseKeeps ==
    ASSUME SackInv, Lose
    PROVE  SackInv' /\ UNCHANGED tx
  <1>1. rx' = rx /\ tx' = tx
    BY DEF Lose, senderVars, receiverVars
  <1>2. DOMAIN segments' \subseteq DOMAIN segments /\ DOMAIN acks' \subseteq DOMAIN acks
    BY BagFacts DEF Lose
  <1>3. Sound(tx, rx, DOMAIN segments', DOMAIN acks')
    BY <1>2, SoundWhenLost DEF SackInv
  <1> QED
    BY <1>1, <1>3 DEF SackInv

\* A step of the sender, of the receiver or of the network.
TxStep ==
    \/ Grows(tx, tx')
    \/ \E m \in BagToSet(acks) : AckTaken(tx, tx', m.ack, Bytes(ToSet(m.sack)))

\* Every step keeps it.
LEMMA SackNext == SackInv /\ [Next]_vars => SackInv' /\ TxStep
  <1> SUFFICES ASSUME SackInv, [Next]_vars PROVE SackInv' /\ TxStep
    OBVIOUS
  <1>1. TxGood(tx) /\ SenderGood(Sender) /\ Grows(tx, tx)
    BY SenderIsGood, GrowsItself DEF SackInv, Sound
  <1>2. ASSUME NEW n \in 1..SegmentSize, Send(n) PROVE SackInv' /\ TxStep
    BY <1>2, SendKeeps DEF TxStep
  <1>3. CASE SendPendingData
    <2>1. /\ Becomes(SendOne(Sender)) /\ UNCHANGED <<receiverVars, acks>>
      BY <1>3 DEF SendPendingData
    <2>2. Evolves(Sender, SendOne(Sender))
      BY <1>1, SendOneEvolves
    <2> QED
      BY <2>1, <2>2, HandlerKeeps DEF TxStep
  <1>4. ASSUME NEW m \in BagToSet(acks), ReceiveAck(m) PROVE SackInv' /\ TxStep
    BY <1>4, ReceiveAckKeeps DEF TxStep
  <1>5. ASSUME NEW p \in BagToSet(segments), ReceivedData(p) PROVE SackInv' /\ TxStep
    BY <1>1, <1>5, ReceivedDataKeeps DEF TxStep
  <1>6. CASE DelAckTimeout
    BY <1>1, <1>6, DelAckTimeoutKeeps DEF TxStep
  <1>7. CASE Timeout
    <2>1. Becomes(ReTxTimeout(Sender)) /\ UNCHANGED <<receiverVars, acks>>
      BY <1>7 DEF Timeout
    <2>2. Evolves(Sender, ReTxTimeout(Sender))
      BY <1>1, ReTxTimeoutEvolves
    <2> QED
      BY <2>1, <2>2, HandlerKeeps DEF TxStep
  <1>8. CASE Lose
    BY <1>1, <1>8, LoseKeeps DEF TxStep
  <1>9. CASE UNCHANGED vars
    BY <1>1, <1>9 DEF vars, senderVars, receiverVars, SackInv, TxStep
  <1> QED
    BY <1>2, <1>3, <1>4, <1>5, <1>6, <1>7, <1>8, <1>9 DEF Next, Progress

\* The inductive invariant holds in every behaviour.
THEOREM SackInvariant == Spec => []SackInv
  <1> QED
    BY SackInit, SackNext, PTL DEF Spec

\* What the runs call the sacked bytes.
LEMMA SackedBytesFacts ==
    ASSUME NEW b, TxRow(b)
    PROVE  SackedBytes(b) = SackedIn(b.sent)
  <1>1. /\ DOMAIN b.sent = 1..Len(b.sent)
        /\ \A i \in 1..Len(b.sent) : b.sent[i].startSeq \in Nat /\ b.sent[i].size \in Nat
    BY TxRowFacts, RowFacts DEF TxRow
  <1>2. ASSUME NEW y PROVE y \in SackedBytes(b) <=> y \in SackedIn(b.sent)
    <2>1. y \in SackedBytes(b) <=>
            \E i \in 1..Len(b.sent) : /\ b.sent[i].sacked
                                      /\ y \in b.sent[i].startSeq..(Stop(b.sent[i]) - 1)
      BY <1>1 DEF SackedBytes, Begin, End, Stop
    <2>2. \A i \in 1..Len(b.sent) :
             y \in b.sent[i].startSeq..(Stop(b.sent[i]) - 1)
               <=> y \in Nat /\ b.sent[i].startSeq <= y /\ y < Stop(b.sent[i])
      BY <1>1 DEF Stop
    <2> QED
      BY <2>1, <2>2 DEF SackedIn
  <1> QED
    BY <1>2

\* The packets that the receiver stores beyond a gap never overlap, and whatever arrives in
\* whatever order, each block of its SACK list is of bytes it stores (Store,
\* UpdateSackList and ClearSackList of tcp-rx-buffer.cc).
THEOREM SackListIsTrueHolds == Spec => []SackListIsTrue
  <1>1. SackInv => SackListIsTrue
    <2> SUFFICES ASSUME SackInv PROVE SackListIsTrue
      OBVIOUS
    <2>1. Apart(rx.data) /\ (\A d \in rx.data : d[1] > rx.next) /\ rx.sack \in Seq(Within(rx.data))
      BY DEF SackInv, Sound, RxGood
    <2>2. \A k \in DOMAIN rx.sack : rx.sack[k] \in Within(rx.data)
      BY <2>1, LenProperties
    <2> QED
      BY <2>1, <2>2 DEF SackListIsTrue, Apart, Within
  <1> QED
    BY <1>1, SackInvariant, PTL

\* What the sender thinks received the receiver has, for every size of the segments, every
\* number of blocks and every loss, delay and reordering (Update of tcp-tx-buffer.cc).
THEOREM SackedIsReceivedHolds == Spec => []SackedIsReceived
  <1>1. SackInv => SackedIsReceived
    <2> SUFFICES ASSUME SackInv, tx.sackEnabled
                 PROVE  SackedBytes(tx) \subseteq Received
      BY DEF SackedIsReceived
    <2>1. SackedBytes(tx) = SackedIn(tx.sent)
      BY SackedBytesFacts DEF SackInv, Sound, TxGood
    <2> QED
      BY <2>1 DEF SackInv, Sound, Trusted, Known, Held, Received
  <1> QED
    BY <1>1, SackInvariant, PTL

\* With SACK a byte stays sacked until it is acknowledged: splits, merges, partial ACKs and
\* timeouts take nothing back (MergeItems, SplitItems and SetSentListLost of
\* tcp-tx-buffer.cc).
THEOREM SackedStaysHolds == Spec => SackedStays
  <1>1. SackInv /\ [Next]_vars
          => [tx.sackEnabled => \A x \in SackedBytes(tx) : x < tx.first' \/ x \in SackedBytes(tx')]_vars
    <2> SUFFICES ASSUME SackInv, [Next]_vars, tx.sackEnabled, NEW x \in SackedBytes(tx)
                 PROVE  x < tx.first' \/ x \in SackedBytes(tx')
      OBVIOUS
    <2>1. SackInv' /\ TxStep
      BY SackNext
    <2>2. SackedBytes(tx) = SackedIn(tx.sent)
      BY SackedBytesFacts DEF SackInv, Sound, TxGood
    <2>3. SackedBytes(tx') = SackedIn(tx'.sent)
      BY <2>1, SackedBytesFacts DEF SackInv, Sound, TxGood
    <2>4. x < tx'.first \/ x \in SackedIn(tx'.sent)
      BY <2>1, <2>2 DEF TxStep, Grows, AckTaken
    <2> QED
      BY <2>3, <2>4
  <1> QED
    BY <1>1, SackInvariant, PTL DEF Spec, SackedStays
=============================================================================
