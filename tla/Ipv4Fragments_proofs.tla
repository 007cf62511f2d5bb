------------------------ MODULE Ipv4Fragments_proofs ------------------------
(***************************************************************************)
(* Proofs about Ipv4Fragments, for every set of packets, all lengths, all  *)
(* MTUs and all timeouts: whatever arrives, in whatever order and however  *)
(* it overlaps, what is delivered is what was sent; what is kept is known; *)
(* and every incomplete packet has its timeout.                            *)
(*                                                                         *)
(* The invariant behind the first two is about one list of fragments: it   *)
(* is ordered by offset, ends within the packet, and its flag tells        *)
(* whether its last fragment ends before the packet does.                  *)
(***************************************************************************)
EXTENDS Ipv4Fragments, FiniteSetTheorems, WellFoundedInduction, SequenceTheorems, TLAPS

-----------------------------------------------------------------------------
(* Facts about numbers and sequences *)

\* A set of naturals, unless it is empty, has a least element.
LEMMA Least ==
    ASSUME NEW S \in SUBSET Nat, S # {}
    PROVE  \E m \in S : \A n \in S : m <= n
  <1> DEFINE Less == {p \in Nat \X Nat : p[1] < p[2]}
  <1>1. IsWellFoundedOn(Less, Nat)
    BY NatLessThanWellFounded DEF OpToRel
  <1> HIDE DEF Less
  <1>2. PICK m \in S : \A n \in S : ~(<<n, m>> \in Less)
    BY <1>1, WFMin
  <1>3. \A n \in S : ~(n < m)
    BY <1>2 DEF Less
  <1> QED
    BY <1>3

\* Induction: a set of naturals with 0 and with n + 1 for each n holds all.
LEMMA Induct ==
    ASSUME NEW S \in SUBSET Nat, 0 \in S, \A n \in S : n + 1 \in S
    PROVE  S = Nat
  <1> SUFFICES ASSUME Nat \ S # {} PROVE FALSE
    OBVIOUS
  <1>1. PICK m \in Nat \ S : \A n \in Nat \ S : m <= n
    BY Least
  <1>2. m # 0 /\ m - 1 \in Nat
    BY <1>1
  <1>3. m - 1 \in S
    BY <1>1, <1>2
  <1> QED
    BY <1>1, <1>2, <1>3

\* A sequence with one more element.
LEMMA AppendFacts ==
    ASSUME NEW S, NEW s \in Seq(S), NEW x \in S
    PROVE  /\ Append(s, x) \in Seq(S) /\ Len(s) \in Nat /\ DOMAIN s = 1..Len(s)
           /\ Len(Append(s, x)) = Len(s) + 1
           /\ DOMAIN Append(s, x) = 1..(Len(s) + 1)
           /\ Append(s, x)[Len(s) + 1] = x
           /\ \A i \in 1..Len(s) : Append(s, x)[i] = s[i]
           /\ Append(s, x) = [i \in 1..(Len(s) + 1) |-> IF i = Len(s) + 1 THEN x ELSE s[i]]
  <1>1. Len(s) \in Nat /\ DOMAIN s = 1..Len(s)
    OBVIOUS
  <1>2. /\ Append(s, x) \in Seq(S) /\ Len(Append(s, x)) = Len(s) + 1
        /\ DOMAIN Append(s, x) = 1..(Len(s) + 1)
        /\ Append(s, x)[Len(s) + 1] = x
        /\ \A i \in 1..Len(s) : Append(s, x)[i] = s[i]
    OBVIOUS
  <1>3. \A i \in 1..(Len(s) + 1) : i = Len(s) + 1 \/ i \in 1..Len(s)
    BY <1>1
  <1>4. \A w \in Seq(S) : w = [i \in 1..Len(w) |-> w[i]]
    OBVIOUS
  <1>5. Append(s, x) = [i \in 1..(Len(s) + 1) |-> Append(s, x)[i]]
    BY <1>2, <1>4
  <1>6. Append(s, x) = [i \in 1..(Len(s) + 1) |-> IF i = Len(s) + 1 THEN x ELSE s[i]]
    BY <1>2, <1>3, <1>5
  <1> QED
    BY <1>1, <1>2, <1>6

\* A part of a sequence.
LEMMA SubSeqFacts ==
    ASSUME NEW S, NEW s \in Seq(S), NEW m \in 1..(Len(s) + 1), NEW n \in 0..Len(s), m <= n + 1
    PROVE  /\ SubSeq(s, m, n) \in Seq(S)
           /\ Len(SubSeq(s, m, n)) = n - m + 1
           /\ \A i \in 1..(n - m + 1) : SubSeq(s, m, n)[i] = s[m + i - 1]
  <1>1. Len(s) \in Nat /\ m \in Nat \ {0} /\ n \in Nat
    OBVIOUS
  <1>2. \A i \in m..n : s[i] \in S
    <2>1. \A i \in 1..Len(s) : s[i] \in S
      OBVIOUS
    <2> QED
      BY <1>1, <2>1
  <1>3. SubSeq(s, m, n) \in Seq(S)
    BY <1>1, <1>2
  <1>4. Len(SubSeq(s, m, n)) = n - m + 1
    BY <1>1
  <1>5. \A i \in 1..(n - m + 1) : SubSeq(s, m, n)[i] = s[m + i - 1]
    BY <1>1
  <1> QED
    BY <1>3, <1>4, <1>5

\* The same for sequences with names.
LEMMA Joined ==
    ASSUME NEW S, NEW s, NEW t, s \in Seq(S), t \in Seq(S), NEW w, w = s \o t,
           NEW m, NEW n, Len(s) = m, Len(t) = n
    PROVE  /\ w \in Seq(S) /\ Len(w) = m + n
           /\ \A i \in 1..(m + n) : w[i] = IF i <= m THEN s[i] ELSE t[i - m]
  BY ConcatProperties

-----------------------------------------------------------------------------

Piece(p) == [offset : 0..(Length[p] - 1), size : 1..Length[p]]

\* What may arrive: a part of a packet that has the flag unless it is the end.
FragmentOK(f) ==
    /\ f.packet \in Packets
    /\ f.offset \in 0..(Length[f.packet] - 1) /\ f.size \in 1..Length[f.packet]
    /\ EndOf(f) <= Length[f.packet]
    /\ f.more \in BOOLEAN
    /\ f.more <=> EndOf(f) < Length[f.packet]

\* What is kept of a packet; it may be nothing.
ListOK(fs, p) ==
    /\ fs.list \in Seq(Piece(p)) /\ fs.more \in BOOLEAN
    /\ \A i \in 1..Len(fs.list) : EndOf(fs.list[i]) <= Length[p]
    /\ \A i, j \in 1..Len(fs.list) : i < j => fs.list[i].offset <= fs.list[j].offset
    /\ fs.list # <<>> => (fs.more <=> EndOf(fs.list[Len(fs.list)]) < Length[p])

LEMMA LengthType == \A p \in Packets : Length[p] \in Nat \ {0}
  BY FragmentsAssumption

-----------------------------------------------------------------------------
(* What arrives *)

\* Whole multiples below a number.
LEMMA Multiples ==
    ASSUME NEW m \in Nat \ {0}, NEW n \in Nat, NEW i \in 0..(n \div m)
    PROVE  m * i \in Nat /\ m * i <= n
  <1> DEFINE q == n \div m
             x == q - i
  <1>1. q \in Nat /\ n = m * q + (n % m) /\ n % m \in 0..(m - 1)
    OBVIOUS
  <1>2. i \in Nat /\ x \in Nat /\ q = i + x
    BY <1>1
  <1> HIDE DEF q, x
  <1>3. m * q = m * i + m * x
    BY <1>2
  <1>4. m * i \in Nat /\ m * x \in Nat
    BY <1>2
  <1> QED
    BY <1>1, <1>3, <1>4

LEMMA PiecesOK ==
    ASSUME NEW f, FragmentOK(f), NEW mtu \in Mtus, NEW g \in DoFragmentation(f, mtu)
    PROVE  FragmentOK(g) /\ g.packet = f.packet
  <1>1. mtu \in Nat \ {0} /\ Length[f.packet] \in Nat \ {0}
    BY FragmentsAssumption DEF FragmentOK
  <1>2. f.size - 1 \in Nat /\ f.offset \in Nat /\ f.size \in Nat /\ EndOf(f) = f.offset + f.size
    BY <1>1 DEF FragmentOK, EndOf
  <1>3. PICK i \in 0..((f.size - 1) \div mtu) :
          g = [packet |-> f.packet, offset |-> f.offset + mtu * i,
               more |-> mtu * i + mtu < f.size \/ f.more,
               size |-> IF mtu * i + mtu < f.size THEN mtu ELSE f.size - mtu * i]
    BY DEF DoFragmentation
  <1> DEFINE o == mtu * i
  <1>4. o \in Nat /\ o <= f.size - 1
    BY <1>1, <1>2, Multiples
  <1>5. g = [packet |-> f.packet, offset |-> f.offset + o, more |-> o + mtu < f.size \/ f.more,
             size |-> IF o + mtu < f.size THEN mtu ELSE f.size - o]
    BY <1>3
  <1> HIDE DEF o
  <1> DEFINE inner == o + mtu < f.size
             L == Length[f.packet]
  <1>6. /\ g.packet = f.packet /\ g.offset = f.offset + o
        /\ g.more = (inner \/ f.more)
        /\ inner => g.size = mtu
        /\ ~ inner => g.size = f.size - o
    BY <1>5
  <1>7. /\ f.offset \in 0..(L - 1) /\ f.size \in 1..L /\ f.offset + f.size <= L
        /\ f.packet \in Packets
        /\ f.more \in BOOLEAN /\ (f.more <=> f.offset + f.size < L)
    BY <1>2 DEF FragmentOK
  <1>8. /\ g.offset \in 0..(L - 1) /\ g.size \in 1..L /\ EndOf(g) <= L
        /\ inner => EndOf(g) < L
        /\ ~ inner => EndOf(g) = f.offset + f.size
    BY <1>1, <1>2, <1>4, <1>6, <1>7 DEF EndOf
  <1>9. g.more \in BOOLEAN
    BY <1>6, <1>7
  <1>10. g.more <=> EndOf(g) < L
    <2>1. CASE inner
      BY <1>6, <1>8, <2>1
    <2>2. CASE ~ inner
      <3>1. EndOf(g) < L <=> f.offset + f.size < L
        BY <1>8, <2>2
      <3>2. g.more <=> f.more
        BY <1>6, <1>7, <2>2
      <3> QED
        BY <1>7, <3>1, <3>2
    <2> QED
      BY <2>1, <2>2
  <1> HIDE DEF L
  <1> QED
    BY <1>6, <1>7, <1>8, <1>9, <1>10 DEF FragmentOK, L

LEMMA ArrivingOK == \A f \in OnTheWay : FragmentOK(f)
  <1>1. \A p \in Packets : FragmentOK(Whole(p))
    BY LengthType DEF FragmentOK, Whole, EndOf
  <1>2. ASSUME NEW pieces, \A f \in pieces : FragmentOK(f)
        PROVE  \A g \in OverLinks(pieces) : FragmentOK(g)
    BY <1>2, PiecesOK DEF OverLinks
  <1>3. \A f \in {Whole(p) : p \in Packets} : FragmentOK(f)
    BY <1>1
  <1>4. \A f \in OverLinks({Whole(p) : p \in Packets}) : FragmentOK(f)
    BY <1>2, <1>3
  <1> QED
    BY <1>2, <1>4 DEF OnTheWay

-----------------------------------------------------------------------------
(* One list of fragments *)

\* w is s with e at a place, and s without a place.
Inserted(w, s, at, e) ==
    /\ Len(w) = Len(s) + 1
    /\ \A i \in 1..(Len(s) + 1) :
          w[i] = IF i < at THEN s[i] ELSE IF i = at THEN e ELSE s[i - 1]

Removed(w, s, k) ==
    /\ Len(w) = Len(s) - 1
    /\ \A i \in 1..(Len(s) - 1) : w[i] = IF i < k THEN s[i] ELSE s[i + 1]

LEMMA InsertFacts ==
    ASSUME NEW S, NEW s \in Seq(S), NEW e \in S, NEW at \in 1..(Len(s) + 1)
    PROVE  InsertAt(s, at, e) \in Seq(S) /\ Inserted(InsertAt(s, at, e), s, at, e)
  <1> DEFINE n == Len(s)
             a == SubSeq(s, 1, at - 1)
             c == SubSeq(s, at, n)
             one == <<e>>
             b == a \o one
             new == b \o c
  <1>1. n \in Nat /\ at \in Nat \ {0} /\ at <= n + 1
    OBVIOUS
  <1>2. one \in Seq(S) /\ Len(one) = 1 /\ one[1] = e
    OBVIOUS
  <1>3. a \in Seq(S) /\ Len(a) = at - 1 /\ \A i \in 1..(at - 1) : a[i] = s[i]
    <2>1. 1 \in 1..(n + 1) /\ at - 1 \in 0..n /\ 1 <= at - 1 + 1
      BY <1>1
    <2> QED
      BY <1>1, <2>1, SubSeqFacts
  <1>4. c \in Seq(S) /\ Len(c) = n - at + 1 /\ \A i \in 1..(n - at + 1) : c[i] = s[at + i - 1]
    <2>1. at \in 1..(n + 1) /\ n \in 0..n /\ at <= n + 1
      BY <1>1
    <2> QED
      BY <1>1, <2>1, SubSeqFacts
  <1>5. InsertAt(s, at, e) = new
    BY DEF InsertAt
  <1>6. b = a \o one
    OBVIOUS
  <1>7. new = b \o c
    OBVIOUS
  <1> HIDE DEF n, a, c, one, b, new
  <1>8. b \in Seq(S) /\ Len(b) = at
    <2>1. a \in Seq(S) /\ one \in Seq(S)
      BY <1>2, <1>3
    <2>2. b \in Seq(S) /\ Len(b) = Len(a) + Len(one)
      BY <1>6, <2>1
    <2> QED
      BY <1>1, <1>2, <1>3, <2>2
  <1>9. \A i \in 1..at : b[i] = IF i < at THEN s[i] ELSE e
    <2>1. \A i \in 1..(at - 1) : b[i] = a[i]
      BY <1>1, <1>2, <1>3, <1>6
    <2>2. b[at] = one[1]
      <3>1. at = Len(a) + 1 /\ at \in 1..(Len(a) + Len(one)) /\ ~ (at <= Len(a))
        BY <1>1, <1>2, <1>3
      <3>2. at - Len(a) = 1
        BY <1>1, <3>1
      <3>3. b[at] = one[at - Len(a)]
        BY <1>2, <1>3, <1>6, <3>1, ConcatProperties
      <3> QED
        BY <3>2, <3>3
    <2> QED
      BY <1>1, <1>2, <1>3, <2>1, <2>2
  <1>10. /\ new \in Seq(S) /\ Len(new) = at + (n - at + 1)
        /\ \A i \in 1..(at + (n - at + 1)) : new[i] = IF i <= at THEN b[i] ELSE c[i - at]
    <2>1. b \in Seq(S) /\ c \in Seq(S) /\ Len(b) = at /\ Len(c) = n - at + 1
      BY <1>4, <1>8, <1>9
    <2>2. /\ b \o c \in Seq(S) /\ Len(b \o c) = Len(b) + Len(c)
          /\ \A i \in 1..(Len(b) + Len(c)) :
                (b \o c)[i] = IF i <= Len(b) THEN b[i] ELSE c[i - Len(b)]
      BY <2>1, ConcatProperties
    <2> QED
      BY <1>7, <2>1, <2>2
  <1>11. /\ Len(new) = n + 1
        /\ \A i \in 1..(n + 1) :
             new[i] = IF i < at THEN s[i] ELSE IF i = at THEN e ELSE s[i - 1]
    <2>1. at + (n - at + 1) = n + 1
      BY <1>1
    <2>2. ASSUME NEW i \in 1..(n + 1)
          PROVE  new[i] = IF i < at THEN s[i] ELSE IF i = at THEN e ELSE s[i - 1]
      <3>1. CASE i <= at
        BY <1>1, <1>9, <1>10, <2>1, <3>1
      <3>2. CASE ~ (i <= at)
        <4>1. i - at \in 1..(n - at + 1) /\ at + (i - at) - 1 = i - 1
          BY <1>1, <3>2
        <4>2. new[i] = c[i - at] /\ c[i - at] = s[at + (i - at) - 1]
          BY <1>4, <1>10, <2>1, <3>2, <4>1
        <4>3. new[i] = s[i - 1]
          BY <4>1, <4>2
        <4>4. ~ (i < at) /\ i # at
          BY <1>1, <3>2
        <4> QED
          BY <4>3, <4>4
      <3> QED
        BY <3>1, <3>2
    <2> QED
      BY <1>10, <2>1, <2>2
  <1> QED
    BY <1>5, <1>10, <1>11 DEF n, Inserted

LEMMA RemoveFacts ==
    ASSUME NEW S, NEW s \in Seq(S), NEW k \in 1..Len(s)
    PROVE  RemoveAt(s, k) \in Seq(S) /\ Removed(RemoveAt(s, k), s, k)
  <1> DEFINE n == Len(s)
             a == SubSeq(s, 1, k - 1)
             c == SubSeq(s, k + 1, n)
             new == a \o c
  <1>1. n \in Nat /\ k \in Nat \ {0} /\ k <= n
    OBVIOUS
  <1>2. a \in Seq(S) /\ Len(a) = k - 1 /\ \A i \in 1..(k - 1) : a[i] = s[i]
    <2>1. 1 \in 1..(n + 1) /\ k - 1 \in 0..n /\ 1 <= k - 1 + 1
      BY <1>1
    <2> QED
      BY <1>1, <2>1, SubSeqFacts
  <1>3. c \in Seq(S) /\ Len(c) = n - k /\ \A i \in 1..(n - k) : c[i] = s[k + i]
    <2>1. k + 1 \in 1..(n + 1) /\ n \in 0..n /\ k + 1 <= n + 1
      BY <1>1
    <2> QED
      BY <1>1, <2>1, SubSeqFacts
  <1>4. RemoveAt(s, k) = new /\ new = a \o c
    BY DEF RemoveAt
  <1> HIDE DEF n, a, c, new
  <1>5. /\ new \in Seq(S) /\ Len(new) = k - 1 + (n - k)
        /\ \A i \in 1..(k - 1 + (n - k)) : new[i] = IF i <= k - 1 THEN a[i] ELSE c[i - (k - 1)]
    BY <1>2, <1>3, <1>4, Joined
  <1>6. /\ Len(new) = n - 1
        /\ \A i \in 1..(n - 1) : new[i] = IF i < k THEN s[i] ELSE s[i + 1]
    BY <1>1, <1>2, <1>3, <1>5
  <1> QED
    BY <1>4, <1>5, <1>6 DEF n, Removed

\* All before a place start no later than f, all others do.
Place(list, f, at) ==
    \A i \in 1..Len(list) :
        IF i < at THEN list[i].offset <= f.offset ELSE f.offset < list[i].offset

\* Where a fragment goes: behind all that start no later, before all others.
LEMMA PlaceFacts ==
    ASSUME NEW p \in Packets, NEW fs, ListOK(fs, p), NEW f, f.offset \in Nat
    PROVE  LET at == InsertBefore(fs.list, f)
           IN  at \in 1..(Len(fs.list) + 1) /\ Place(fs.list, f, at)
  <1> DEFINE list == fs.list
             n == Len(list)
             later == {i \in DOMAIN list : list[i].offset > f.offset} \cup {n + 1}
             at == InsertBefore(list, f)
  <1>1. n \in Nat /\ DOMAIN list = 1..n /\ \A i \in 1..n : list[i].offset \in Int
    <2>1. list \in Seq(Piece(p))
      BY DEF ListOK
    <2>2. n \in Nat /\ DOMAIN list = 1..n /\ \A i \in 1..n : list[i] \in Piece(p)
      BY <2>1
    <2> HIDE DEF list
    <2> QED
      BY <2>2, LengthType DEF Piece
  <1>2. later \in SUBSET Nat /\ later # {}
    BY <1>1
  <1>3. at \in later /\ \A i \in later : at <= i
    <2>1. \E m \in later : \A i \in later : m <= i
      <3> HIDE DEF later
      <3> QED
        BY <1>2, Least
    <2>2. at = Min(later)
      BY DEF InsertBefore
    <2> HIDE DEF later, at
    <2> QED
      BY <2>1, <2>2 DEF Min
  <1>4. at \in 1..(n + 1)
    BY <1>1, <1>3
  <1>5. ASSUME NEW i \in 1..n
        PROVE  IF i < at THEN list[i].offset <= f.offset ELSE f.offset < list[i].offset
    <2>1. CASE i < at
      <3>1. i \notin later
        <4>1. at \in Nat /\ i \in Nat /\ ~ at <= i
          <5>1. n \in Nat /\ at \in 1..(n + 1) /\ i \in 1..n
            BY <1>1, <1>4
          <5> HIDE DEF n, at, list, later
          <5> QED
            BY <2>1, <5>1
        <4> HIDE DEF n, at, list, later
        <4> QED
          BY <1>3, <4>1
      <3>2. ~ list[i].offset > f.offset
        BY <1>1, <3>1
      <3>3. list[i].offset \in Int /\ f.offset \in Int
        BY <1>1 DEF FragmentOK
      <3> QED
        BY <2>1, <3>2, <3>3
    <2>2. CASE i >= at
      <3>1. at \in 1..n /\ list[at].offset > f.offset
        BY <1>1, <1>3, <1>4, <2>2
      <3>2. list[at].offset <= list[i].offset
        BY <1>1, <2>2, <3>1 DEF ListOK
      <3> QED
        BY <1>1, <2>2, <3>1, <3>2, <1>4
    <2> QED
      BY <1>1, <1>4, <2>1, <2>2
  <1> QED
    BY <1>4, <1>5 DEF Place

\* What a list is after a fragment was added.
FragmentAdded(new, fs, f) ==
    LET at == InsertBefore(fs.list, f)
    IN  /\ at \in 1..(Len(fs.list) + 1) /\ Place(fs.list, f, at)
        /\ new.list \in Seq(Piece(f.packet))
        /\ Inserted(new.list, fs.list, at, [offset |-> f.offset, size |-> f.size])
        /\ new.more = IF at > Len(fs.list) THEN f.more ELSE fs.more

LEMMA AddedFacts ==
    ASSUME NEW f, FragmentOK(f), NEW fs, ListOK(fs, f.packet)
    PROVE  FragmentAdded(AddFragment(fs, f), fs, f)
  <1> DEFINE p == f.packet
             list == fs.list
             at == InsertBefore(list, f)
             e == [offset |-> f.offset, size |-> f.size]
             new == InsertAt(list, at, e)
  <1>1. /\ list \in Seq(Piece(p)) /\ e \in Piece(p) /\ p \in Packets /\ f.offset \in Nat
    BY LengthType DEF FragmentOK, ListOK, Piece
  <1>2. /\ AddFragment(fs, f).list = new
        /\ AddFragment(fs, f).more = IF at > Len(list) THEN f.more ELSE fs.more
    BY DEF AddFragment
  <1>3. at \in 1..(Len(list) + 1) /\ Place(list, f, at)
    BY <1>1, PlaceFacts
  <1>4. new \in Seq(Piece(p)) /\ Inserted(new, list, at, e)
    <2> HIDE DEF e, at
    <2> QED
      BY <1>1, <1>3, InsertFacts
  <1> QED
    BY <1>2, <1>3, <1>4 DEF FragmentAdded

\* A list stays what it is when a fragment is added.
LEMMA AddKeeps ==
    ASSUME NEW f, FragmentOK(f), NEW fs, ListOK(fs, f.packet)
    PROVE  /\ ListOK(AddFragment(fs, f), f.packet)
           /\ AddFragment(fs, f).list # <<>>
  <1> DEFINE p == f.packet
             list == fs.list
             n == Len(list)
             at == InsertBefore(list, f)
             e == [offset |-> f.offset, size |-> f.size]
             new == AddFragment(fs, f).list
             more == AddFragment(fs, f).more
             L == Length[p]
  <1>1. /\ p \in Packets /\ L \in Nat \ {0} /\ list \in Seq(Piece(p)) /\ n \in Nat
        /\ e.offset = f.offset /\ f.offset \in Nat
        /\ EndOf(e) = EndOf(f) /\ EndOf(f) <= L
    BY LengthType DEF FragmentOK, ListOK, EndOf
  <1>2. FragmentAdded(AddFragment(fs, f), fs, f)
    BY AddedFacts
  <1>3. /\ at \in 1..(n + 1)
        /\ \A i \in 1..n : IF i < at THEN list[i].offset <= f.offset
                           ELSE f.offset < list[i].offset
        /\ more = IF at > n THEN f.more ELSE fs.more
    BY <1>2 DEF FragmentAdded, Place
  <1>4. /\ new \in Seq(Piece(p)) /\ Len(new) = n + 1
        /\ \A i \in 1..(n + 1) :
             new[i] = IF i < at THEN list[i] ELSE IF i = at THEN e ELSE list[i - 1]
    BY <1>2 DEF FragmentAdded, Inserted
  <1>5. /\ \A i \in 1..n : EndOf(list[i]) <= L /\ list[i].offset \in Int
        /\ \A i, j \in 1..n : i < j => list[i].offset <= list[j].offset
        /\ list # <<>> => (fs.more <=> EndOf(list[n]) < L)
        /\ fs.more \in BOOLEAN
    <2>1. \A i \in 1..n : list[i] \in Piece(p)
      BY <1>1
    <2>2. \A i \in 1..n : list[i].offset \in Int
      BY <1>1, <2>1 DEF Piece
    <2> QED
      BY <2>2 DEF ListOK
  <1>6. f.more \in BOOLEAN /\ (f.more <=> EndOf(f) < L)
    BY DEF FragmentOK
  <1> HIDE DEF list, n, at, new, more, e, L
  <1>7. \A i \in 1..(n + 1) : EndOf(new[i]) <= L
    <2> TAKE i \in 1..(n + 1)
    <2>1. CASE i < at
      <3>1. i \in 1..n /\ new[i] = list[i]
        BY <1>1, <1>3, <1>4, <2>1
      <3> QED
        BY <1>5, <3>1
    <2>2. CASE i = at
      BY <1>1, <1>3, <1>4, <2>2
    <2>3. CASE i > at
      <3>1. i - 1 \in 1..n
        BY <1>1, <1>3, <2>3
      <3> QED
        BY <1>1, <1>3, <1>4, <1>5, <2>3, <3>1
    <2> QED
      BY <1>1, <1>3, <2>1, <2>2, <2>3
  <1>8. \A i, j \in 1..(n + 1) : i < j => new[i].offset <= new[j].offset
    <2> SUFFICES ASSUME NEW i \in 1..(n + 1), NEW j \in 1..(n + 1), i < j
                 PROVE  new[i].offset <= new[j].offset
      OBVIOUS
    <2>1. CASE j < at
      BY <1>1, <1>3, <1>4, <1>5, <2>1
    <2>2. CASE j = at
      BY <1>1, <1>3, <1>4, <2>2
    <2>3. CASE j > at
      <3>1. j - 1 \in 1..n /\ new[j] = list[j - 1]
        BY <1>1, <1>3, <1>4, <2>3
      <3>2. CASE i < at
        <4>1. i \in 1..n /\ new[i] = list[i] /\ i <= j - 1
          BY <1>1, <1>3, <1>4, <2>3, <3>2
        <4>2. list[i].offset <= list[j - 1].offset
          BY <1>5, <3>1, <4>1
        <4> QED
          BY <3>1, <4>1, <4>2
      <3>3. CASE i = at
        <4>1. f.offset < list[j - 1].offset
          BY <1>1, <1>3, <2>3, <3>1
        <4>2. new[i].offset = f.offset /\ new[j].offset = list[j - 1].offset
          BY <1>1, <1>4, <3>1, <3>3
        <4>3. f.offset \in Nat /\ list[j - 1].offset \in Int
          BY <1>1, <1>5, <3>1
        <4> QED
          BY <4>1, <4>2, <4>3
      <3>4. CASE i > at
        <4>1. i - 1 \in 1..n /\ new[i] = list[i - 1] /\ i - 1 < j - 1
          BY <1>1, <1>3, <1>4, <3>4
        <4>2. list[i - 1].offset <= list[j - 1].offset
          BY <1>5, <3>1, <4>1
        <4> QED
          BY <3>1, <4>1, <4>2
      <3> QED
        BY <1>1, <1>3, <3>2, <3>3, <3>4
    <2> QED
      BY <1>1, <1>3, <2>1, <2>2, <2>3
  <1>9. more \in BOOLEAN /\ (more <=> EndOf(new[n + 1]) < L)
    <2>1. CASE at > n
      <3>1. at = n + 1 /\ new[n + 1] = e
        BY <1>1, <1>3, <1>4, <2>1
      <3>2. more = f.more
        BY <1>3, <2>1
      <3>3. EndOf(new[n + 1]) = EndOf(f)
        BY <1>1, <3>1
      <3> QED
        BY <1>6, <3>2, <3>3
    <2>2. CASE ~ (at > n)
      <3>1. n \in 1..n /\ n + 1 > at /\ n + 1 # at /\ ~ (n + 1 < at) /\ n + 1 \in 1..(n + 1)
        BY <1>1, <1>3, <2>2
      <3>2. new[n + 1] = list[n + 1 - 1] /\ n + 1 - 1 = n
        BY <1>1, <1>4, <3>1
      <3>3. list # <<>>
        BY <3>1 DEF n
      <3>4. more = fs.more
        BY <1>3, <2>2
      <3> QED
        BY <1>5, <3>2, <3>3, <3>4
    <2> QED
      BY <2>1, <2>2
  <1>10. Len(new) = n + 1 /\ n + 1 # 0
    BY <1>1, <1>4
  <1>11. /\ new \in Seq(Piece(p)) /\ more \in BOOLEAN
         /\ \A i \in 1..Len(new) : EndOf(new[i]) <= L
         /\ \A i, j \in 1..Len(new) : i < j => new[i].offset <= new[j].offset
         /\ new # <<>> => (more <=> EndOf(new[Len(new)]) < L)
    BY <1>4, <1>7, <1>8, <1>9, <1>10
  <1> QED
    BY <1>10, <1>11 DEF ListOK, new, more, L

\* The first fragment of a packet never completes it.
LEMMA FirstWaits ==
    ASSUME NEW f, FragmentOK(f), f.more \/ f.offset # 0,
           NEW none, none = [list |-> <<>>, more |-> FALSE]
    PROVE  ~ IsEntire(AddFragment(none, f))
  <1> DEFINE new == AddFragment(none, f)
             at == InsertBefore(none.list, f)
             e == [offset |-> f.offset, size |-> f.size]
  <1>1. ListOK(none, f.packet) /\ Len(none.list) = 0
    BY DEF ListOK
  <1>2. FragmentAdded(new, none, f)
    BY <1>1, AddedFacts
  <1>3. /\ at = 1 /\ Len(new.list) = 1 /\ new.list \in Seq(Piece(f.packet))
        /\ new.more = f.more
    <2>1. at \in 1..(0 + 1) /\ Len(new.list) = 0 + 1 /\ new.list \in Seq(Piece(f.packet))
      BY <1>1, <1>2 DEF FragmentAdded, Inserted
    <2>2. new.more = IF at > Len(none.list) THEN f.more ELSE none.more
      BY <1>2 DEF FragmentAdded
    <2>3. at = 1 /\ at > Len(none.list)
      BY <1>1, <2>1
    <2>4. new.more = f.more
      BY <2>2, <2>3
    <2> QED
      BY <2>1, <2>3, <2>4
  <1>4. new.list[1] = e
    BY <1>1, <1>2, <1>3 DEF FragmentAdded, Inserted
  <1> HIDE DEF new
  <1>5. 1 \in DOMAIN new.list /\ new.list[1].offset = f.offset
    BY <1>3, <1>4
  <1>6. ASSUME IsEntire(new) PROVE FALSE
    <2>1. f.offset # 0
      BY <1>3, <1>6 DEF IsEntire
    <2>2. \E j \in 1..(1 - 1) : EndOf(new.list[j]) >= new.list[1].offset
      BY <1>5, <1>6, <2>1 DEF IsEntire
    <2> QED
      BY <2>2
  <1> QED
    BY <1>6 DEF new

-----------------------------------------------------------------------------
(* What comes of a list *)

\* GetPacket is a recursive function: the packet grows with each fragment.
LEMMA GetPacketSteps ==
    ASSUME NEW fs, Len(fs.list) \in Nat
    PROVE  \E taken : /\ taken[0] = <<>>
                      /\ \A i \in 1..Len(fs.list) : taken[i] = Taken(taken[i - 1], fs.list[i])
                      /\ GetPacket(fs) = taken[Len(fs.list)]
  <1> DEFINE F(g, n) == [i \in 0..n |-> IF i = 0 THEN <<>> ELSE Taken(g[i - 1], fs.list[i])]
             S == {n \in Nat : \E g : g = F(g, n)}
  <1>1. S = Nat
    <2>1. 0 \in S
      <3> DEFINE g == [i \in 0..0 |-> <<>>]
      <3>1. g = F(g, 0)
        OBVIOUS
      <3> QED
        BY <3>1
    <2>2. ASSUME NEW n \in S PROVE n + 1 \in S
      <3>1. PICK g : g = F(g, n)
        OBVIOUS
      <3> DEFINE h == [i \in 0..(n + 1) |-> IF i = n + 1 THEN Taken(g[n], fs.list[n + 1]) ELSE g[i]]
      <3>2. ASSUME NEW i \in 0..(n + 1)
            PROVE  h[i] = IF i = 0 THEN <<>> ELSE Taken(h[i - 1], fs.list[i])
        <4>1. CASE i = n + 1
          <5>1. i # 0 /\ i - 1 \in 0..(n + 1) /\ i - 1 # n + 1 /\ i - 1 = n
            BY <4>1
          <5> QED
            BY <4>1, <5>1
        <4>2. CASE i = 0
          <5>1. 0 \in 0..n /\ 0 # n + 1
            OBVIOUS
          <5> QED
            BY <3>1, <4>2, <5>1
        <4>3. CASE i # 0 /\ i # n + 1
          <5>1. i \in 0..n /\ i - 1 \in 0..(n + 1) /\ i - 1 # n + 1
            BY <4>3
          <5>2. h[i] = g[i] /\ h[i - 1] = g[i - 1]
            BY <4>3, <5>1
          <5>3. g[i] = Taken(g[i - 1], fs.list[i])
            BY <3>1, <4>3, <5>1
          <5> QED
            BY <4>3, <5>2, <5>3
        <4> QED
          BY <4>1, <4>2, <4>3
      <3>3. h = [i \in 0..(n + 1) |-> h[i]]
        OBVIOUS
      <3> HIDE DEF h
      <3>4. h = F(h, n + 1)
        BY <3>2, <3>3
      <3> HIDE DEF F
      <3> QED
        BY <3>4
    <2> HIDE DEF S
    <2>3. S \in SUBSET Nat
      BY DEF S
    <2> QED
      BY <2>1, <2>2, <2>3, Induct
  <1> DEFINE N == Len(fs.list)
             taken == CHOOSE g : g = F(g, N)
  <1>2. taken = F(taken, N)
    <2>1. \E g : g = F(g, N)
      BY <1>1
    <2> HIDE DEF F, N
    <2> QED
      BY <2>1
  <1>3. GetPacket(fs) = taken[N]
    BY DEF GetPacket
  <1> HIDE DEF taken
  <1>4. taken[0] = <<>> /\ \A i \in 1..N : taken[i] = Taken(taken[i - 1], fs.list[i])
    <2>1. \A i \in 0..N : taken[i] = IF i = 0 THEN <<>> ELSE Taken(taken[i - 1], fs.list[i])
      BY <1>2
    <2>2. N \in Nat
      OBVIOUS
    <2> HIDE DEF N, F
    <2>3. 0 \in 0..N /\ \A i \in 1..N : i \in 0..N /\ i # 0
      BY <2>2
    <2> QED
      BY <2>1, <2>3
  <1> QED
    BY <1>3, <1>4

\* So is PartialPacket: with each fragment there may be more of it.
LEMMA PartialPacketSteps ==
    ASSUME NEW fs, Len(fs.list) \in Nat
    PROVE  \E reached : /\ reached[0] = 0
                        /\ \A i \in 1..Len(fs.list) : reached[i] = Reached(reached[i - 1], fs.list[i])
                        /\ PartialPacket(fs) = reached[Len(fs.list)]
  <1> DEFINE F(g, n) == [i \in 0..n |-> IF i = 0 THEN 0 ELSE Reached(g[i - 1], fs.list[i])]
             S == {n \in Nat : \E g : g = F(g, n)}
  <1>1. S = Nat
    <2>1. 0 \in S
      <3> DEFINE g == [i \in 0..0 |-> 0]
      <3>1. g = F(g, 0)
        OBVIOUS
      <3> QED
        BY <3>1
    <2>2. ASSUME NEW n \in S PROVE n + 1 \in S
      <3>1. PICK g : g = F(g, n)
        OBVIOUS
      <3> DEFINE h == [i \in 0..(n + 1) |-> IF i = n + 1 THEN Reached(g[n], fs.list[n + 1]) ELSE g[i]]
      <3>2. ASSUME NEW i \in 0..(n + 1)
            PROVE  h[i] = IF i = 0 THEN 0 ELSE Reached(h[i - 1], fs.list[i])
        <4>1. CASE i = n + 1
          <5>1. i # 0 /\ i - 1 \in 0..(n + 1) /\ i - 1 # n + 1 /\ i - 1 = n
            BY <4>1
          <5> QED
            BY <4>1, <5>1
        <4>2. CASE i = 0
          <5>1. 0 \in 0..n /\ 0 # n + 1
            OBVIOUS
          <5> QED
            BY <3>1, <4>2, <5>1
        <4>3. CASE i # 0 /\ i # n + 1
          <5>1. i \in 0..n /\ i - 1 \in 0..(n + 1) /\ i - 1 # n + 1
            BY <4>3
          <5>2. h[i] = g[i] /\ h[i - 1] = g[i - 1]
            BY <4>3, <5>1
          <5>3. g[i] = Reached(g[i - 1], fs.list[i])
            BY <3>1, <4>3, <5>1
          <5> QED
            BY <4>3, <5>2, <5>3
        <4> QED
          BY <4>1, <4>2, <4>3
      <3>3. h = [i \in 0..(n + 1) |-> h[i]]
        OBVIOUS
      <3> HIDE DEF h
      <3>4. h = F(h, n + 1)
        BY <3>2, <3>3
      <3> HIDE DEF F
      <3> QED
        BY <3>4
    <2> HIDE DEF S
    <2>3. S \in SUBSET Nat
      BY DEF S
    <2> QED
      BY <2>1, <2>2, <2>3, Induct
  <1> DEFINE N == Len(fs.list)
             reached == CHOOSE g : g = F(g, N)
  <1>2. reached = F(reached, N)
    <2>1. \E g : g = F(g, N)
      BY <1>1
    <2> HIDE DEF F, N
    <2> QED
      BY <2>1
  <1>3. PartialPacket(fs) = reached[N]
    BY DEF PartialPacket
  <1> HIDE DEF reached
  <1>4. reached[0] = 0 /\ \A i \in 1..N : reached[i] = Reached(reached[i - 1], fs.list[i])
    <2>1. \A i \in 0..N : reached[i] = IF i = 0 THEN 0 ELSE Reached(reached[i - 1], fs.list[i])
      BY <1>2
    <2>2. N \in Nat
      OBVIOUS
    <2> HIDE DEF N, F
    <2>3. 0 \in 0..N /\ \A i \in 1..N : i \in 0..N /\ i # 0
      BY <2>2
    <2> QED
      BY <2>1, <2>3
  <1> QED
    BY <1>3, <1>4

\* Numbers in a row.
LEMMA UnitsFacts ==
    ASSUME NEW m \in Nat, NEW n \in Nat
    PROVE  /\ Units(m, n) \in Seq(Nat) /\ Len(Units(m, n)) = n
           /\ Units(0, m) \o Units(m, n) = Units(0, m + n)
  <1>1. /\ Units(m, n) \in [1..n -> Nat] /\ Len(Units(m, n)) = n
        /\ Units(m, n) \in Seq(Nat)
    BY DEF Units
  <1>2. Units(0, m) \in Seq(Nat) /\ Len(Units(0, m)) = m
    BY DEF Units
  <1> DEFINE a == Units(0, m)
             b == Units(m, n)
             c == a \o b
  <1>3. a \in Seq(Nat) /\ b \in Seq(Nat) /\ Len(a) = m /\ Len(b) = n
    BY <1>1, <1>2
  <1>4. /\ \A i \in 1..m : a[i] = 0 + i - 1
        /\ \A i \in 1..n : b[i] = m + i - 1
    BY DEF Units
  <1> HIDE DEF a, b
  <1>5. c \in Seq(Nat) /\ Len(c) = m + n
    <2>1. c \in Seq(Nat) /\ Len(c) = Len(a) + Len(b)
      BY <1>3, ConcatProperties
    <2> HIDE DEF c
    <2> QED
      BY <1>3, <2>1
  <1>6. \A i \in 1..(m + n) : c[i] = 0 + i - 1
    <2>1. \A i \in 1..(Len(a) + Len(b)) : c[i] = IF i <= Len(a) THEN a[i] ELSE b[i - Len(a)]
      BY <1>3, ConcatProperties
    <2>2. ASSUME NEW i \in 1..(m + n) PROVE c[i] = 0 + i - 1
      <3>1. CASE i <= m
        BY <1>3, <1>4, <2>1, <3>1
      <3>2. CASE ~ (i <= m)
        <4>1. i - m \in 1..n /\ m + (i - m) - 1 = 0 + i - 1
          BY <3>2
        <4>2. c[i] = b[i - m] /\ b[i - m] = m + (i - m) - 1
          BY <1>3, <1>4, <2>1, <3>2, <4>1
        <4> QED
          BY <4>1, <4>2
      <3> QED
        BY <3>1, <3>2
    <2> QED
      BY <2>2
  <1>7. c = [i \in 1..(m + n) |-> 0 + i - 1]
    <2>1. \A w \in Seq(Nat) : w = [i \in 1..Len(w) |-> w[i]]
      OBVIOUS
    <2> HIDE DEF c
    <2> QED
      BY <1>5, <1>6, <2>1
  <1> QED
    BY <1>1, <1>7 DEF a, b, Units

\* A complete list makes up the whole packet: what was taken so far is all up
\* to where the fragments end so far.
LEMMA GetsTheWhole ==
    ASSUME NEW p \in Packets, NEW fs, ListOK(fs, p), IsEntire(fs), fs.list # <<>>
    PROVE  GetPacket(fs) = Units(0, Length[p])
  <1> DEFINE list == fs.list
             N == Len(list)
             L == Length[p]
             off(i) == list[i].offset
             end(i) == EndOf(list[i])
  <1>1. /\ N \in Nat \ {0} /\ L \in Nat \ {0} /\ DOMAIN list = 1..N
        /\ \A i \in 1..N : off(i) \in Nat /\ list[i].size \in Nat /\ end(i) = off(i) + list[i].size
    <2>1. list \in Seq(Piece(p)) /\ list # <<>>
      BY DEF ListOK
    <2>2. N \in Nat \ {0} /\ DOMAIN list = 1..N /\ \A i \in 1..N : list[i] \in Piece(p)
      BY <2>1
    <2>3. L \in Nat \ {0}
      BY LengthType
    <2> QED
      BY <2>2, <2>3 DEF Piece, EndOf
  <1>2. PICK taken : /\ taken[0] = <<>>
                     /\ \A i \in 1..N : taken[i] = Taken(taken[i - 1], list[i])
                     /\ GetPacket(fs) = taken[N]
    BY <1>1, GetPacketSteps
  <1>3. /\ \A i \in 1..N : end(i) <= L
        /\ end(N) = L
        /\ \A i \in 1..N : off(i) = 0 \/ \E j \in 1..(i - 1) : end(j) >= off(i)
    <2>1. \A i \in 1..N : end(i) <= L
      BY DEF ListOK
    <2>2. end(N) = L
      <3>1. ~ (end(N) < L)
        BY <1>1 DEF ListOK, IsEntire
      <3>2. N \in 1..N
        BY <1>1
      <3>3. end(N) \in Int /\ end(N) <= L /\ L \in Int
        <4>1. off(N) \in Nat /\ list[N].size \in Nat /\ end(N) = off(N) + list[N].size
          BY <1>1, <3>2
        <4>2. end(N) <= L
          BY <2>1, <3>2
        <4> HIDE DEF end, off
        <4> QED
          BY <1>1, <4>1, <4>2
      <3> HIDE DEF end, L
      <3> QED
        BY <3>1, <3>3
    <2>3. \A i \in 1..N : off(i) = 0 \/ \E j \in 1..(i - 1) : end(j) >= off(i)
      BY <1>1 DEF IsEntire
    <2> QED
      BY <2>1, <2>2, <2>3
  <1> DEFINE Upto(i, n) == /\ taken[i] = Units(0, n)
                           /\ \A j \in 1..i : end(j) <= n
                           /\ n = 0 \/ \E j \in 1..i : end(j) = n
             S == {i \in Nat : i <= N => \E n \in Nat : Upto(i, n)}
  <1> HIDE DEF list, N, off, end, L
  <1>4. 0 \in S
    <2>1. Units(0, 0) = <<>>
      BY DEF Units
    <2> QED
      BY <1>1, <1>2, <2>1
  <1>5. ASSUME NEW i \in S PROVE i + 1 \in S
    <2> SUFFICES ASSUME i + 1 <= N PROVE \E n \in Nat : Upto(i + 1, n)
      OBVIOUS
    <2>0. i \in Nat /\ i + 1 <= N
      OBVIOUS
    <2>1. PICK n \in Nat : Upto(i, n)
      BY <1>1
    <2> DEFINE e == list[i + 1]
    <2>2. /\ i \in Nat /\ i + 1 \in 1..N /\ i + 1 - 1 = i
          /\ off(i + 1) \in Nat /\ e.size \in Nat /\ end(i + 1) = off(i + 1) + e.size
          /\ e.offset = off(i + 1) /\ EndOf(e) = end(i + 1)
      BY <1>1 DEF off, end
    <2>3. n >= off(i + 1)
      <3>1. CASE off(i + 1) = 0
        BY <3>1
      <3>2. CASE \E j \in 1..(i + 1 - 1) : end(j) >= off(i + 1)
        <4>1. PICK j \in 1..i : end(j) >= off(i + 1)
          BY <2>2, <3>2
        <4>2. end(j) <= n /\ end(j) \in Nat
          <5>1. j \in 1..N
            BY <1>1, <2>0
          <5>2. off(j) \in Nat /\ list[j].size \in Nat /\ end(j) = off(j) + list[j].size
            BY <1>1, <5>1
          <5>3. end(j) <= n
            BY <2>1
          <5> QED
            BY <5>2, <5>3
        <4> QED
          BY <2>2, <4>1, <4>2
      <3> QED
        BY <1>3, <2>2, <3>1, <3>2
    <2>4. taken[i + 1] = Taken(Units(0, n), e)
      BY <1>2, <2>1, <2>2
    <2>5. Len(Units(0, n)) = n
      BY UnitsFacts
    <2>6. CASE end(i + 1) > n
      <3>1. end(i + 1) - n \in Nat /\ n + (end(i + 1) - n) = end(i + 1)
        BY <2>2, <2>6
      <3>2. Units(0, n) \o Units(n, end(i + 1) - n) = Units(0, end(i + 1))
        BY <3>1, UnitsFacts
      <3>3. taken[i + 1] = Units(0, end(i + 1))
        <4>1. CASE n > off(i + 1)
          <5>1. e.size > n - e.offset
            BY <2>2, <2>6, <4>1
          <5>2. Taken(Units(0, n), e) = Units(0, n) \o Units(n, end(i + 1) - n)
            BY <2>2, <2>5, <4>1, <5>1 DEF Taken
          <5> QED
            BY <2>4, <3>2, <5>2
        <4>2. CASE n = off(i + 1)
          <5>1. e.size = end(i + 1) - n /\ ~ (n > e.offset) /\ e.offset = n
            BY <2>2, <4>2
          <5>2. Taken(Units(0, n), e) = Units(0, n) \o Units(n, end(i + 1) - n)
            BY <2>5, <5>1 DEF Taken
          <5> QED
            BY <2>4, <3>2, <5>2
        <4> QED
          BY <2>2, <2>3, <4>1, <4>2
      <3>4. \A j \in 1..(i + 1) : end(j) <= end(i + 1)
        <4> TAKE j \in 1..(i + 1)
        <4>1. CASE j = i + 1
          BY <2>2, <4>1
        <4>2. CASE j # i + 1
          <5>1. j \in 1..i /\ j \in 1..N
            BY <1>1, <2>0, <4>2
          <5>2. off(j) \in Nat /\ list[j].size \in Nat /\ end(j) = off(j) + list[j].size
            BY <1>1, <5>1
          <5>3. end(j) <= n
            BY <2>1, <5>1
          <5> QED
            BY <2>2, <2>6, <5>2, <5>3
        <4> QED
          BY <4>1, <4>2
      <3>5. i + 1 \in 1..(i + 1) /\ end(i + 1) \in Nat
        BY <2>2
      <3>6. Upto(i + 1, end(i + 1))
        BY <3>3, <3>4, <3>5
      <3> HIDE DEF Upto
      <3> QED
        BY <3>5, <3>6
    <2>7. CASE ~ (end(i + 1) > n)
      <3>1. taken[i + 1] = Units(0, n)
        <4>1. CASE n > off(i + 1)
          <5>1. ~ (e.size > n - e.offset) /\ n > e.offset
            BY <2>2, <2>7, <4>1
          <5> QED
            BY <2>4, <2>5, <5>1 DEF Taken
        <4>2. CASE n = off(i + 1)
          <5>1. e.size = 0 /\ e.offset = n /\ ~ (n > e.offset) /\ n + 0 = n
            BY <2>2, <2>7, <4>2
          <5>2. Taken(Units(0, n), e) = Units(0, n) \o Units(n, 0)
            BY <2>5, <5>1 DEF Taken
          <5>3. Units(0, n) \o Units(n, 0) = Units(0, n + 0)
            BY UnitsFacts
          <5> QED
            BY <2>4, <5>1, <5>2, <5>3
        <4> QED
          BY <2>2, <2>3, <4>1, <4>2
      <3>2. \A j \in 1..(i + 1) : end(j) <= n
        <4> TAKE j \in 1..(i + 1)
        <4>1. CASE j = i + 1
          BY <2>2, <2>7, <4>1
        <4>2. CASE j # i + 1
          <5>1. j \in 1..i
            BY <2>2, <4>2
          <5> QED
            BY <2>1, <5>1
        <4> QED
          BY <4>1, <4>2
      <3>3. n = 0 \/ \E j \in 1..(i + 1) : end(j) = n
        <4>1. \A j \in 1..i : j \in 1..(i + 1)
          BY <2>2
        <4> QED
          BY <2>1, <4>1
      <3> QED
        BY <3>1, <3>2, <3>3
    <2> QED
      BY <2>6, <2>7
  <1>6. S = Nat
    <2>1. S \in SUBSET Nat
      OBVIOUS
    <2> HIDE DEF S
    <2> QED
      BY <1>4, <1>5, <2>1, Induct
  <1>7. PICK n \in Nat : Upto(N, n)
    <2> HIDE DEF Upto
    <2>1. N \in S /\ N <= N
      <3> HIDE DEF S
      <3> QED
        BY <1>1, <1>6
    <2> QED
      BY <2>1
  <1>8. n = L
    <2>1. N \in 1..N /\ L <= n
      BY <1>1, <1>3, <1>7
    <2>2. n <= L
      BY <1>1, <1>3, <1>7
    <2> QED
      BY <1>1, <2>1, <2>2
  <1> QED
    BY <1>2, <1>7, <1>8 DEF L

\* What is covered is covered by one of the fragments.
LEMMA CoveredFacts ==
    ASSUME NEW fs, DOMAIN fs.list = 1..Len(fs.list), NEW u
    PROVE  u \in Covered(fs) <=>
             \E i \in 1..Len(fs.list) : u \in fs.list[i].offset..(EndOf(fs.list[i]) - 1)
  BY DEF Covered, ToSet

\* What PartsAreKnown says of one list.
PartKnown(fs, p) ==
    LET n == PartialPacket(fs)
        covered == Covered(fs)
    IN  /\ covered = 0..(Length[p] - 1) => EndOf(Last(fs.list)) < Length[p]
        /\ 0..(n - 1) \subseteq covered /\ n \notin covered

\* Of an incomplete list there is a gap, or its last fragment has the flag; and
\* where PartialPacket stops nothing is.
LEMMA KnowsItsPart ==
    ASSUME NEW p \in Packets, NEW fs, ListOK(fs, p), ~ IsEntire(fs), fs.list # <<>>
    PROVE  PartKnown(fs, p)
  <1> DEFINE list == fs.list
             N == Len(list)
             L == Length[p]
             off(i) == list[i].offset
             end(i) == EndOf(list[i])
             covered == Covered(fs)
  <1>1. /\ N \in Nat \ {0} /\ L \in Nat \ {0} /\ DOMAIN list = 1..N
        /\ \A i \in 1..N : off(i) \in Nat /\ list[i].size \in Nat \ {0}
                           /\ end(i) = off(i) + list[i].size
    <2>1. list \in Seq(Piece(p)) /\ list # <<>>
      BY DEF ListOK
    <2>2. N \in Nat \ {0} /\ DOMAIN list = 1..N /\ \A i \in 1..N : list[i] \in Piece(p)
      BY <2>1
    <2>3. L \in Nat \ {0}
      BY LengthType
    <2> QED
      BY <2>2, <2>3 DEF Piece, EndOf
  <1>2. \A i \in 1..N : off(i) \in Nat /\ end(i) \in Nat /\ off(i) < end(i)
    <2> TAKE i \in 1..N
    <2>1. off(i) \in Nat /\ list[i].size \in Nat \ {0} /\ end(i) = off(i) + list[i].size
      BY <1>1
    <2> HIDE DEF off, end
    <2> QED
      BY <2>1
  <1>3. \A i, j \in 1..N : i < j => off(i) <= off(j)
    BY DEF ListOK
  <1>4. \A u : u \in covered <=> \E i \in 1..N : u \in off(i)..(end(i) - 1)
    BY <1>1, CoveredFacts
  <1>5. PICK reached : /\ reached[0] = 0
                       /\ \A i \in 1..N : reached[i] = Reached(reached[i - 1], list[i])
                       /\ PartialPacket(fs) = reached[N]
    BY <1>1, PartialPacketSteps
  <1>6. fs.more <=> end(N) < L
    BY DEF ListOK
  <1>7. ~ fs.more => \E i \in 1..N : off(i) # 0 /\ \A j \in 1..(i - 1) : ~ (end(j) >= off(i))
    BY <1>1 DEF IsEntire
  <1> DEFINE Stops(i, n) == /\ reached[i] = n
                            /\ \A u \in 0..(n - 1) : u \in covered
                            /\ \A j \in 1..i : off(j) <= n => end(j) <= n
             S == {i \in Nat : i <= N => \E n \in Nat : Stops(i, n)}
  <1>8. \A i \in 1..N : Reached(reached[i - 1], list[i]) =
            IF reached[i - 1] >= off(i) /\ end(i) > reached[i - 1] THEN end(i) ELSE reached[i - 1]
    BY DEF Reached
  <1>9. EndOf(Last(list)) = end(N)
    BY DEF Last
  <1> HIDE DEF list, N, off, end, L, covered
  <1>10. 0 \in S
    BY <1>5
  <1>11. ASSUME NEW i \in S PROVE i + 1 \in S
    <2> SUFFICES ASSUME i + 1 <= N PROVE \E n \in Nat : Stops(i + 1, n)
      OBVIOUS
    <2>0. i \in Nat /\ i + 1 <= N
      OBVIOUS
    <2>1. PICK n \in Nat : Stops(i, n)
      BY <1>1
    <2>2. i + 1 \in 1..N /\ i + 1 - 1 = i /\ \A j \in 1..i : j \in 1..N /\ j < i + 1
      BY <1>1, <2>0
    <2>3. off(i + 1) \in Nat /\ end(i + 1) \in Nat /\ off(i + 1) < end(i + 1)
      BY <1>2, <2>2
    <2>4. reached[i + 1] = IF n >= off(i + 1) /\ end(i + 1) > n THEN end(i + 1) ELSE n
      BY <1>5, <1>8, <2>1, <2>2
    <2>5. \A j \in 1..i : off(j) \in Nat /\ end(j) \in Nat /\ off(j) <= off(i + 1)
      BY <1>2, <1>3, <2>2
    <2>6. CASE n >= off(i + 1) /\ end(i + 1) > n
      <3>1. \A u \in 0..(end(i + 1) - 1) : u \in covered
        <4> TAKE u \in 0..(end(i + 1) - 1)
        <4>1. CASE u < n
          BY <2>1, <2>3, <4>1
        <4>2. CASE u >= n
          <5>1. u \in off(i + 1)..(end(i + 1) - 1)
            BY <2>3, <2>6, <4>2
          <5> QED
            BY <1>4, <2>2, <5>1
        <4> QED
          BY <2>3, <4>1, <4>2
      <3>2. \A j \in 1..(i + 1) : off(j) <= end(i + 1) => end(j) <= end(i + 1)
        <4> TAKE j \in 1..(i + 1)
        <4>1. CASE j = i + 1
          BY <2>3, <4>1
        <4>2. CASE j # i + 1
          <5>1. j \in 1..i
            BY <2>0, <4>2
          <5>2. off(j) \in Nat /\ end(j) \in Nat /\ off(j) <= n
            BY <2>3, <2>5, <2>6, <5>1
          <5>3. end(j) <= n
            BY <2>1, <5>1, <5>2
          <5> QED
            BY <2>3, <2>6, <5>2, <5>3
        <4> QED
          BY <4>1, <4>2
      <3>3. Stops(i + 1, end(i + 1))
        BY <2>4, <2>6, <3>1, <3>2
      <3> HIDE DEF Stops
      <3> QED
        BY <2>3, <3>3
    <2>7. CASE ~ (n >= off(i + 1) /\ end(i + 1) > n)
      <3>1. \A j \in 1..(i + 1) : off(j) <= n => end(j) <= n
        <4> TAKE j \in 1..(i + 1)
        <4>1. CASE j = i + 1
          BY <2>3, <2>7, <4>1
        <4>2. CASE j # i + 1
          <5>1. j \in 1..i
            BY <2>0, <4>2
          <5> QED
            BY <2>1, <5>1
        <4> QED
          BY <4>1, <4>2
      <3>2. Stops(i + 1, n)
        BY <2>1, <2>4, <2>7, <3>1
      <3> HIDE DEF Stops
      <3> QED
        BY <3>2
    <2> QED
      BY <2>6, <2>7
  <1>12. S = Nat
    <2>1. S \in SUBSET Nat
      OBVIOUS
    <2> HIDE DEF S
    <2> QED
      BY <1>10, <1>11, <2>1, Induct
  <1>13. PICK n \in Nat : Stops(N, n)
    <2> HIDE DEF Stops
    <2>1. N \in S /\ N <= N
      <3> HIDE DEF S
      <3> QED
        BY <1>1, <1>12
    <2> QED
      BY <2>1
  <1>14. n \notin covered
    <2> SUFFICES ASSUME n \in covered PROVE FALSE
      OBVIOUS
    <2>1. PICK i \in 1..N : n \in off(i)..(end(i) - 1)
      BY <1>4
    <2>2. off(i) \in Nat /\ end(i) \in Nat /\ off(i) <= n /\ n < end(i)
      BY <1>2, <2>1
    <2>3. end(i) <= n
      BY <1>13, <2>2
    <2> QED
      BY <2>2, <2>3
  <1>15. ASSUME covered = 0..(L - 1) PROVE end(N) < L
    <2> SUFFICES ASSUME ~ (end(N) < L) PROVE FALSE
      OBVIOUS
    <2>1. PICK i \in 1..N : off(i) # 0 /\ \A j \in 1..(i - 1) : ~ (end(j) >= off(i))
      BY <1>6, <1>7
    <2>2. off(i) \in Nat \ {0} /\ end(i) \in Nat /\ off(i) < end(i) /\ i \in Nat
      BY <1>1, <1>2, <2>1
    <2>3. off(i) - 1 \in covered
      <3>1. off(i) \in off(i)..(end(i) - 1)
        BY <2>2
      <3>2. off(i) \in covered
        BY <1>4, <3>1
      <3>3. off(i) \in 0..(L - 1)
        BY <1>15, <3>2
      <3> QED
        BY <1>1, <1>15, <2>2, <3>3
    <2>4. PICK j \in 1..N : off(i) - 1 \in off(j)..(end(j) - 1)
      BY <1>4, <2>3
    <2>5. off(j) \in Nat /\ end(j) \in Nat /\ off(j) < off(i) /\ off(i) <= end(j)
      BY <1>2, <2>2, <2>4
    <2>6. j \in 1..(i - 1)
      <3>1. ~ (i < j) /\ i # j
        BY <1>3, <2>2, <2>5
      <3> QED
        BY <1>1, <3>1
    <2> QED
      BY <2>1, <2>2, <2>5, <2>6
  <1>16. \A u \in 0..(n - 1) : u \in covered
    BY <1>13
  <1>17. PartialPacket(fs) = n
    BY <1>5, <1>13
  <1> QED
    BY <1>9, <1>14, <1>15, <1>16, <1>17 DEF PartKnown, covered, list, L

-----------------------------------------------------------------------------
(* How many events are scheduled: there is a token for each *)

Times == 0..FragmentTimeout

Scheduled(events) == {x \in Times \X (Nat \ {0}) : x[2] <= events[x[1]]}

\* No more than n.
Few(events, n) ==
    IsFiniteSet(Scheduled(events)) /\ Cardinality(Scheduled(events)) <= n

LEMMA TimeoutType == FragmentTimeout \in Nat \ {0} /\ 0 \in Times /\ FragmentTimeout \in Times
  BY FragmentsAssumption DEF Times

LEMMA ScheduledFacts ==
    \A events, t, k : <<t, k>> \in Scheduled(events) <=>
        t \in Times /\ k \in Nat \ {0} /\ k <= events[t]
  BY DEF Scheduled

LEMMA ScheduledArePairs ==
    ASSUME NEW events, NEW x \in Scheduled(events)
    PROVE  x = <<x[1], x[2]>> /\ x[1] \in Times /\ x[2] \in Nat \ {0} /\ x[2] <= events[x[1]]
  BY DEF Scheduled

\* None at the start.
LEMMA NoneScheduled == Few([t \in Times |-> 0], 0)
  <1>1. Scheduled([t \in Times |-> 0]) = {}
    BY DEF Scheduled
  <1> QED
    BY <1>1, FS_EmptySet DEF Few

LEMMA ScheduleOne ==
    ASSUME NEW events \in [Times -> Nat], NEW t \in Times, NEW n \in Nat, Few(events, n)
    PROVE  Few([events EXCEPT ![t] = @ + 1], n + 1)
  <1> DEFINE more == [events EXCEPT ![t] = @ + 1]
             x == <<t, events[t] + 1>>
  <1>1. more \in [Times -> Nat] /\ \A u \in Times : more[u] = IF u = t THEN events[t] + 1 ELSE events[u]
    OBVIOUS
  <1> HIDE DEF more
  <1>2. Scheduled(more) = Scheduled(events) \cup {x}
    <2>1. ASSUME NEW y \in Scheduled(more) PROVE y \in Scheduled(events) \cup {x}
      <3>1. y = <<y[1], y[2]>> /\ y[1] \in Times /\ y[2] \in Nat \ {0} /\ y[2] <= more[y[1]]
        BY ScheduledArePairs
      <3>2. CASE y[2] <= events[y[1]]
        BY <3>1, <3>2, ScheduledFacts
      <3>3. CASE ~ (y[2] <= events[y[1]])
        <4>1. events[y[1]] \in Nat /\ events[t] \in Nat
          BY <3>1
        <4>2. y[1] = t /\ y[2] = events[t] + 1
          BY <1>1, <3>1, <3>3, <4>1
        <4> QED
          BY <3>1, <4>2
      <3> QED
        BY <3>2, <3>3
    <2>2. ASSUME NEW y \in Scheduled(events) PROVE y \in Scheduled(more)
      <3>1. y = <<y[1], y[2]>> /\ y[1] \in Times /\ y[2] \in Nat \ {0} /\ y[2] <= events[y[1]]
        BY ScheduledArePairs
      <3>2. y[2] <= more[y[1]]
        BY <1>1, <3>1
      <3> QED
        BY <3>1, <3>2, ScheduledFacts
    <2>3. x \in Scheduled(more)
      <3>1. events[t] + 1 \in Nat \ {0} /\ events[t] + 1 <= more[t]
        BY <1>1
      <3> QED
        BY <3>1, ScheduledFacts
    <2> QED
      BY <2>1, <2>2, <2>3
  <1>3. /\ IsFiniteSet(Scheduled(events) \cup {x})
        /\ Cardinality(Scheduled(events) \cup {x}) <= Cardinality(Scheduled(events)) + 1
        /\ Cardinality(Scheduled(events)) \in Nat /\ Cardinality(Scheduled(events)) <= n
    <2>1. IsFiniteSet(Scheduled(events)) /\ Cardinality(Scheduled(events)) <= n
      BY DEF Few
    <2>2. Cardinality(Scheduled(events)) \in Nat
      BY <2>1, FS_CardinalityType
    <2>3. /\ IsFiniteSet(Scheduled(events) \cup {x})
          /\ Cardinality(Scheduled(events) \cup {x}) =
               IF x \in Scheduled(events) THEN Cardinality(Scheduled(events))
               ELSE Cardinality(Scheduled(events)) + 1
      BY <2>1, FS_AddElement
    <2> QED
      BY <2>1, <2>2, <2>3
  <1>4. Cardinality(Scheduled(events) \cup {x}) \in Nat
    BY <1>3, FS_CardinalityType
  <1>5. Cardinality(Scheduled(events) \cup {x}) <= n + 1
    BY <1>3, <1>4
  <1>6. Few(more, n + 1)
    BY <1>2, <1>3, <1>5 DEF Few
  <1> QED
    BY <1>6 DEF more

LEMMA FireOne ==
    ASSUME NEW events \in [Times -> Nat], NEW t \in Times, events[t] > 0,
           NEW n \in Nat, Few(events, n + 1)
    PROVE  /\ [events EXCEPT ![t] = @ - 1] \in [Times -> Nat]
           /\ Few([events EXCEPT ![t] = @ - 1], n)
  <1> DEFINE fewer == [events EXCEPT ![t] = @ - 1]
             x == <<t, events[t]>>
  <1>1. /\ fewer \in [Times -> Nat]
        /\ \A u \in Times : fewer[u] = IF u = t THEN events[t] - 1 ELSE events[u]
    OBVIOUS
  <1> HIDE DEF fewer
  <1>2. Scheduled(fewer) = Scheduled(events) \ {x}
    <2>1. ASSUME NEW y \in Scheduled(fewer) PROVE y \in Scheduled(events) \ {x}
      <3>1. y = <<y[1], y[2]>> /\ y[1] \in Times /\ y[2] \in Nat \ {0} /\ y[2] <= fewer[y[1]]
        BY ScheduledArePairs
      <3>2. events[y[1]] \in Nat /\ events[t] \in Nat
        BY <3>1
      <3>3. y[2] <= events[y[1]] /\ (y[1] = t => y[2] # events[t])
        BY <1>1, <3>1, <3>2
      <3> QED
        BY <3>1, <3>3, ScheduledFacts
    <2>2. ASSUME NEW y \in Scheduled(events), y # x PROVE y \in Scheduled(fewer)
      <3>1. y = <<y[1], y[2]>> /\ y[1] \in Times /\ y[2] \in Nat \ {0} /\ y[2] <= events[y[1]]
        BY ScheduledArePairs
      <3>2. y[1] = t => y[2] # events[t]
        BY <2>2, <3>1
      <3>3. y[2] <= fewer[y[1]]
        <4>1. events[y[1]] \in Nat /\ events[t] \in Nat
          BY <3>1
        <4> QED
          BY <1>1, <3>1, <3>2, <4>1
      <3> QED
        BY <3>1, <3>3, ScheduledFacts
    <2> QED
      BY <2>1, <2>2
  <1>3. x \in Scheduled(events)
    <2>1. events[t] \in Nat \ {0} /\ events[t] <= events[t]
      OBVIOUS
    <2> QED
      BY <2>1, ScheduledFacts
  <1>4. IsFiniteSet(Scheduled(events)) /\ Cardinality(Scheduled(events)) <= n + 1
    BY DEF Few
  <1>5. /\ IsFiniteSet(Scheduled(events) \ {x})
        /\ Cardinality(Scheduled(events) \ {x}) = Cardinality(Scheduled(events)) - 1
    BY <1>3, <1>4, FS_RemoveElement
  <1>6. Cardinality(Scheduled(events)) \in Nat
    BY <1>4, FS_CardinalityType
  <1>7. Cardinality(Scheduled(events) \ {x}) <= n
    BY <1>4, <1>5, <1>6
  <1>8. Few(fewer, n)
    BY <1>2, <1>5, <1>7 DEF Few
  <1> QED
    BY <1>1, <1>8 DEF fewer

\* Time passes: each token moves to the time before its own.
LEMMA Later ==
    ASSUME NEW events \in [Times -> Nat], events[0] = 0, NEW n \in Nat, Few(events, n),
           NEW later, later = [t \in Times |-> IF t = FragmentTimeout THEN 0 ELSE events[t + 1]]
    PROVE  /\ later \in [Times -> Nat]
           /\ Few(later, n)
  <1>1. \A t \in Times : t # FragmentTimeout => t + 1 \in Times
    BY TimeoutType DEF Times
  <1>2. later \in [Times -> Nat]
    BY <1>1
  <1> DEFINE f == [x \in Scheduled(events) |-> <<x[1] - 1, x[2]>>]
  <1>3. f \in Surjection(Scheduled(events), Scheduled(later))
    <2>1. ASSUME NEW x \in Scheduled(events) PROVE <<x[1] - 1, x[2]>> \in Scheduled(later)
      <3>1. x[1] \in Times /\ x[2] \in Nat \ {0} /\ x[2] <= events[x[1]]
        BY ScheduledArePairs
      <3>2. x[1] # 0
        BY <3>1
      <3>3. x[1] - 1 \in Times /\ x[1] - 1 # FragmentTimeout /\ x[1] - 1 + 1 = x[1]
        BY <3>1, <3>2, TimeoutType DEF Times
      <3>4. later[x[1] - 1] = events[x[1]]
        BY <3>3
      <3> QED
        BY <3>1, <3>3, <3>4, ScheduledFacts
    <2>2. ASSUME NEW y \in Scheduled(later) PROVE \E x \in Scheduled(events) : f[x] = y
      <3>1. y = <<y[1], y[2]>> /\ y[1] \in Times /\ y[2] \in Nat \ {0} /\ y[2] <= later[y[1]]
        BY ScheduledArePairs
      <3>2. y[1] # FragmentTimeout /\ later[y[1]] = events[y[1] + 1]
        BY <3>1
      <3>3. y[1] + 1 \in Times /\ y[1] + 1 - 1 = y[1]
        BY <1>1, <3>1, <3>2 DEF Times
      <3>4. <<y[1] + 1, y[2]>> \in Scheduled(events)
        BY <3>1, <3>2, <3>3, ScheduledFacts
      <3>5. f[<<y[1] + 1, y[2]>>] = <<y[1], y[2]>>
        <4>1. \A x \in Scheduled(events) : f[x] = <<x[1] - 1, x[2]>>
          OBVIOUS
        <4> DEFINE x == <<y[1] + 1, y[2]>>
        <4>2. x[1] = y[1] + 1 /\ x[2] = y[2] /\ x \in Scheduled(events)
          BY <3>4
        <4> HIDE DEF f, x
        <4>3. f[x] = <<x[1] - 1, x[2]>>
          BY <4>1, <4>2
        <4>4. x[1] - 1 = y[1]
          <5>1. y[1] \in Int
            BY <3>1, TimeoutType DEF Times
          <5> QED
            BY <4>2, <5>1
        <4>5. f[x] = <<y[1], y[2]>>
          BY <4>2, <4>3, <4>4
        <4> QED
          BY <4>5 DEF x
      <3> HIDE DEF f
      <3> QED
        BY <3>1, <3>4, <3>5
    <2>3. f \in [Scheduled(events) -> Scheduled(later)]
      BY <2>1
    <2> HIDE DEF f
    <2> QED
      BY <2>2, <2>3 DEF Surjection
  <1>4. IsFiniteSet(Scheduled(events)) /\ Cardinality(Scheduled(events)) <= n
    BY DEF Few
  <1> HIDE DEF f
  <1>5. IsFiniteSet(Scheduled(later)) /\ Cardinality(Scheduled(later)) <= Cardinality(Scheduled(events))
    BY <1>3, <1>4, FS_Surjection
  <1>6. Cardinality(Scheduled(later)) \in Nat /\ Cardinality(Scheduled(events)) \in Nat
    BY <1>4, <1>5, FS_CardinalityType
  <1>7. Cardinality(Scheduled(later)) <= n
    BY <1>4, <1>5, <1>6
  <1> QED
    BY <1>2, <1>5, <1>7 DEF Few

\* No time has more events than there are.
LEMMA FewAtOnce ==
    ASSUME NEW events \in [Times -> Nat], NEW n \in Nat, Few(events, n), NEW t \in Times
    PROVE  events[t] <= n
  <1> DEFINE m == events[t]
             f == [k \in 1..m |-> <<t, k>>]
  <1>1. m \in Nat
    OBVIOUS
  <1>2. f \in Injection(1..m, Scheduled(events))
    <2>1. \A k \in 1..m : <<t, k>> \in Scheduled(events)
      BY <1>1, ScheduledFacts
    <2>2. f \in [1..m -> Scheduled(events)]
      BY <2>1
    <2>3. \A a, b \in 1..m : f[a] = f[b] => a = b
      OBVIOUS
    <2> HIDE DEF f, m
    <2> QED
      BY <2>2, <2>3 DEF Injection, IsInjective
  <1>3. IsFiniteSet(Scheduled(events)) /\ Cardinality(Scheduled(events)) <= n
    BY DEF Few
  <1> HIDE DEF f, m
  <1>4. Cardinality(1..m) <= Cardinality(Scheduled(events)) /\ Cardinality(Scheduled(events)) \in Nat
    BY <1>2, <1>3, FS_Injection, FS_CardinalityType
  <1>5. Cardinality(1..m) = m
    <2>1. Cardinality(1..m) = IF 1 > m THEN 0 ELSE m - 1 + 1
      BY <1>1, FS_Interval
    <2> QED
      BY <1>1, <2>1
  <1>6. m <= n
    BY <1>1, <1>3, <1>4, <1>5
  <1> QED
    BY <1>6 DEF m

-----------------------------------------------------------------------------
(* The list of timeouts *)

Timeout == [key : Packets, left : Times]

\* Each of the keys has its one timeout, and they are in the order of time.
TimeoutsOK(list, keys) ==
    /\ list \in Seq(Timeout)
    /\ \A i \in 1..Len(list) : list[i].key \in keys
    /\ \A k \in keys : \E i \in 1..Len(list) : list[i].key = k
    /\ \A i, j \in 1..Len(list) :
          i < j => list[i].key # list[j].key /\ list[i].left <= list[j].left

\* An event comes when the first is due, or before.
EventComes(list, events) ==
    list # <<>> => \E t \in 0..list[1].left : events[t] > 0

LEMMA TimeoutFacts ==
    ASSUME NEW list \in Seq(Timeout)
    PROVE  /\ Len(list) \in Nat /\ DOMAIN list = 1..Len(list)
           /\ \A i \in 1..Len(list) : list[i].key \in Packets /\ list[i].left \in Times
                                      /\ list[i].left \in Nat
           /\ list # <<>> <=> 1 \in 1..Len(list)
  <1>1. Len(list) \in Nat /\ DOMAIN list = 1..Len(list) /\ (list # <<>> <=> 1 \in 1..Len(list))
    OBVIOUS
  <1>2. \A i \in 1..Len(list) : list[i] \in Timeout
    OBVIOUS
  <1>3. \A i \in 1..Len(list) : list[i].key \in Packets /\ list[i].left \in Times
    BY <1>2 DEF Timeout
  <1>4. \A t \in Times : t \in Nat
    BY TimeoutType DEF Times
  <1> QED
    BY <1>1, <1>3, <1>4

LEMMA TimeoutsOKFacts ==
    ASSUME NEW list, NEW keys, TimeoutsOK(list, keys)
    PROVE  /\ Len(list) \in Nat /\ list \in Seq(Timeout) /\ DOMAIN list = 1..Len(list)
           /\ \A i \in 1..Len(list) : list[i].left \in Times /\ list[i].left \in Nat
                                      /\ list[i].key \in Packets /\ list[i].key \in keys
           /\ \A y \in keys : \E i \in 1..Len(list) : list[i].key = y
           /\ \A i, j \in 1..Len(list) :
                 i < j => list[i].key # list[j].key /\ list[i].left <= list[j].left
           /\ list # <<>> <=> 1 \in 1..Len(list)
  <1> DEFINE n == Len(list)
  <1>1. list \in Seq(Timeout)
    BY DEF TimeoutsOK
  <1>2. /\ n \in Nat /\ DOMAIN list = 1..n /\ (list # <<>> <=> 1 \in 1..n)
        /\ \A i \in 1..n : list[i].key \in Packets /\ list[i].left \in Times
                          /\ list[i].left \in Nat
    BY <1>1, TimeoutFacts
  <1>3. /\ \A i \in 1..n : list[i].key \in keys
        /\ \A y \in keys : \E i \in 1..n : list[i].key = y
        /\ \A i, j \in 1..n : i < j => list[i].key # list[j].key /\ list[i].left <= list[j].left
    BY DEF TimeoutsOK
  <1> QED
    BY <1>1, <1>2, <1>3

LEMMA TimeoutRemoved ==
    ASSUME NEW list, NEW keys, TimeoutsOK(list, keys),
           NEW at \in 1..Len(list), NEW new, new \in Seq(Timeout), Removed(new, list, at)
    PROVE  /\ TimeoutsOK(new, keys \ {list[at].key})
           /\ \A events : EventComes(list, events) => EventComes(new, events)
  <1> DEFINE n == Len(list)
  <1>1. /\ n \in Nat /\ at \in 1..n /\ Len(new) = n - 1
        /\ \A i \in 1..(n - 1) : new[i] = IF i < at THEN list[i] ELSE list[i + 1]
        /\ \A i \in 1..n : list[i].left \in Nat /\ list[i].key \in keys
        /\ \A k \in keys : \E i \in 1..n : list[i].key = k
        /\ \A i, j \in 1..n : i < j => list[i].key # list[j].key /\ list[i].left <= list[j].left
    BY TimeoutFacts DEF TimeoutsOK, Removed
  <1>2. list # <<>> /\ 1 \in 1..n
    BY <1>1
  <1>3. new # <<>> => 1 \in 1..(n - 1)
    BY <1>1, TimeoutFacts
  <1> HIDE DEF n
  <1> DEFINE k == list[at].key
             from(i) == IF i < at THEN i ELSE i + 1
  <1>4. \A i \in 1..(n - 1) : from(i) \in 1..n /\ from(i) # at /\ new[i] = list[from(i)]
    BY <1>1
  <1>5. \A i, j \in 1..(n - 1) : i < j => from(i) < from(j)
    BY <1>1
  <1> HIDE DEF from, k
  <1>6. \A i \in 1..(n - 1) : new[i].key \in keys \ {k}
    <2> TAKE i \in 1..(n - 1)
    <2>1. list[from(i)].key # k
      <3>1. from(i) < at \/ at < from(i)
        BY <1>1, <1>4
      <3> QED
        BY <1>1, <1>4, <3>1 DEF k
    <2> QED
      BY <1>1, <1>4, <2>1
  <1>7. ASSUME NEW x \in keys \ {k} PROVE \E i \in 1..(n - 1) : new[i].key = x
    <2>1. PICK j \in 1..n : list[j].key = x
      BY <1>1
    <2>2. j # at
      BY <2>1 DEF k
    <2>3. CASE j < at
      <3>1. j \in 1..(n - 1) /\ new[j] = list[j]
        BY <1>1, <2>3
      <3> QED
        BY <2>1, <3>1
    <2>4. CASE j > at
      <3>1. j - 1 \in 1..(n - 1) /\ ~ (j - 1 < at) /\ j - 1 + 1 = j
        BY <1>1, <2>4
      <3>2. new[j - 1] = list[j]
        BY <1>1, <3>1
      <3> QED
        BY <2>1, <3>1, <3>2
    <2> QED
      BY <1>1, <2>2, <2>3, <2>4
  <1>8. \A i, j \in 1..(n - 1) : i < j => new[i].key # new[j].key /\ new[i].left <= new[j].left
    <2> TAKE i \in 1..(n - 1), j \in 1..(n - 1)
    <2> HAVE i < j
    <2>1. /\ from(i) \in 1..n /\ from(j) \in 1..n /\ from(i) < from(j)
          /\ new[i] = list[from(i)] /\ new[j] = list[from(j)]
      BY <1>4, <1>5
    <2>2. list[from(i)].key # list[from(j)].key /\ list[from(i)].left <= list[from(j)].left
      <3> DEFINE a == from(i)
                 b == from(j)
      <3>1. a \in 1..n /\ b \in 1..n /\ a < b
        BY <2>1
      <3> HIDE DEF a, b
      <3>2. list[a].key # list[b].key /\ list[a].left <= list[b].left
        BY <1>1, <3>1
      <3> QED
        BY <3>2 DEF a, b
    <2> QED
      BY <2>1, <2>2
  <1>9. TimeoutsOK(new, keys \ {k})
    BY <1>1, <1>6, <1>7, <1>8 DEF TimeoutsOK
  <1>10. new # <<>> => new[1].left \in Nat /\ list[1].left \in Nat /\ list[1].left <= new[1].left
    <2> SUFFICES ASSUME new # <<>>
                 PROVE  new[1].left \in Nat /\ list[1].left \in Nat /\ list[1].left <= new[1].left
      OBVIOUS
    <2>1. 1 \in 1..(n - 1) /\ from(1) \in 1..n /\ new[1] = list[from(1)]
      BY <1>3, <1>4
    <2>2. from(1) = 1 \/ 1 < from(1)
      BY <1>1, <2>1
    <2> QED
      BY <1>1, <1>2, <2>1, <2>2
  <1>11. \A events : EventComes(list, events) => EventComes(new, events)
    BY <1>2, <1>10 DEF EventComes
  <1> QED
    BY <1>9, <1>11 DEF k

LEMMA TimeoutAppended ==
    ASSUME NEW list, NEW keys, TimeoutsOK(list, keys), NEW k \in Packets, k \notin keys,
           NEW new, new = Append(list, [key |-> k, left |-> FragmentTimeout])
    PROVE  /\ TimeoutsOK(new, keys \cup {k})
           /\ list # <<>> => new[1] = list[1]
           /\ list = <<>> => new[1].left = FragmentTimeout
  <1> DEFINE n == Len(list)
             x == [key |-> k, left |-> FragmentTimeout]
  <1>1. /\ n \in Nat /\ list \in Seq(Timeout)
        /\ \A i \in 1..n : list[i].left \in Times /\ list[i].key \in keys
        /\ \A y \in keys : \E i \in 1..n : list[i].key = y
        /\ \A i, j \in 1..n : i < j => list[i].key # list[j].key /\ list[i].left <= list[j].left
        /\ list # <<>> <=> 1 \in 1..n
    BY TimeoutsOKFacts
  <1>2. x \in Timeout /\ x.key = k /\ x.left = FragmentTimeout
    BY TimeoutType DEF Timeout
  <1>3. \A i \in 1..n : list[i].left <= FragmentTimeout
    BY <1>1, TimeoutType DEF Times
  <1> HIDE DEF x
  <1>4. /\ new \in Seq(Timeout) /\ Len(new) = n + 1 /\ new[n + 1] = x
        /\ \A i \in 1..n : new[i] = list[i]
    BY <1>1, <1>2, AppendFacts DEF x
  <1> HIDE DEF n
  <1>5. \A i \in 1..(n + 1) : i \in 1..n \/ i = n + 1
    BY <1>1
  <1>6. \A i \in 1..(n + 1) : new[i].key \in keys \cup {k}
    BY <1>1, <1>2, <1>4, <1>5
  <1>7. \A y \in keys \cup {k} : \E i \in 1..(n + 1) : new[i].key = y
    <2>1. \A i \in 1..n : i \in 1..(n + 1)
      BY <1>1
    <2>2. n + 1 \in 1..(n + 1)
      BY <1>1
    <2> QED
      BY <1>1, <1>2, <1>4, <2>1, <2>2
  <1>8. ASSUME NEW i \in 1..(n + 1), NEW j \in 1..(n + 1), i < j
        PROVE  new[i].key # new[j].key /\ new[i].left <= new[j].left
    <2>1. i \in 1..n
      BY <1>1, <1>8
    <2>2. CASE j = n + 1
      BY <1>1, <1>2, <1>3, <1>4, <2>1, <2>2
    <2>3. CASE j # n + 1
      BY <1>1, <1>4, <1>5, <1>8, <2>1, <2>3
    <2> QED
      BY <2>2, <2>3
  <1>9. TimeoutsOK(new, keys \cup {k})
    BY <1>4, <1>6, <1>7, <1>8 DEF TimeoutsOK
  <1>10. list = <<>> => n = 0
    BY DEF n
  <1>11. list = <<>> => new[1] = x
    BY <1>4, <1>10
  <1> QED
    BY <1>1, <1>2, <1>4, <1>9, <1>11

\* Those that are due are the first ones.
LEMMA DueFacts ==
    ASSUME NEW list \in Seq(Timeout),
           NEW due, due = {i \in DOMAIN list : \A j \in 1..i : list[j].left = 0}
    PROVE  Cardinality(due) \in 0..Len(list) /\ due = 1..Cardinality(due)
  <1> DEFINE n == Len(list)
             S == {i \in 0..n : i = n \/ list[i + 1].left # 0}
  <1>1. n \in Nat /\ DOMAIN list = 1..n
    BY TimeoutFacts
  <1> HIDE DEF n
  <1>2. S \in SUBSET Nat /\ n \in S
    BY <1>1
  <1>3. PICK m \in S : \A i \in S : m <= i
    <2> HIDE DEF S
    <2> QED
      BY <1>2, Least
  <1>4. m \in 0..n /\ m \in Nat
    BY <1>1
  <1>5. ASSUME NEW i \in 1..m PROVE list[i].left = 0
    <2>1. i - 1 \in 0..n /\ i - 1 # n /\ ~ (m <= i - 1) /\ i - 1 + 1 = i
      BY <1>1, <1>4
    <2>2. i - 1 \notin S
      BY <1>3, <2>1
    <2> QED
      BY <2>1, <2>2
  <1>6. due = 1..m
    <2>1. ASSUME NEW i \in 1..m PROVE i \in due
      <3>1. i \in 1..n /\ \A j \in 1..i : j \in 1..m
        BY <1>1, <1>4
      <3> QED
        BY <1>1, <1>5, <3>1
    <2>2. ASSUME NEW i \in due PROVE i \in 1..m
      <3>1. i \in 1..n /\ \A j \in 1..i : list[j].left = 0
        BY <1>1
      <3>2. ASSUME m < i PROVE FALSE
        <4>1. m + 1 \in 1..i /\ m # n
          BY <1>1, <1>4, <3>1, <3>2
        <4>2. list[m + 1].left = 0
          BY <3>1, <4>1
        <4> QED
          BY <4>1, <4>2
      <3> QED
        BY <1>1, <1>4, <3>1, <3>2
    <2> QED
      BY <2>1, <2>2
  <1>7. Cardinality(1..m) = m
    <2>1. Cardinality(1..m) = IF 1 > m THEN 0 ELSE m - 1 + 1
      BY <1>4, FS_Interval
    <2> QED
      BY <1>4, <2>1
  <1>8. Cardinality(due) = m
    BY <1>6, <1>7
  <1> QED
    BY <1>4, <1>6, <1>8 DEF n

LEMMA DroppedFacts ==
    ASSUME NEW S, NEW list \in Seq(S), NEW m \in 0..Len(list)
    PROVE  /\ SubSeq(list, m + 1, Len(list)) \in Seq(S)
           /\ Len(SubSeq(list, m + 1, Len(list))) = Len(list) - m
           /\ \A i \in 1..(Len(list) - m) : SubSeq(list, m + 1, Len(list))[i] = list[m + i]
  <1> DEFINE n == Len(list)
             from == m + 1
             new == SubSeq(list, from, n)
  <1>1. n \in Nat
    OBVIOUS
  <1>2. from \in 1..(n + 1) /\ n \in 0..n /\ from <= n + 1 /\ n - from + 1 = n - m
    BY <1>1
  <1> HIDE DEF from
  <1>3. /\ new \in Seq(S) /\ Len(new) = n - from + 1
        /\ \A i \in 1..(n - from + 1) : new[i] = list[from + i - 1]
    BY <1>2, SubSeqFacts
  <1> HIDE DEF new, n
  <1>4. \A i \in 1..(n - m) : from + i - 1 = m + i
    BY <1>1 DEF from
  <1>5. new \in Seq(S) /\ Len(new) = n - m /\ \A i \in 1..(n - m) : new[i] = list[m + i]
    BY <1>2, <1>3, <1>4
  <1> QED
    BY <1>5 DEF new, from, n

\* new is what is left of list without its first m.
Dropped(new, list, m) ==
    /\ new \in Seq(Timeout) /\ Len(new) = Len(list) - m
    /\ \A i \in 1..(Len(list) - m) : new[i] = list[m + i]

LEMMA TimeoutDropped ==
    ASSUME NEW list, NEW keys, TimeoutsOK(list, keys), NEW m \in 0..Len(list),
           NEW new, Dropped(new, list, m)
    PROVE  TimeoutsOK(new, keys \ {list[i].key : i \in 1..m})
  <1> DEFINE n == Len(list)
             gone == {list[i].key : i \in 1..m}
  <1>0. m \in 0..n
    OBVIOUS
  <1>1. /\ n \in Nat /\ list \in Seq(Timeout) /\ m \in 0..n
        /\ \A i \in 1..n : list[i].key \in keys
        /\ \A y \in keys : \E i \in 1..n : list[i].key = y
        /\ \A i, j \in 1..n : i < j => list[i].key # list[j].key /\ list[i].left <= list[j].left
    BY <1>0, TimeoutsOKFacts
  <1>2. /\ new \in Seq(Timeout) /\ Len(new) = n - m
        /\ \A i \in 1..(n - m) : new[i] = list[m + i]
    BY DEF Dropped
  <1> HIDE DEF n
  <1>3. \A i \in 1..(n - m) : m + i \in 1..n /\ m < m + i
    BY <1>1
  <1>4. ASSUME NEW i \in 1..(n - m) PROVE new[i].key \in keys \ gone
    <2>1. \A j \in 1..m : j \in 1..n /\ j < m + i
      BY <1>1
    <2>2. list[m + i].key \notin gone
      BY <1>1, <1>3, <2>1
    <2> QED
      BY <1>1, <1>2, <1>3, <2>2
  <1>5. ASSUME NEW y \in keys \ gone PROVE \E i \in 1..(n - m) : new[i].key = y
    <2>1. PICK j \in 1..n : list[j].key = y
      BY <1>1
    <2>2. j \notin 1..m
      BY <2>1
    <2>3. j - m \in 1..(n - m) /\ m + (j - m) = j
      BY <1>1, <2>2
    <2>4. new[j - m] = list[j]
      BY <1>2, <2>3
    <2> QED
      BY <2>1, <2>3, <2>4
  <1>6. \A i, j \in 1..(n - m) : i < j => new[i].key # new[j].key /\ new[i].left <= new[j].left
    <2> SUFFICES ASSUME NEW i \in 1..(n - m), NEW j \in 1..(n - m), i < j
                 PROVE  new[i].key # new[j].key /\ new[i].left <= new[j].left
      OBVIOUS
    <2>1. m + i \in 1..n /\ m + j \in 1..n /\ m + i < m + j
      BY <1>1, <1>3
    <2>2. list[m + i].key # list[m + j].key /\ list[m + i].left <= list[m + j].left
      BY <1>1, <2>1
    <2> QED
      BY <1>2, <2>2
  <1> HIDE DEF gone
  <1>7. TimeoutsOK(new, keys \ gone)
    BY <1>2, <1>4, <1>5, <1>6 DEF TimeoutsOK
  <1> QED
    BY <1>7 DEF gone

\* Time passes: as no event is left now, none in the list is due.
LEMMA TimeoutsLater ==
    ASSUME NEW list, NEW keys, TimeoutsOK(list, keys),
           NEW events \in [Times -> Nat], events[0] = 0, EventComes(list, events),
           NEW later, later = [t \in Times |-> IF t = FragmentTimeout THEN 0 ELSE events[t + 1]],
           NEW new, new = [i \in DOMAIN list |-> [list[i] EXCEPT !.left = @ - 1]]
    PROVE  TimeoutsOK(new, keys) /\ EventComes(new, later)
  <1> DEFINE n == Len(list)
  <1>1. /\ n \in Nat /\ list \in Seq(Timeout) /\ DOMAIN list = 1..n
        /\ \A i \in 1..n : list[i].left \in Times /\ list[i].left \in Nat
                           /\ list[i].key \in Packets /\ list[i].key \in keys
        /\ \A y \in keys : \E i \in 1..n : list[i].key = y
        /\ \A i, j \in 1..n : i < j => list[i].key # list[j].key /\ list[i].left <= list[j].left
        /\ list # <<>> <=> 1 \in 1..n
    BY TimeoutsOKFacts
  <1>2. \A i \in 1..n : list[i] = [key |-> list[i].key, left |-> list[i].left]
    <2>1. \A i \in 1..n : list[i] \in Timeout
      BY <1>1
    <2> QED
      BY <2>1 DEF Timeout
  <1> HIDE DEF n
  <1>3. \A i \in 1..n : new[i].key = list[i].key /\ new[i].left = list[i].left - 1
                        /\ new[i] = [key |-> list[i].key, left |-> list[i].left - 1]
    BY <1>1, <1>2
  <1>4. list # <<>> => \E t \in 0..list[1].left : events[t] > 0
    BY DEF EventComes
  <1>5. \A i \in 1..n : list[i].left > 0
    <2> TAKE i \in 1..n
    <2>1. list # <<>> /\ 1 \in 1..n
      BY <1>1
    <2>2. PICK t \in 0..list[1].left : events[t] > 0
      BY <1>4, <2>1
    <2>3. t # 0
      BY <2>2
    <2>4. list[1].left \in Nat /\ list[i].left \in Nat
      BY <1>1, <2>1
    <2>5. list[1].left > 0
      BY <2>3, <2>4
    <2>6. list[1].left <= list[i].left
      <3>1. i = 1 \/ 1 < i
        BY <1>1
      <3> QED
        BY <1>1, <2>1, <2>4, <3>1
    <2> QED
      BY <2>4, <2>5, <2>6
  <1>6. \A i \in 1..n : new[i] \in Timeout
    <2> TAKE i \in 1..n
    <2>1. list[i].left - 1 \in Times
      BY <1>1, <1>5, TimeoutType DEF Times
    <2> QED
      BY <1>1, <1>3, <2>1 DEF Timeout
  <1>7. new \in Seq(Timeout) /\ Len(new) = n
    <2>1. new \in [1..n -> Timeout]
      BY <1>1, <1>6
    <2> HIDE DEF Timeout
    <2>2. \A w \in [1..n -> Timeout] : w \in Seq(Timeout) /\ Len(w) = n
      BY <1>1
    <2> QED
      BY <2>1, <2>2
  <1>8. \A i, j \in 1..n : i < j => new[i].key # new[j].key /\ new[i].left <= new[j].left
    <2> TAKE i \in 1..n, j \in 1..n
    <2> HAVE i < j
    <2>1. list[i].key # list[j].key /\ list[i].left <= list[j].left
      BY <1>1
    <2>2. new[i].key # new[j].key
      BY <1>3, <2>1
    <2>3. new[i].left <= new[j].left
      <3>1. new[i].left = list[i].left - 1 /\ new[j].left = list[j].left - 1
        BY <1>3
      <3>2. list[i].left \in Nat /\ list[j].left \in Nat
        BY <1>1
      <3> QED
        BY <2>1, <3>1, <3>2
    <2> QED
      BY <2>2, <2>3
  <1>9. TimeoutsOK(new, keys)
    <2>1. \A i \in 1..n : new[i].key = list[i].key
      BY <1>3
    <2>2. \A i \in 1..n : new[i].key \in keys
      BY <1>1, <2>1
    <2>3. \A y \in keys : \E i \in 1..n : new[i].key = y
      BY <1>1, <2>1
    <2> QED
      BY <1>7, <1>8, <2>2, <2>3 DEF TimeoutsOK
  <1>10. EventComes(new, later)
    <2> SUFFICES ASSUME new # <<>>
                 PROVE  \E t \in 0..new[1].left : later[t] > 0
      BY DEF EventComes
    <2>1. list # <<>> /\ 1 \in 1..n
      BY <1>1, <1>7, TimeoutFacts
    <2>2. PICK t \in 0..list[1].left : events[t] > 0
      BY <1>4, <2>1
    <2>3. t # 0 /\ list[1].left \in Times /\ list[1].left \in Nat /\ new[1].left = list[1].left - 1
      <3>1. t # 0
        BY <2>2
      <3>2. list[1].left \in Times /\ list[1].left \in Nat
        BY <1>1, <2>1
      <3>3. new[1].left = list[1].left - 1
        BY <1>3, <2>1
      <3> QED
        BY <3>1, <3>2, <3>3
    <2>4. /\ t - 1 \in 0..new[1].left /\ t - 1 \in Times /\ t - 1 # FragmentTimeout
          /\ t - 1 + 1 = t
      BY <2>3, TimeoutType DEF Times
    <2>5. later[t - 1] = events[t]
      BY <2>4
    <2> QED
      BY <2>2, <2>4, <2>5
  <1> QED
    BY <1>9, <1>10

-----------------------------------------------------------------------------
(* The invariant *)

\* What is kept of a packet: something, and not all.
Waiting(fs, p) == ListOK(fs, p) /\ fs.list # <<>> /\ ~ IsEntire(fs)

FragmentsOK ==
    DOMAIN fragments \subseteq Packets /\ \A p \in DOMAIN fragments : Waiting(fragments[p], p)

TimersOK ==
    TimeoutsOK(timeoutList, DOMAIN fragments) /\ EventComes(timeoutList, timeoutEvents)

\* Each event was scheduled for something that arrived, or by the event before it.
EventsOK ==
    /\ arrivals \in 0..MaxArrivals
    /\ timeoutEvents \in [Times -> Nat] /\ Few(timeoutEvents, arrivals)

DupsOK ==
    /\ \A k \in DOMAIN dups : k[1] \in Multicast /\ dups[k] \in -1..DuplicateExpire
    /\ cleanDpd \in {NotRunning} \cup 0..Max({DuplicateExpire, PurgePeriod})

DeliveredOK ==
    /\ DOMAIN delivered = Packets
    /\ \A p \in Packets : delivered[p] \in Seq({Units(0, Length[p])})

IInv == FragmentsOK /\ TimersOK /\ EventsOK /\ DupsOK /\ DeliveredOK

LEMMA MaxFacts ==
    ASSUME NEW a \in Nat, NEW b \in Nat
    PROVE  Max({a, b}) \in Nat /\ a <= Max({a, b}) /\ b <= Max({a, b})
  <1>1. \E m \in {a, b} : \A x \in {a, b} : m >= x
    OBVIOUS
  <1>2. Max({a, b}) \in {a, b} /\ \A x \in {a, b} : Max({a, b}) >= x
    BY <1>1 DEF Max
  <1> QED
    BY <1>2

LEMMA PeriodFacts ==
    /\ DuplicateExpire \in Nat \ {0} /\ PurgePeriod \in Nat \ {0}
    /\ Max({DuplicateExpire, PurgePeriod}) \in Nat
    /\ DuplicateExpire <= Max({DuplicateExpire, PurgePeriod})
    /\ PurgePeriod <= Max({DuplicateExpire, PurgePeriod})
  <1>1. DuplicateExpire \in Nat \ {0} /\ PurgePeriod \in Nat \ {0}
    BY FragmentsAssumption
  <1> QED
    BY <1>1, MaxFacts

LEMMA InitOK == Init => IInv
  <1> SUFFICES ASSUME Init PROVE IInv
    OBVIOUS
  <1>1. /\ DOMAIN fragments = {} /\ DOMAIN dups = {} /\ timeoutList = <<>> /\ Len(timeoutList) = 0
        /\ cleanDpd = NotRunning /\ arrivals = 0
    BY DEF Init
  <1>2. FragmentsOK /\ DupsOK
    BY <1>1 DEF FragmentsOK, DupsOK
  <1>3. TimersOK
    BY <1>1 DEF TimersOK, TimeoutsOK, EventComes
  <1>4. EventsOK
    <2>1. timeoutEvents = [t \in Times |-> 0]
      BY DEF Init, Times
    <2>2. Few(timeoutEvents, 0)
      BY <2>1, NoneScheduled
    <2>3. MaxArrivals \in Nat
      BY FragmentsAssumption
    <2> QED
      BY <1>1, <2>1, <2>2, <2>3 DEF EventsOK
  <1>5. DeliveredOK
    BY DEF Init, DeliveredOK
  <1> QED
    BY <1>2, <1>3, <1>4, <1>5 DEF IInv

\* What is delivered is right, and all else of it stays.
LEMMA DeliverKeeps ==
    ASSUME DeliveredOK, NEW p \in Packets, NEW payload, payload = Units(0, Length[p]),
           Deliver(p, payload)
    PROVE  DeliveredOK'
  <1>1. DOMAIN delivered = Packets /\ delivered' = [delivered EXCEPT ![p] = Append(delivered[p], payload)]
    BY DEF DeliveredOK, Deliver
  <1>2. DOMAIN delivered' = Packets
    BY <1>1
  <1>3. ASSUME NEW q \in Packets PROVE delivered'[q] \in Seq({Units(0, Length[q])})
    <2>1. delivered[q] \in Seq({Units(0, Length[q])})
      BY DEF DeliveredOK
    <2>2. delivered'[q] = IF q = p THEN Append(delivered[p], payload) ELSE delivered[q]
      BY <1>1
    <2> HIDE DEF Units
    <2>3. CASE q = p
      <3>1. Append(delivered[q], payload) \in Seq({Units(0, Length[q])})
        BY <2>1, <2>3
      <3> QED
        BY <2>2, <2>3, <3>1
    <2>4. CASE q # p
      BY <2>1, <2>2, <2>4
    <2> QED
      BY <2>3, <2>4
  <1> QED
    BY <1>2, <1>3 DEF DeliveredOK

\* A packet is complete: it, and its timeout, are gone.
LEMMA CompleteKeeps ==
    ASSUME IInv, NEW p \in DOMAIN fragments, NEW fs, ListOK(fs, p), IsEntire(fs), fs.list # <<>>,
           Complete(p, fs)
    PROVE  /\ FragmentsOK' /\ DeliveredOK'
           /\ TimeoutsOK(timeoutList', DOMAIN fragments')
           /\ EventComes(timeoutList', timeoutEvents')
           /\ timeoutEvents' = timeoutEvents
  <1>1. /\ p \in Packets /\ FragmentsOK /\ DeliveredOK
        /\ TimeoutsOK(timeoutList, DOMAIN fragments) /\ EventComes(timeoutList, timeoutEvents)
    BY DEF IInv, FragmentsOK, TimersOK
  <1>2. DeliveredOK'
    <2>1. GetPacket(fs) = Units(0, Length[p])
      BY <1>1, GetsTheWhole
    <2>2. Deliver(p, GetPacket(fs))
      BY DEF Complete
    <2> QED
      BY <1>1, <2>1, <2>2, DeliverKeeps
  <1>3. DOMAIN fragments' = DOMAIN fragments \ {p} /\ \A q \in DOMAIN fragments' : fragments'[q] = fragments[q]
    BY DEF Complete, Without
  <1>4. FragmentsOK'
    BY <1>1, <1>3 DEF FragmentsOK
  <1>5. timeoutList \in Seq(Timeout) /\ DOMAIN timeoutList = 1..Len(timeoutList)
    BY <1>1, TimeoutFacts DEF TimeoutsOK
  <1>6. PICK i \in 1..Len(timeoutList) :
          timeoutList[i].key = p /\ timeoutList' = RemoveAt(timeoutList, i)
    BY <1>5 DEF Complete
  <1>7. timeoutList' \in Seq(Timeout) /\ Removed(timeoutList', timeoutList, i)
    BY <1>5, <1>6, RemoveFacts
  <1>8. /\ TimeoutsOK(timeoutList', DOMAIN fragments \ {p})
        /\ EventComes(timeoutList', timeoutEvents)
    BY <1>1, <1>6, <1>7, TimeoutRemoved
  <1>9. timeoutEvents' = timeoutEvents
    BY DEF Complete
  <1> QED
    BY <1>2, <1>3, <1>4, <1>8, <1>9

\* A fragment joins those of its packet, or is the first of it.
LEMMA ProcessKeeps ==
    ASSUME IInv, NEW f, FragmentOK(f), f.more \/ f.offset # 0, ProcessFragment(f)
    PROVE  /\ FragmentsOK' /\ DeliveredOK'
           /\ TimeoutsOK(timeoutList', DOMAIN fragments')
           /\ EventComes(timeoutList', timeoutEvents')
           /\ \/ timeoutEvents' = timeoutEvents
              \/ timeoutEvents' = [timeoutEvents EXCEPT ![FragmentTimeout] = @ + 1]
  <1> DEFINE p == f.packet
             isNew == p \notin DOMAIN fragments
             none == [list |-> <<>>, more |-> FALSE]
             old == IF isNew THEN none ELSE fragments[p]
             fs == AddFragment(old, f)
  <1>1. /\ p \in Packets /\ FragmentsOK /\ DeliveredOK
        /\ TimeoutsOK(timeoutList, DOMAIN fragments) /\ EventComes(timeoutList, timeoutEvents)
        /\ timeoutEvents \in [Times -> Nat]
    BY DEF IInv, FragmentsOK, TimersOK, EventsOK, FragmentOK
  <1>2. ListOK(old, p)
    <2>1. ListOK(none, p)
      BY DEF ListOK
    <2>2. ~ isNew => ListOK(fragments[p], p)
      BY <1>1 DEF FragmentsOK, Waiting
    <2> QED
      BY <2>1, <2>2
  <1>3. isNew => ~ IsEntire(fs)
    BY FirstWaits
  <1>4. IF IsEntire(fs) THEN Complete(p, fs)
        ELSE /\ fragments' = Added(fragments, p, fs)
             /\ IF isNew THEN SetTimeout(p) ELSE UNCHANGED <<timeoutList, timeoutEvents>>
             /\ UNCHANGED delivered
    BY DEF ProcessFragment
  <1> HIDE DEF old
  <1>5. ListOK(fs, p) /\ fs.list # <<>>
    BY <1>2, AddKeeps
  <1> HIDE DEF fs, p
  <1>6. CASE IsEntire(fs)
    <2>1. p \in DOMAIN fragments /\ Complete(p, fs)
      BY <1>3, <1>4, <1>6
    <2> QED
      BY <1>5, <1>6, <2>1, CompleteKeeps
  <1>7. CASE ~ IsEntire(fs)
    <2>1. /\ fragments' = [x \in DOMAIN fragments \cup {p} |-> IF x = p THEN fs ELSE fragments[x]]
          /\ IF isNew THEN SetTimeout(p) ELSE UNCHANGED <<timeoutList, timeoutEvents>>
          /\ delivered' = delivered
      BY <1>4, <1>7 DEF Added
    <2>2. /\ DOMAIN fragments' = DOMAIN fragments \cup {p}
          /\ \A q \in DOMAIN fragments' : fragments'[q] = IF q = p THEN fs ELSE fragments[q]
      BY <2>1
    <2>3. Waiting(fs, p)
      BY <1>5, <1>7 DEF Waiting
    <2>4. FragmentsOK'
      BY <1>1, <2>2, <2>3 DEF FragmentsOK
    <2>5. DeliveredOK'
      BY <1>1, <2>1 DEF DeliveredOK
    <2>6. CASE isNew
      <3>1. /\ timeoutList' = Append(timeoutList, [key |-> p, left |-> FragmentTimeout])
            /\ timeoutEvents' = IF timeoutList = <<>>
                                THEN [timeoutEvents EXCEPT ![FragmentTimeout] = @ + 1]
                                ELSE timeoutEvents
        BY <2>1, <2>6 DEF SetTimeout
      <3>2. /\ TimeoutsOK(timeoutList', DOMAIN fragments \cup {p})
            /\ timeoutList # <<>> => timeoutList'[1] = timeoutList[1]
            /\ timeoutList = <<>> => timeoutList'[1].left = FragmentTimeout
        <4>1. timeoutList' = Append(timeoutList, [key |-> p, left |-> FragmentTimeout])
          BY <3>1
        <4>2. p \in Packets /\ TimeoutsOK(timeoutList, DOMAIN fragments) /\ p \notin DOMAIN fragments
          BY <1>1, <2>6
        <4> HIDE DEF isNew, none
        <4> QED
          BY <4>1, <4>2, TimeoutAppended
      <3>3. EventComes(timeoutList', timeoutEvents')
        <4>1. CASE timeoutList = <<>>
          <5>1. timeoutEvents'[FragmentTimeout] = timeoutEvents[FragmentTimeout] + 1
            BY <1>1, <3>1, <4>1, TimeoutType
          <5>2. timeoutEvents'[FragmentTimeout] > 0
            BY <1>1, <5>1, TimeoutType
          <5>3. FragmentTimeout \in 0..timeoutList'[1].left
            BY <3>2, <4>1, TimeoutType
          <5> QED
            BY <5>2, <5>3 DEF EventComes
        <4>2. CASE timeoutList # <<>>
          BY <1>1, <3>1, <3>2, <4>2 DEF EventComes
        <4> QED
          BY <4>1, <4>2
      <3> QED
        BY <2>2, <2>4, <2>5, <3>1, <3>2, <3>3
    <2>7. CASE ~ isNew
      <3>1. timeoutList' = timeoutList /\ timeoutEvents' = timeoutEvents
        BY <2>1, <2>7
      <3>2. DOMAIN fragments' = DOMAIN fragments
        BY <2>2, <2>7
      <3> QED
        BY <1>1, <2>4, <2>5, <3>1, <3>2
    <2> QED
      BY <2>6, <2>7
  <1> QED
    BY <1>6, <1>7

LEMMA LocalDeliverKeeps ==
    ASSUME IInv, NEW f, FragmentOK(f), LocalDeliver(f)
    PROVE  /\ FragmentsOK' /\ DeliveredOK'
           /\ TimeoutsOK(timeoutList', DOMAIN fragments')
           /\ EventComes(timeoutList', timeoutEvents')
           /\ \/ timeoutEvents' = timeoutEvents
              \/ timeoutEvents' = [timeoutEvents EXCEPT ![FragmentTimeout] = @ + 1]
  <1>1. CASE f.more \/ f.offset # 0
    <2>1. ProcessFragment(f)
      BY <1>1 DEF LocalDeliver
    <2> QED
      BY <1>1, <2>1, ProcessKeeps
  <1>2. CASE ~ (f.more \/ f.offset # 0)
    <2>1. /\ Deliver(f.packet, Units(0, f.size))
          /\ UNCHANGED <<fragments, timeoutList, timeoutEvents>>
      BY <1>2 DEF LocalDeliver
    <2>2. f.packet \in Packets /\ f.size = Length[f.packet]
      <3>1. /\ f.packet \in Packets /\ f.offset = 0 /\ f.size \in 1..Length[f.packet]
            /\ f.offset + f.size <= Length[f.packet] /\ ~ (f.offset + f.size < Length[f.packet])
        BY <1>2 DEF FragmentOK, EndOf
      <3>2. Length[f.packet] \in Nat
        BY <3>1, LengthType
      <3> QED
        BY <3>1, <3>2
    <2>3. DeliveredOK'
      <3>1. DeliveredOK
        BY DEF IInv
      <3> QED
        BY <2>1, <2>2, <3>1, DeliverKeeps
    <2>4. FragmentsOK' /\ TimersOK'
      BY <2>1 DEF IInv, FragmentsOK, TimersOK
    <2> QED
      BY <2>1, <2>3, <2>4 DEF TimersOK
  <1> QED
    BY <1>1, <1>2

LEMMA ReceiveKeeps ==
    ASSUME IInv, NEW f \in OnTheWay, Receive(f)
    PROVE  IInv'
  <1>1. FragmentOK(f)
    BY ArrivingOK
  <1>2. /\ FragmentsOK' /\ DeliveredOK'
        /\ TimeoutsOK(timeoutList', DOMAIN fragments')
        /\ EventComes(timeoutList', timeoutEvents')
        /\ \/ timeoutEvents' = timeoutEvents
           \/ timeoutEvents' = [timeoutEvents EXCEPT ![FragmentTimeout] = @ + 1]
    <2>1. CASE f.packet \in Multicast /\ IsDuplicate(f)
      <3>1. UNCHANGED reassemblyVars
        BY <2>1 DEF Receive
      <3> QED
        BY <3>1 DEF IInv, FragmentsOK, TimersOK, DeliveredOK, reassemblyVars
    <2>2. CASE ~ (f.packet \in Multicast /\ IsDuplicate(f))
      <3>1. LocalDeliver(f)
        BY <2>2 DEF Receive
      <3> QED
        BY <1>1, <3>1, LocalDeliverKeeps
    <2> QED
      BY <2>1, <2>2
  <1>3. EventsOK'
    <2>1. /\ arrivals \in 0..MaxArrivals /\ MaxArrivals \in Nat /\ arrivals \in Nat
          /\ timeoutEvents \in [Times -> Nat] /\ Few(timeoutEvents, arrivals)
      BY FragmentsAssumption DEF IInv, EventsOK
    <2>2. arrivals' = arrivals + 1 /\ arrivals' \in 0..MaxArrivals
      BY <2>1 DEF Receive
    <2>3. Few(timeoutEvents, arrivals + 1)
      <3>1. Cardinality(Scheduled(timeoutEvents)) \in Nat
        BY <2>1, FS_CardinalityType DEF Few
      <3> QED
        BY <2>1, <3>1 DEF Few
    <2>4. Few([timeoutEvents EXCEPT ![FragmentTimeout] = @ + 1], arrivals + 1)
      BY <2>1, TimeoutType, ScheduleOne
    <2>5. [timeoutEvents EXCEPT ![FragmentTimeout] = @ + 1] \in [Times -> Nat]
      BY <2>1, TimeoutType
    <2> QED
      BY <1>2, <2>1, <2>2, <2>3, <2>4, <2>5 DEF EventsOK
  <1>4. DupsOK'
    <2>1. DupsOK
      BY DEF IInv
    <2>2. CASE f.packet \in Multicast
      <3>1. /\ dups' = [x \in DOMAIN dups \cup {DupKey(f)} |->
                          IF x = DupKey(f) THEN DuplicateExpire ELSE dups[x]]
            /\ cleanDpd' = IF cleanDpd = NotRunning THEN DuplicateExpire ELSE cleanDpd
        BY <2>2 DEF Receive, UpdateDuplicate, Added
      <3>2. DupKey(f)[1] = f.packet
        BY DEF DupKey
      <3>3. DuplicateExpire \in -1..DuplicateExpire
        BY PeriodFacts
      <3>4. DuplicateExpire \in 0..Max({DuplicateExpire, PurgePeriod})
        BY PeriodFacts
      <3>5. \A k \in DOMAIN dups' : k[1] \in Multicast /\ dups'[k] \in -1..DuplicateExpire
        BY <2>1, <2>2, <3>1, <3>2, <3>3 DEF DupsOK
      <3>6. cleanDpd' \in {NotRunning} \cup 0..Max({DuplicateExpire, PurgePeriod})
        BY <2>1, <3>1, <3>4 DEF DupsOK
      <3> QED
        BY <3>5, <3>6 DEF DupsOK
    <2>3. CASE f.packet \notin Multicast
      BY <2>1, <2>3 DEF Receive, DupsOK
    <2> QED
      BY <2>2, <2>3
  <1> QED
    BY <1>2, <1>3, <1>4 DEF IInv, TimersOK

\* An event drops the packets whose time has come, and only those; the event is
\* replaced by the one of the first that is left.
LEMMA HandleTimeoutKeeps ==
    ASSUME IInv, HandleTimeout
    PROVE  IInv'
  <1> DEFINE due == {i \in DOMAIN timeoutList : \A j \in 1..i : timeoutList[j].left = 0}
             m == Cardinality(due)
             rest == SubSeq(timeoutList, m + 1, Len(timeoutList))
             fired == [timeoutEvents EXCEPT ![0] = @ - 1]
             gone == {timeoutList[i].key : i \in 1..m}
  <1>1. /\ FragmentsOK /\ DeliveredOK /\ DupsOK
        /\ TimeoutsOK(timeoutList, DOMAIN fragments) /\ timeoutList \in Seq(Timeout)
        /\ arrivals \in 0..MaxArrivals /\ arrivals \in Nat
        /\ timeoutEvents \in [Times -> Nat] /\ Few(timeoutEvents, arrivals)
    BY FragmentsAssumption DEF IInv, TimersOK, EventsOK, TimeoutsOK
  <1>2. m \in 0..Len(timeoutList) /\ due = 1..m
    <2> HIDE DEF due
    <2> QED
      BY <1>1, DueFacts DEF due
  <1>3. /\ timeoutEvents[0] > 0
        /\ fragments' = [p \in DOMAIN fragments \ {timeoutList[i].key : i \in due} |-> fragments[p]]
        /\ timeoutList' = rest
        /\ timeoutEvents' = IF rest = <<>> THEN fired ELSE [fired EXCEPT ![rest[1].left] = @ + 1]
        /\ UNCHANGED <<dups, cleanDpd, delivered, arrivals>>
    BY DEF HandleTimeout
  <1> HIDE DEF due, m, rest
  <1>4. /\ DOMAIN fragments' = DOMAIN fragments \ gone
        /\ \A p \in DOMAIN fragments' : fragments'[p] = fragments[p]
    BY <1>2, <1>3
  <1>5. TimeoutsOK(timeoutList', DOMAIN fragments')
    <2>1. TimeoutsOK(rest, DOMAIN fragments \ gone)
      <3>1. Dropped(rest, timeoutList, m)
        BY <1>1, <1>2, DroppedFacts DEF rest, Dropped
      <3> QED
        BY <1>1, <1>2, <3>1, TimeoutDropped
    <2> QED
      BY <1>3, <1>4, <2>1
  <1>6. FragmentsOK'
    BY <1>1, <1>4 DEF FragmentsOK
  <1>7. arrivals > 0
    <2>1. timeoutEvents[0] <= arrivals
      BY <1>1, TimeoutType, FewAtOnce
    <2>2. timeoutEvents[0] \in Nat
      BY <1>1, TimeoutType
    <2> QED
      BY <1>1, <1>3, <2>1, <2>2
  <1>8. fired \in [Times -> Nat] /\ Few(fired, arrivals - 1)
    <2>1. arrivals - 1 \in Nat /\ arrivals - 1 + 1 = arrivals
      BY <1>1, <1>7
    <2>2. 0 \in Times /\ timeoutEvents[0] > 0 /\ timeoutEvents \in [Times -> Nat]
          /\ Few(timeoutEvents, arrivals - 1 + 1)
      BY <1>1, <1>3, <2>1, TimeoutType
    <2> QED
      BY <2>1, <2>2, FireOne
  <1>9. Few(fired, arrivals)
    <2>1. Cardinality(Scheduled(fired)) \in Nat
      BY <1>8, FS_CardinalityType DEF Few
    <2> HIDE DEF fired
    <2> QED
      BY <1>1, <1>8, <2>1 DEF Few
  <1> HIDE DEF fired
  <1>10. CASE rest = <<>>
    <2>1. timeoutEvents' = fired /\ timeoutList' = <<>>
      BY <1>3, <1>10
    <2>2. EventsOK'
      BY <1>1, <1>3, <1>8, <1>9, <2>1 DEF EventsOK
    <2>3. EventComes(timeoutList', timeoutEvents')
      BY <2>1 DEF EventComes
    <2> QED
      BY <1>1, <1>3, <1>5, <1>6, <2>2, <2>3 DEF IInv, TimersOK, DupsOK, DeliveredOK
  <1>11. CASE rest # <<>>
    <2> DEFINE t == rest[1].left
               next == [fired EXCEPT ![t] = @ + 1]
    <2>1. t \in Times /\ t \in Nat
      <3>1. rest \in Seq(Timeout)
        BY <1>3, <1>5 DEF TimeoutsOK
      <3> QED
        BY <1>11, <3>1, TimeoutFacts
    <2>2. timeoutEvents' = next /\ timeoutList' = rest
      BY <1>3, <1>11
    <2> HIDE DEF t
    <2>3. next \in [Times -> Nat] /\ next[t] = fired[t] + 1 /\ fired[t] \in Nat
      BY <1>8, <2>1
    <2>4. Few(next, arrivals - 1 + 1) /\ arrivals - 1 + 1 = arrivals
      <3>1. arrivals - 1 \in Nat /\ arrivals - 1 + 1 = arrivals
        BY <1>1, <1>7
      <3> QED
        BY <1>8, <2>1, <3>1, ScheduleOne
    <2>5. next[t] > 0 /\ t \in 0..t
      BY <2>1, <2>3
    <2> HIDE DEF next
    <2>6. EventsOK'
      BY <1>1, <1>3, <2>2, <2>3, <2>4 DEF EventsOK
    <2>7. EventComes(timeoutList', timeoutEvents')
      BY <2>2, <2>5 DEF EventComes, t
    <2> QED
      BY <1>1, <1>3, <1>5, <1>6, <2>6, <2>7 DEF IInv, TimersOK, DupsOK, DeliveredOK
  <1> QED
    BY <1>10, <1>11

LEMMA RemoveDuplicatesKeeps ==
    ASSUME IInv, RemoveDuplicates
    PROVE  IInv'
  <1>1. /\ UNCHANGED <<fragments, timeoutList, timeoutEvents, delivered, arrivals>>
        /\ dups' = [k \in {x \in DOMAIN dups : dups[x] >= 0} |-> dups[k]]
        /\ cleanDpd' \in {NotRunning, PurgePeriod}
    BY DEF RemoveDuplicates, reassemblyVars
  <1>2. FragmentsOK' /\ TimersOK' /\ EventsOK' /\ DeliveredOK'
    BY <1>1 DEF IInv, FragmentsOK, TimersOK, EventsOK, DeliveredOK
  <1>3. PurgePeriod \in 0..Max({DuplicateExpire, PurgePeriod})
    BY PeriodFacts
  <1>4. DupsOK'
    BY <1>1, <1>3 DEF IInv, DupsOK
  <1> QED
    BY <1>2, <1>4 DEF IInv

LEMMA TickKeeps ==
    ASSUME IInv, Tick
    PROVE  IInv'
  <1>1. /\ timeoutEvents[0] = 0 /\ cleanDpd # 0
        /\ timeoutList' = [i \in DOMAIN timeoutList |-> [timeoutList[i] EXCEPT !.left = @ - 1]]
        /\ timeoutEvents' = [t \in DOMAIN timeoutEvents |->
                               IF t = FragmentTimeout THEN 0 ELSE timeoutEvents[t + 1]]
        /\ dups' = [k \in DOMAIN dups |-> IF dups[k] < 0 THEN dups[k] ELSE dups[k] - 1]
        /\ cleanDpd' = IF cleanDpd = NotRunning THEN cleanDpd ELSE cleanDpd - 1
        /\ UNCHANGED <<fragments, delivered, arrivals>>
    BY DEF Tick
  <1>2. /\ FragmentsOK /\ DeliveredOK
        /\ TimeoutsOK(timeoutList, DOMAIN fragments) /\ EventComes(timeoutList, timeoutEvents)
        /\ arrivals \in 0..MaxArrivals /\ arrivals \in Nat
        /\ timeoutEvents \in [Times -> Nat] /\ Few(timeoutEvents, arrivals)
        /\ DOMAIN timeoutEvents = Times
    BY FragmentsAssumption DEF IInv, TimersOK, EventsOK
  <1>3. FragmentsOK' /\ DeliveredOK'
    BY <1>1, <1>2 DEF FragmentsOK, DeliveredOK
  <1>4. timeoutEvents' = [t \in Times |-> IF t = FragmentTimeout THEN 0 ELSE timeoutEvents[t + 1]]
    BY <1>1, <1>2
  <1>5. EventsOK'
    <2>1. timeoutEvents' \in [Times -> Nat] /\ Few(timeoutEvents', arrivals)
      BY <1>1, <1>2, <1>4, Later
    <2> QED
      BY <1>1, <1>2, <2>1 DEF EventsOK
  <1>6. TimersOK'
    <2>1. TimeoutsOK(timeoutList', DOMAIN fragments) /\ EventComes(timeoutList', timeoutEvents')
      BY <1>1, <1>2, <1>4, TimeoutsLater
    <2> QED
      BY <1>1, <2>1 DEF TimersOK
  <1>7. DupsOK'
    <2>1. \A k \in DOMAIN dups' : k[1] \in Multicast /\ dups'[k] \in -1..DuplicateExpire
      <3> TAKE k \in DOMAIN dups'
      <3>1. k \in DOMAIN dups /\ dups'[k] = IF dups[k] < 0 THEN dups[k] ELSE dups[k] - 1
        BY <1>1
      <3>2. k[1] \in Multicast /\ dups[k] \in -1..DuplicateExpire
        BY <3>1 DEF IInv, DupsOK
      <3> QED
        BY <3>1, <3>2, PeriodFacts
    <2>2. cleanDpd' \in {NotRunning} \cup 0..Max({DuplicateExpire, PurgePeriod})
      <3> DEFINE M == Max({DuplicateExpire, PurgePeriod})
      <3>1. M \in Nat /\ cleanDpd \in {NotRunning} \cup 0..M
        BY PeriodFacts DEF IInv, DupsOK
      <3> HIDE DEF M
      <3>2. cleanDpd # 0 /\ cleanDpd' = IF cleanDpd = NotRunning THEN cleanDpd ELSE cleanDpd - 1
        BY <1>1
      <3>3. cleanDpd # NotRunning => cleanDpd - 1 \in 0..M
        BY <3>1, <3>2
      <3>4. cleanDpd' \in {NotRunning} \cup 0..M
        BY <3>1, <3>2, <3>3
      <3> QED
        BY <3>4 DEF M
    <2> QED
      BY <2>1, <2>2 DEF DupsOK
  <1> QED
    BY <1>3, <1>5, <1>6, <1>7 DEF IInv

LEMMA NextKeeps == IInv /\ [Next]_vars => IInv'
  <1> SUFFICES ASSUME IInv, [Next]_vars PROVE IInv'
    OBVIOUS
  <1>1. CASE \E f \in OnTheWay : Receive(f)
    BY <1>1, ReceiveKeeps
  <1>2. CASE HandleTimeout
    BY <1>2, HandleTimeoutKeeps
  <1>3. CASE RemoveDuplicates
    BY <1>3, RemoveDuplicatesKeeps
  <1>4. CASE Tick
    BY <1>4, TickKeeps
  <1>5. CASE UNCHANGED vars
    BY <1>5 DEF vars, reassemblyVars, IInv, FragmentsOK, TimersOK, EventsOK, DupsOK, DeliveredOK
  <1> QED
    BY <1>1, <1>2, <1>3, <1>4, <1>5 DEF Next

LEMMA InvariantHolds == Spec => []IInv
  BY InitOK, NextKeeps, PTL DEF Spec

-----------------------------------------------------------------------------
(* What follows from it *)

LEMMA TypesFollow == IInv => TypeOK
  <1> SUFFICES ASSUME IInv PROVE TypeOK
    OBVIOUS
  <1>1. DOMAIN fragments \subseteq Packets
    BY DEF IInv, FragmentsOK
  <1>2. ASSUME NEW p \in DOMAIN fragments
        PROVE  /\ fragments[p].list \in Seq([offset : 0..(Length[p] - 1), size : 1..Length[p]])
               /\ fragments[p].more \in BOOLEAN
    BY DEF IInv, FragmentsOK, Waiting, ListOK, Piece
  <1>3. timeoutList \in Seq([key : Packets, left : 0..FragmentTimeout])
    BY DEF IInv, TimersOK, TimeoutsOK, Timeout, Times
  <1>4. ASSUME NEW t \in DOMAIN timeoutEvents PROVE timeoutEvents[t] \in 0..MaxArrivals
    <2>1. /\ arrivals \in 0..MaxArrivals /\ MaxArrivals \in Nat
          /\ timeoutEvents \in [Times -> Nat] /\ Few(timeoutEvents, arrivals)
      BY FragmentsAssumption DEF IInv, EventsOK
    <2>2. t \in Times /\ timeoutEvents[t] \in Nat /\ arrivals \in Nat /\ arrivals <= MaxArrivals
      BY <2>1
    <2>3. timeoutEvents[t] <= arrivals
      BY <2>1, <2>2, FewAtOnce
    <2> QED
      BY <2>1, <2>2, <2>3
  <1> QED
    BY <1>1, <1>2, <1>3, <1>4 DEF TypeOK, IInv, DupsOK, EventsOK

LEMMA TimeoutsFollow == IInv => EachHasItsTimeout /\ TimerIsNext
  <1> SUFFICES ASSUME IInv PROVE EachHasItsTimeout /\ TimerIsNext
    OBVIOUS
  <1> DEFINE n == Len(timeoutList)
  <1>1. /\ timeoutList \in Seq(Timeout)
        /\ \A i \in 1..n : timeoutList[i].key \in DOMAIN fragments
        /\ \A k \in DOMAIN fragments : \E i \in 1..n : timeoutList[i].key = k
        /\ \A i, j \in 1..n : i < j => timeoutList[i].key # timeoutList[j].key
                                       /\ timeoutList[i].left <= timeoutList[j].left
        /\ EventComes(timeoutList, timeoutEvents)
    BY DEF IInv, TimersOK, TimeoutsOK
  <1>2. n \in Nat /\ DOMAIN timeoutList = 1..n
    BY <1>1, TimeoutFacts
  <1> HIDE DEF n
  <1>3. ASSUME NEW p \in DOMAIN fragments
        PROVE  Cardinality({i \in DOMAIN timeoutList : timeoutList[i].key = p}) = 1
    <2>1. PICK i \in 1..n : timeoutList[i].key = p
      BY <1>1
    <2>2. ASSUME NEW j \in 1..n, timeoutList[j].key = p PROVE j = i
      <3>1. ~ (i < j) /\ ~ (j < i)
        BY <1>1, <2>1, <2>2
      <3> QED
        BY <1>2, <3>1
    <2>3. {j \in DOMAIN timeoutList : timeoutList[j].key = p} = {i}
      BY <1>2, <2>1, <2>2
    <2> QED
      BY <2>3, FS_Singleton
  <1>4. EachHasItsTimeout
    BY <1>1, <1>2, <1>3 DEF EachHasItsTimeout
  <1>5. TimerIsNext
    BY <1>1, <1>2 DEF TimerIsNext, EventComes
  <1> QED
    BY <1>4, <1>5

\* The state of the reassembly is consistent: each packet that is incomplete has
\* its one entry in the list of timeouts, which is in the order of time, and an
\* event comes when the first is due or before; and there are never more events
\* than fragments came.
THEOREM ReassemblyConsistent == Spec => []Consistent
  <1>1. IInv => Consistent
    BY TypesFollow, TimeoutsFollow DEF Consistent
  <1> QED
    BY <1>1, InvariantHolds, PTL

\* Whatever is lost, doubled, out of order or fragmented again, a packet that is
\* delivered is the payload that was sent.
THEOREM WholeDelivered == Spec => []DeliversTheWhole
  <1>1. IInv => DeliversTheWhole
    <2> SUFFICES ASSUME IInv, NEW p \in Packets, NEW i \in DOMAIN delivered[p]
                 PROVE  delivered[p][i] = Units(0, Length[p])
      BY DEF DeliversTheWhole
    <2>1. delivered[p] \in Seq({Units(0, Length[p])})
      BY DEF IInv, DeliveredOK
    <2> HIDE DEF Units
    <2> QED
      BY <2>1
  <1> QED
    BY <1>1, InvariantHolds, PTL

\* An incomplete packet has a gap or misses its end, and PartialPacket finds
\* the first gap.
THEOREM PartsKnown == Spec => []PartsAreKnown
  <1>1. IInv => PartsAreKnown
    <2> SUFFICES ASSUME IInv, NEW p \in DOMAIN fragments
                 PROVE  PartKnown(fragments[p], p)
      BY DEF PartsAreKnown, PartKnown
    <2>1. p \in Packets /\ Waiting(fragments[p], p)
      BY DEF IInv, FragmentsOK
    <2> QED
      BY <2>1, KnowsItsPart DEF Waiting
  <1> QED
    BY <1>1, InvariantHolds, PTL
=============================================================================
