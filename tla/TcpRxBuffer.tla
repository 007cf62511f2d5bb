---------------------------- MODULE TcpRxBuffer ----------------------------
(***************************************************************************)
(* The buffer of a TCP receiver (tcp-rx-buffer.cc), of which the           *)
(* application takes what it can read at once.  data holds the packets     *)
(* beyond a gap, sack the list of SACK blocks, newest first; a packet and  *)
(* a block are pairs of a first byte and the byte after the last.          *)
(***************************************************************************)
EXTENDS Integers, Sequences, FiniteSets, SequencesExt

CONSTANT MaxSackBlocks  \* 4 in UpdateSackList

ASSUME RxAssumption == MaxSackBlocks \in Nat \ {0}

EmptyRxBuffer == [next |-> 1, data |-> {}, sack |-> <<>>]

\* The packets in the order of the map m_data.
InOrder(packets) ==
    CHOOSE q \in [1..Cardinality(packets) -> packets] :
        \A i, j \in DOMAIN q : i < j => q[i][1] < q[j][1]

\* The blocks of the list that are in S.
Kept(list, S) ==
    LET kept[i \in 0..Len(list)] ==
          IF i = 0 THEN <<>>
          ELSE IF list[i] \in S THEN Append(kept[i - 1], list[i]) ELSE kept[i - 1]
    IN  kept[Len(list)]

\* The block goes to the front, merged with the one that ends where it begins
\* and the one that begins where it ends; what is too much is dropped at the end.
UpdateSackList(list, head, tail) ==
    LET left == {k \in DOMAIN list : list[k][2] = head}
        right == {k \in DOMAIN list : list[k][1] = tail}
        apart == {block \in ToSet(list) : block[2] # head /\ block[1] # tail}
        merged == <<IF left = {} THEN head ELSE list[Min(left)][1],
                    IF right = {} THEN tail ELSE list[Min(right)][2]>>
        all == <<merged>> \o Kept(list, apart)
    IN  SubSeq(all, 1, Min({Len(all), MaxSackBlocks}))

\* Mutant: a block that ends where the data ends now is kept.
ClearSackListLate(list, seq) == Kept(list, {block \in ToSet(list) : block[2] >= seq})

ClearSackList(list, seq) == Kept(list, {block \in ToSet(list) : block[2] > seq})

\* The range acc, cut by the stored packet d or swallowing it.
Trimmed(acc, d) ==
    IF d[1] > acc.tail \/ d[2] <= acc.head THEN acc
    ELSE IF d[1] > acc.head /\ d[2] < acc.tail
    THEN [acc EXCEPT !.data = @ \ {d}]
    ELSE [acc EXCEPT !.head = IF d[1] <= acc.head THEN d[2] ELSE @,
                     !.tail = IF d[2] >= acc.tail THEN d[1] ELSE @]

\* The range acc, when all stored packets have been met in their order.
TrimmedByAll(acc, packets) ==
    LET trim[i \in 0..Cardinality(packets)] ==
          IF i = 0 THEN acc ELSE Trimmed(trim[i - 1], InOrder(packets)[i])
    IN  trim[Cardinality(packets)]

\* The first byte that is missing, when all before next are there.
NextMissing(next, packets) ==
    LET reached[i \in 0..Cardinality(packets)] ==
          IF i = 0 THEN next
          ELSE IF InOrder(packets)[i][1] = reached[i - 1] THEN InOrder(packets)[i][2]
          ELSE reached[i - 1]
    IN  reached[Cardinality(packets)]

\* Packet p arrives in buffer r, which is never full.
Store(r, p) ==
    LET kept == TrimmedByAll([head |-> Max({p[1], r.next}), tail |-> p[2], data |-> r.data],
                             r.data)
        data == kept.data \cup {<<kept.head, kept.tail>>}
        sack == IF kept.head > r.next THEN UpdateSackList(r.sack, kept.head, kept.tail)
                ELSE r.sack
        next == NextMissing(r.next, data)
    IN  IF kept.head >= kept.tail THEN [r EXCEPT !.data = kept.data]
        ELSE [next |-> next,
              data |-> {d \in data : d[1] > next},
              sack |-> IF next > r.next THEN ClearSackList(sack, next) ELSE sack]
=============================================================================
