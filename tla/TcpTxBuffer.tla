---------------------------- MODULE TcpTxBuffer ----------------------------
(***************************************************************************)
(* The buffer of a TCP sender (tcp-tx-buffer.cc): the segments that were   *)
(* sent and not acknowledged, with what is believed of each, and the       *)
(* counters kept next to them.  An operator here is a method: it takes the *)
(* buffer b and returns the buffer after it.                               *)
(*                                                                         *)
(* ok is TRUE as long as every NS_ASSERT met so far held.  highest is the  *)
(* place in sent of the iterator m_highestSack.first, 0 for end ().  The   *)
(* packets of the application are only counted, by the bytes of unsent.    *)
(***************************************************************************)
EXTENDS Integers, Sequences, SequencesExt

CONSTANTS
    SegmentSize,    \* m_segmentSize
    DupThresh       \* m_dupAckThresh, the m_retxThresh of the socket

ASSUME TxAssumption == SegmentSize \in Nat \ {0} /\ DupThresh \in Nat \ {0}

\* GetNewSegment: what a segment is when it is sent for the first time.
Segment(seq, n) ==
    [startSeq |-> seq, size |-> n, sacked |-> FALSE, lost |-> FALSE, retrans |-> FALSE]

EmptyTxBuffer(sackEnabled) ==
    [first |-> 1, sent |-> <<>>, unsent |-> 0, sackedOut |-> 0, lostOut |-> 0,
     retrans |-> 0, highest |-> 0, highestSeq |-> 0, sackEnabled |-> sackEnabled,
     ok |-> TRUE]

Begin(b, i) == b.sent[i].startSeq
End(b, i) == b.sent[i].startSeq + b.sent[i].size

\* The bytes of the items that satisfy P.
BytesOf(b, P(_)) ==
    LET sum[i \in 0..Len(b.sent)] ==
          IF i = 0 THEN 0
          ELSE sum[i - 1] + (IF P(b.sent[i]) THEN b.sent[i].size ELSE 0)
    IN  sum[Len(b.sent)]

SentSize(b) == LET all(e) == TRUE IN BytesOf(b, all)
SentEnd(b) == b.first + SentSize(b)
TailSequence(b) == SentEnd(b) + b.unsent
BytesInFlight(b) == SentSize(b) - (b.sackedOut + b.lostOut) + b.retrans

Asserted(b, holds) == [b EXCEPT !.ok = @ /\ holds]
CountsFit(b) == Asserted(b, SentSize(b) >= b.sackedOut + b.lostOut)
WithoutHighest(b) == [b EXCEPT !.highest = 0, !.highestSeq = 0]

Add(b, n) == [b EXCEPT !.unsent = @ + n]

-----------------------------------------------------------------------------
(* Items are split and merged for a retransmission *)

\* Item i + 1 is appended to item i and erased.
MergeItems(b, i) ==
    LET t1 == b.sent[i]
        t2 == b.sent[i + 1]
        merged == [t1 EXCEPT !.size = @ + t2.size, !.retrans = @ /\ t2.retrans]
        cancelled == IF t1.retrans = t2.retrans THEN 0
                     ELSE IF t1.retrans THEN t1.size ELSE t2.size
    IN  [b EXCEPT !.ok = @ /\ t1.sacked = t2.sacked /\ t1.lost = t2.lost
                           /\ b.highest # i + 1,
                  !.retrans = @ - cancelled,
                  !.sent = SubSeq(@, 1, i - 1) \o <<merged>> \o SubSeq(@, i + 2, Len(@)),
                  !.highest = IF @ > i THEN @ - 1 ELSE @]

\* A new item with the first n bytes is inserted before item i.
SplitItems(b, i, n) ==
    LET t1 == [b.sent[i] EXCEPT !.size = n]
        t2 == [b.sent[i] EXCEPT !.startSeq = @ + n, !.size = @ - n]
    IN  [b EXCEPT !.sent = SubSeq(@, 1, i - 1) \o <<t1, t2>> \o SubSeq(@, i + 1, Len(@)),
                  !.highest = IF @ >= i THEN @ + 1 ELSE @]

\* Item i becomes n bytes long, for an n no item is needed after the next for.
GetPacketFromList(b, i, n) ==
    LET whole == IF n > b.sent[i].size /\ i < Len(b.sent) THEN MergeItems(b, i) ELSE b
    IN  IF n < whole.sent[i].size THEN SplitItems(whole, i, n) ELSE whole

\* Item i is retransmitted, with what follows it when that fits and has the same
\* fate; at most n bytes.
GetTransmittedSegment(b, i, n) ==
    LET joins == i < Len(b.sent) /\ ~b.sent[i + 1].sacked
                   /\ b.sent[i].lost = b.sent[i + 1].lost
        most == b.sent[i].size + (IF joins THEN b.sent[i + 1].size ELSE 0)
        got == GetPacketFromList(b, i, Min({n, most}))
        item == got.sent[i]
    IN  [got EXCEPT !.ok = @ /\ n <= SentSize(b) /\ ~item.sacked,
                    !.retrans = IF item.retrans THEN @ ELSE @ + item.size,
                    !.sent[i].retrans = TRUE]

\* The segment of at most n bytes at seq, where an item or the unsent data
\* begin, is taken for a transmission; of a piece that was sent in part only that
\* part.  item is its place.  The socket does not expect that there is none.
CopyFromSequence(b, n, seq) ==
    LET s == Min({n, TailSequence(b) - seq})
        at == CHOOSE i \in DOMAIN b.sent : Begin(b, i) = seq
    IN  IF s = 0 THEN [buffer |-> Asserted(b, FALSE), item |-> 0]
        ELSE IF seq < SentEnd(b)
        THEN [buffer |-> GetTransmittedSegment(b, at, Min({s, SentEnd(b) - seq})),
              item |-> at]
        ELSE [buffer |-> [b EXCEPT !.sent = Append(@, Segment(seq, s)), !.unsent = @ - s],
              item |-> Len(b.sent) + 1]

-----------------------------------------------------------------------------
(* The scoreboard *)

\* Mutant: the head is marked although it was lost before.
MarkHeadAsLostAgain(b) ==
    LET head == b.sent[1]
    IN  IF b.sent = <<>> THEN b
        ELSE [b EXCEPT !.sackedOut = IF head.sacked THEN @ - head.size ELSE @,
                       !.retrans = IF head.retrans THEN @ - head.size ELSE @,
                       !.lostOut = @ + head.size,
                       !.sent[1] = [head EXCEPT !.sacked = FALSE, !.retrans = FALSE,
                                                !.lost = TRUE]]

MarkHeadAsLost(b) ==
    LET head == b.sent[1]
    IN  IF b.sent = <<>> THEN b
        ELSE [b EXCEPT !.sackedOut = IF head.sacked THEN @ - head.size ELSE @,
                       !.retrans = IF head.retrans THEN @ - head.size ELSE @,
                       !.lostOut = IF head.lost THEN @ ELSE @ + head.size,
                       !.sent[1] = [head EXCEPT !.sacked = FALSE, !.retrans = FALSE,
                                                !.lost = TRUE]]

\* Without SACK a duplicate ACK stands for one more segment after the head.
AddRenoSack(b) ==
    LET free == {i \in 2..Len(b.sent) : ~b.sent[i].sacked}
        i == Min(free)
        c == Asserted(b, Len(b.sent) > (IF b.sackEnabled THEN 1 ELSE 0))
    IN  IF free = {} THEN c
        ELSE [c EXCEPT !.sent[i].sacked = TRUE, !.sackedOut = @ + b.sent[i].size,
                       !.highest = i, !.highestSeq = Begin(b, i)]

\* The head cannot have been received: one of the guesses was wrong.
HeadUnsacked(b) ==
    IF b.sent = <<>> \/ ~b.sent[1].sacked THEN b
    ELSE LET c == [b EXCEPT !.ok = @ /\ ~b.sent[1].lost,
                            !.sent[1].sacked = FALSE,
                            !.sackedOut = @ - b.sent[1].size]
         IN  MarkHeadAsLost(AddRenoSack(c))

\* The item e leaves with n of its bytes.
RemoveFromCounts(b, e, n) ==
    [b EXCEPT !.ok = @ /\ (e.sacked => b.sackedOut >= n) /\ (e.retrans => b.retrans >= n)
                       /\ (e.lost => b.lostOut >= n),
              !.sackedOut = IF e.sacked THEN @ - n ELSE @,
              !.retrans = IF e.retrans THEN @ - n ELSE @,
              !.lostOut = IF e.lost THEN @ - n ELSE @]

\* The head leaves, whole or the part of it that is before seq.
DiscardHead(b, seq) ==
    LET e == b.sent[1]
        n == Min({e.size, seq - b.first})
        c == RemoveFromCounts(Asserted(b, e.startSeq = b.first), e, n)
    IN  IF seq <= b.first THEN b
        ELSE IF n = e.size
        THEN [c EXCEPT !.first = @ + n, !.sent = Tail(@), !.highest = Max({0, @ - 1})]
        ELSE [c EXCEPT !.first = @ + n, !.sent[1].startSeq = @ + n, !.sent[1].size = @ - n]

\* All that is before seq, which is not beyond what was sent, leaves.
DiscardUpTo(b, seq) ==
    LET gone[i \in 0..Len(b.sent)] == IF i = 0 THEN b ELSE
                                      IF gone[i - 1].sent = <<>> THEN gone[i - 1]
                                      ELSE DiscardHead(gone[i - 1], seq)
        c == HeadUnsacked(gone[Len(b.sent)])
        d == IF c.highestSeq <= c.first THEN WithoutHighest(c) ELSE c
    IN  IF b.first >= seq THEN b ELSE CountsFit(Asserted(d, d.first = seq))

\* Mutant: one sacked segment less is enough.
UpdateLostCountEarly(b) ==
    LET above(i) == Cardinality({j \in i..b.highest : j > 1 /\ b.sent[j].sacked})
        lost == {i \in 1..b.highest : above(i) >= DupThresh - 1
                                        /\ (i = 1 \/ ~b.sent[i].sacked) /\ ~b.sent[i].lost}
        added == LET isNew(e) == \E i \in lost : b.sent[i] = e IN BytesOf(b, isNew)
    IN  [b EXCEPT !.lostOut = @ + added,
                  !.sent = [i \in DOMAIN @ |-> IF i \in lost THEN [@[i] EXCEPT !.lost = TRUE]
                                               ELSE @[i]]]

\* An item below the highest sacked one, from which enough sacked ones are
\* counted, is lost; of the head it is not asked whether it was sacked.
UpdateLostCount(b) ==
    LET above(i) == Cardinality({j \in i..b.highest : j > 1 /\ b.sent[j].sacked})
        lost == {i \in 1..b.highest : above(i) >= DupThresh
                                        /\ (i = 1 \/ ~b.sent[i].sacked) /\ ~b.sent[i].lost}
        added == LET isNew(e) == \E i \in lost : b.sent[i] = e IN BytesOf(b, isNew)
    IN  [b EXCEPT !.lostOut = @ + added,
                  !.sent = [i \in DOMAIN @ |-> IF i \in lost THEN [@[i] EXCEPT !.lost = TRUE]
                                               ELSE @[i]]]

\* Mutant: an item is sacked that only begins within the block.
SackedBlockPartly(b, block) ==
    LET within == {i \in DOMAIN b.sent : Begin(b, i) >= block[1] /\ Begin(b, i) < block[2]}
        new == {i \in within : ~b.sent[i].sacked}
        isNew(e) == \E i \in new : b.sent[i] = e
        wasLost(e) == isNew(e) /\ e.lost
        last == Max(new)
    IN  IF new = {} THEN b
        ELSE [b EXCEPT !.sackedOut = @ + BytesOf(b, isNew),
                       !.lostOut = @ - BytesOf(b, wasLost),
                       !.sent = [i \in DOMAIN @ |->
                                   IF i \in new THEN [@[i] EXCEPT !.sacked = TRUE, !.lost = FALSE]
                                   ELSE @[i]],
                       !.highest = last,
                       !.highestSeq = Begin(b, last)]

\* Mutant: an item that was thought lost stays lost.
SackedBlockStillLost(b, block) ==
    LET within == {i \in DOMAIN b.sent : Begin(b, i) >= block[1] /\ End(b, i) <= block[2]}
        new == {i \in within : ~b.sent[i].sacked}
        isNew(e) == \E i \in new : b.sent[i] = e
        last == Max(new)
        c == Asserted(b, \A i \in within \ new : ~b.sent[i].lost)
    IN  IF new = {} THEN c
        ELSE [c EXCEPT !.sackedOut = @ + BytesOf(b, isNew),
                       !.sent = [i \in DOMAIN @ |-> IF i \in new THEN [@[i] EXCEPT !.sacked = TRUE]
                                                    ELSE @[i]],
                       !.highest = last,
                       !.highestSeq = Begin(b, last)]

\* One block of an option: the items that lie within it are sacked.
SackedBlock(b, block) ==
    LET within == {i \in DOMAIN b.sent : Begin(b, i) >= block[1] /\ End(b, i) <= block[2]}
        new == {i \in within : ~b.sent[i].sacked}
        isNew(e) == \E i \in new : b.sent[i] = e
        wasLost(e) == isNew(e) /\ e.lost
        last == Max(new)
        moves == b.highest = 0 \/ b.highestSeq <= End(b, last)
        c == Asserted(b, \A i \in within \ new : ~b.sent[i].lost)
    IN  IF new = {} THEN c
        ELSE [c EXCEPT !.sackedOut = @ + BytesOf(b, isNew),
                       !.lostOut = @ - BytesOf(b, wasLost),
                       !.sent = [i \in DOMAIN @ |->
                                   IF i \in new THEN [@[i] EXCEPT !.sacked = TRUE, !.lost = FALSE]
                                   ELSE @[i]],
                       !.highest = IF moves THEN last ELSE @,
                       !.highestSeq = IF moves THEN Begin(b, last) ELSE @]

\* The blocks are of data that was sent.
Update(b, list) ==
    LET read[i \in 0..Len(list)] == IF i = 0 THEN b ELSE SackedBlock(read[i - 1], list[i])
        c == read[Len(list)]
        d == IF c.sackedOut = b.sackedOut THEN c
             ELSE UpdateLostCount(Asserted(c, c.highest # 0))
    IN  CountsFit(Asserted(d, d.sent # <<>> /\ ~d.sent[1].sacked))

IsLost(b, seq) ==
    LET from == {i \in DOMAIN b.sent : Begin(b, i) >= seq /\ (b.sent[i].lost \/ b.sent[i].sacked)}
    IN  /\ seq < b.highestSeq
        /\ from # {}
        /\ b.sent[Min(from)].lost

\* Where the next segment to transmit begins, 0 if there is none: a lost one,
\* else new data, else, in a recovery with SACK, one that may be lost.
NextSeg(b, isRecovery) ==
    LET open == {i \in DOMAIN b.sent : ~b.sent[i].retrans /\ ~b.sent[i].sacked}
        lost == {i \in open : b.sent[i].lost}
    IN  IF lost # {} THEN Begin(b, Min(lost))
        ELSE IF b.unsent > 0 THEN SentEnd(b)
        ELSE IF isRecovery /\ open # {} THEN Begin(b, Min(open))
        ELSE 0

IsRetransmittedDataAcked(b, ack) ==
    \E i \in DOMAIN b.sent : End(b, i) = ack /\ ~b.sent[i].sacked /\ b.sent[i].retrans

ResetRenoSack(b) ==
    WithoutHighest([b EXCEPT !.sackedOut = 0,
                             !.sent = [i \in DOMAIN @ |-> [@[i] EXCEPT !.sacked = FALSE]]])

\* Mutant: what the receiver reported is forgotten, as if it were guessed.
SetSentListLostForgets(b, resetSack) ==
    LET c == ResetRenoSack(b)
    IN  CountsFit([c EXCEPT !.sent = [i \in DOMAIN @ |->
                                        [@[i] EXCEPT !.lost = TRUE, !.retrans = FALSE]],
                            !.lostOut = SentSize(c), !.retrans = 0])

\* All that is not sacked is lost, and nothing was retransmitted.
SetSentListLost(b, resetSack) ==
    LET c == IF resetSack THEN ResetRenoSack(b) ELSE b
        d == [c EXCEPT !.sent = [i \in DOMAIN @ |->
                  [@[i] EXCEPT !.lost = c.sent[i].lost \/ ~b.sent[i].sacked \/ resetSack,
                               !.retrans = FALSE]]]
        isLost(e) == e.lost
    IN  CountsFit([d EXCEPT !.lostOut = BytesOf(d, isLost), !.retrans = 0])
=============================================================================
