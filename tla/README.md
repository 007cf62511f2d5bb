# Verification of the RWM internet module

TLA+ models, TLC configurations and TLAPS proofs for the protocol code of this
repository: the ns-3 `internet` module (under `src/src/internet/model`, referred
to by file name below) with a round-trip estimator based on a recursive weighted
median. `PROJECT.json` lists for every definition the source lines it stands for.

## 1. The system

An ns-3 program is a discrete-event simulation. One thread takes events from a
queue in the order of their simulated time; every event runs to its end before
the next starts. What interleaves is therefore not instructions but *events* of
several nodes and timers: segments and frames arriving after a delay, timers
expiring, scheduled calls, applications acting. Each C++ handler, with all the
calls it makes, is one atomic step of a model. Links may delay, reorder, lose,
duplicate and tail-drop; nothing is persisted, so there are no crashes to recover
from.

### Components, their state and operations

| Component | State | Operations | Module |
|---|---|---|---|
| ARP cache (`arp-cache`, `arp-l3-protocol`) | entries: state, last seen, retries, queue of packets; **one** wait-reply timer for all entries | `Lookup`, `Receive`, `SendArpRequest` (jittered), `HandleWaitReplyTimeout`, `Flush`, `Remove`, `MarkPermanent` | `ArpCache` |
| NDisc cache (`ndisc-cache`, `icmpv6-l4-protocol`) | entries with six states, one timer each, queue of packets | `Lookup`, `HandleNS/NA/RS/RA/Redirection`, `ReachabilityHint`, four timer functions | `NdiscCache` |
| TCP connection (`tcp-socket-base`) | state, sequence numbers, buffers, SYN/data retry counters, events for retransmission, delayed ACK, LAST_ACK, TIME_WAIT, pending send | `Connect`, `Send`, `Close`, `ShutdownSend`, the `Process…` handlers, the time-outs | `TcpConnection` |
| Loss recovery (`tcp-socket-base`) | CA state, duplicate ACKs, recovery point | `ReceivedAck`, `DupAck`, `EnterRecovery`, `ProcessAck`, `DoRetransmit`, `ReTxTimeout` | `TcpSack` |
| Send buffer (`tcp-tx-buffer`) | lists of sent and unsent items, scoreboard, counters of sacked, lost and retransmitted bytes | `CopyFromSequence`, `NextSeg`, `Update`, `UpdateLostCount`, `DiscardUpTo`, `SetSentListLost`, `AddRenoSack` | `TcpTxBuffer` |
| Receive buffer (`tcp-rx-buffer`) | next byte, packets beyond a gap, SACK blocks | `Add`, `UpdateSackList`, `ClearSackList` | `TcpRxBuffer` |
| RTT estimators and timeout (`rtt-estimator`, `rto-estimator1`) | estimate, variation, sample count, logged samples | `Measurement`, `Reset`, computation of `m_rto` | `RttEstimator` |
| IPv4 reassembly and duplicates (`ipv4-l3-protocol`) | fragments by packet, one list of timeouts, duplicates seen | `Receive`, `ProcessFragment`, `HandleTimeout`, `UpdateDuplicate`, `RemoveDuplicates` | `Ipv4Fragments` |
| RIP (`rip`) | routes with status, metric, gateway, event; the triggered update | requests, responses, periodic and triggered updates, `InvalidateRoute`, `DeleteRoute`, interfaces up and down | `Rip` |
| Global routing (`global-router-interface`, `global-route-manager-impl`, `candidate-queue`, `ipv4-global-routing`) | link-state database, shortest-path tree, tables | `DiscoverLSAs`, `SPFCalculate`, `SPFNext`, `SPFNexthopCalculation`, the `…AddRoute` functions, `LookupGlobal` | `GlobalRouting` |
| Congestion control algorithms, BBR | window, threshold | `IncreaseWindow`, `GetSsThresh` | – |
| Sockets and end points (`ipv4-end-point-demux`, `udp-socket-impl`, `tcp-socket-base`, `tcp-l4-protocol`) | end points by port, address, peer and device; the last ephemeral port; forks under way | `Allocate`, `Lookup`, `DeAllocate`, `Bind`, `BindToNetDevice`, `Connect`, `Listen`, `CompleteFork`, `Close` | `EndPoints` |
| IPv6 layer, RIPng, static and list routing | interfaces, tables | twins of the IPv4 parts; tables set by hand | – |
| Headers, options, queue-disc items, NSC adapters, experiment scripts | – | serialisation, containers | – |

`PROJECT.json` ("components") names the files of each and says what is left out of a
part and why. `src/Code` holds two simulation scripts and copies of the files the
authors changed; the models are written from `src/src/internet/model`.

Who calls whom: the IP interfaces offer packets to the two caches, whose queues
come back through `Send`; IP hands complete datagrams to `TcpL4Protocol`, which
hands segments to a socket; the socket keeps its bytes in the two buffers, takes
its timeout from the estimator and tells ICMPv6 of reachability; the routing
protocols answer `RouteOutput` and `RouteInput`, and `NotifyInterfaceUp` and
`NotifyInterfaceDown` tell them, and flush the caches, when a link changes.

### What is hard here

- **One timer for many entries** (ARP, reassembly): a wait begun while the timer
  runs for another must still be retried and given up in time; an old event must
  not expire what came later.
- **One timer for many purposes** (NDisc): an entry's timer calls one of four
  functions, each of which expects the state it was started in.
- **Order of segments** (TCP): a FIN may overtake data, an old ACK may arrive in a
  later state, a repeated SYN after the handshake; `Process…` handlers look at
  whatever the state is *by then*.
- **Retransmission state**: one event `m_retxEvent` repeats SYN, FIN and data; a
  timeout pulls `m_nextTxSequence` back while ACKs are in flight, and `Close`,
  `SendPendingData` and `NewAck` decide on the moved value.
- **Counters beside lists** (scoreboard): items are split and merged, marked and
  unmarked by six methods, and three counters and an iterator must follow.
- **Termination**: SYNs, data and the FIN of LAST_ACK have their own retry limits,
  repeated FINs have none; solicitations of a neighbour are counted twice.
- **Distributed change** (RIP): what one router unlearns another may still
  announce; periodic updates cancel triggered ones.
- **Ties** (global routing): equal paths merge only if they are found before the
  vertex is taken from the queue, and a LAN passes on the exits of its routers.
- **Checks that age** (end points): a port is checked for duplicates when it is
  allocated, and peer, address and device of the end point change afterwards.
- **Rounding**: the estimator shifts negative numbers right and rounds down at
  every step, and the timeout is computed from the result.

The full list, with lines, is "hazards" in `PROJECT.json`.

### What makes each component correct

- ARP: the timer covers every waiting entry; the fatal error in `Lookup` is
  unreachable; a wait ends within `(MaxRetries + 1) * WaitReplyTimeout`; packets
  wait only in waiting entries, none is lost, duplicated or overtaken.
- NDisc: a timer runs exactly in the states that need one, the exceptions being
  advertisements; a retransmission finds a packet to report; resolving and probing
  end.
- TCP: what a sender discards was received; end of file only after all data;
  whatever waits for an answer has a timer; both ends agree on the handshake; the
  state never moves back; a handshake and accepted data settle.
- Scoreboard: counters are the sums of the marks; what is believed received is; a
  segment is lost only with enough witnesses; what is outstanding is under a timer;
  the whole stream arrives.
- RTT: the estimate stays within the samples, moves towards a sample and not past
  it; the timeout of RFC 6298 is not shorter than the round trip just measured.
- Reassembly: what is delivered is what was sent, once; each incomplete packet has
  one timeout; nothing is kept for ever.
- RIP: no path shorter than the real one is believed; every learned route has an
  event that ends it; neighbours agree when nothing is under way; metrics converge.
- End points: a packet has one receiver, but for the causes that are named; the
  answer to a packet finds the socket that sent it; a port given out is in nobody
  else's use.
- Global routing: tree, exits and tables are those of a definition of shortest
  paths; packets arrive by every route.

## 2. Modules

    AddressResolution  is implemented by  ArpCache, NdiscCache
    ArpCache        <- ArpCache_proofs,  MCArpCache
    NdiscCache      <- NdiscCache_proofs,  MCNdiscCache
    TcpConnection   <- TcpLive <- MCTcpLive
                    <- MCTcpConnection
                    <- TcpConnection_proofs
    TcpTxBuffer, TcpRxBuffer  <- TcpSack <- MCTcpSack
                              <- TcpSack_proofs
    RttEstimator    <- RttEstimator_proofs,  MCRttEstimator
    Ipv4Fragments   <- Ipv4Fragments_proofs,  MCIpv4Fragments
    Rip             <- Rip_proofs,  MCRip
    GlobalRouting   <- MCGlobalRouting
    EndPoints       <- EndPoints_proofs,  MCEndPoints

An arrow reads "is extended by". `MC…` modules only give constants their values.
An operator commented *Mutant* is a plausible wrong version of the definition
after it; no action uses it. It shows that the property it is meant for fails when
the code is wrong.

### AddressResolution

The abstract specification of both caches: a packet offered is sent, lost or
queued behind its address; a queue is sent as a whole and in order or lost as a
whole; nothing is sent twice. `Overtake` and `DropOldest` are where the two differ:
ARP never sends a packet past a queue and refuses the newest packet of a full one,
NDisc may send while packets wait (an entry in PROBE) and drops the oldest. Each
cache states `KeepsPromise`, the specification under a refinement mapping that
forgets states, timers and messages, and that renames fates.

### ArpCache

One node's cache with the protocol that drives it. The variables are functions of
the address: `state`, `age` (`Now - m_lastSeen`), `retries`, `pending`; `timer` is
the delay left of `m_waitReplyTimer`. `scheduled` are the requests in their jitter
(`ArpL3Protocol::m_requestJitter`), `net` the messages in flight; a set, because
copies of one request or reply differ in nothing. `fate` and `dest` follow every
packet offered: pending, sent, dropped or flushed.

| Action | Code |
|---|---|
| `Lookup` (unresolved, resolved, dead, waiting) | `ArpL3Protocol::Lookup`, `Entry::MarkWaitReply`, `UpdateWaitReply`, `StartWaitReplyTimer` |
| `SendArpRequest` | the scheduled `SendArpRequest` |
| `ReceiveRequest` | `Receive` and `SendArpReply` at the owner of the address |
| `ReceiveReply` | the reply branch of `Receive`, with its loop over `DequeuePending` |
| `HandleWaitReplyTimeout` | the same, over all waiting entries |
| `Flush`, `Remove`, `MarkPermanent` | calls of the interface and of scripts |
| `Tick` | simulated time; due events run first |
| `Lose` | the channel |

Time is relative and capped just above the largest timeout, where `IsExpired`
cannot tell ages apart, so behaviours are infinite and no bound on time exists.
Left out: `DoDispose`, `LookupInverse`, printing, several interfaces.

### NdiscCache

`cache` maps a neighbour to its entry: state, link-layer address, the function its
timer will call, how often it was solicited, the packets that wait. Delays are left
out: a running timer may fire at any time. The neighbour is the environment: it may
send any message at any time with any of its addresses, so messages are lost,
delayed and duplicated; only a solicited advertisement needs a solicitation
(`asked`). `global` is whether the interface has the address a solicitation is sent
from.

| Action | Code |
|---|---|
| `Lookup` | `Icmpv6L4Protocol::Lookup`, `AddWaitingPacket`, `MarkIncomplete`, `MarkDelay` |
| `HandleNS`, `HandleRS`, `HandleNA`, `HandleRedirection`, `ReceiveLLA` (RA) | the handlers of the same names and `ReceiveLLA` |
| `Timeout` | `FunctionReachableTimeout`, `FunctionRetransmitTimeout`, `FunctionDelayTimeout`, `FunctionProbeTimeout` |
| `UpdateReachableTimer`, `ReachabilityHint` | their callers in `Ipv6Interface` and `Ipv6L3Protocol` |
| `MarkPermanent`, `Flush`, `ChangeAddress` | scripts and the interface |

Left out: duplicate address detection, prefixes and routes learned from router
advertisements, echo and error messages, the router flag, which nothing reads.

### TcpConnection and TcpLive

The socket an application connects and the one a listener forks. A socket is a
record with the members that decide control; each handler is an operator from
record to record that appends what it emits to `out`, so that `NewAck` calling
`SendPendingData` calling `SendEmptyPacket` reads as in the source. Actions feed
the handlers: `Receive` (`TcpL4Protocol::Receive`, `ForwardUp`, the dispatch of
`DoForwardUp`, `NoEndPoint`), four timers, the pending-send event, and the
application calls `Connect`, `Send`, `AppClose`, `AppShutdownSend`. `net` is one set
of segments per direction, from which any may arrive next or be lost.

Abstractions, all on data:

- Sequence numbers count SYN, full-size segments and FIN, from 0 as in the source.
- The congestion window is any member of `CWnd` each time it is consulted, which
  covers what any congestion control may answer within `CWnd`; a retransmission
  timeout sets it to one segment as the code does.
- The retransmission timer may expire whenever it runs; that covers every value of
  `m_rto`, also spurious timeouts. Likewise the other timers.
- The application reads at once, so the window never closes: no persist timer.
- Not in the module: SACK, duplicate ACKs and fast retransmit (`TcpSack`), ECN,
  pacing, options, simultaneous open, a second connection on the same ports.
- Applications: the server accepts one connection and gets the socket once it is
  connected; nobody uses a socket after being told it closed; a call made inside a
  callback is a call made right after it. `CompleteFork` runs with the SYN's
  delivery. A segment without flags and a FIN without ACK are never sent by a
  `TcpSocketBase` and have no case; nor has the reset of a SYN to a port nobody
  listens on.

`TcpLive` adds fairness and the variable `ran` (section 5).

### TcpTxBuffer, TcpRxBuffer and TcpSack

The buffers are operators from buffer to buffer, one per method; a failed
`NS_ASSERT` is remembered in `ok`. A sent item keeps its range and its marks;
`highest` is the iterator `m_highestSack`. `TcpSack` composes them into a connection
that has been established: a sender with its congestion state, a network of two
bags, and a receiver.

| Action | Code |
|---|---|
| `Write`, `SendData` | `TcpTxBuffer::Add`; one round of `SendPendingData` with `NextSeg`, `CopyFromSequence`, `SendDataPacket` |
| `ReceiveAck` | `ReceivedAck`: `ReadOptions`, `Update`, `DupAck`, `EnterRecovery`, `ProcessAck` with its cases by CA state, `NewAck` |
| `ReTxTimeout` | the same, with `SetSentListLost` or `ResetRenoSack`, CA_LOSS and `DoRetransmit` |
| `ReceiveSegment`, `DelAckTimeout` | `ReceivedData`, `TcpRxBuffer::Add`, the delayed ACK |
| `Lose` | the channel |

Bytes are numbered from 1; a write may be shorter than a segment, so that items are
split and merged. The congestion window is left open: a segment is sent whenever
there is one, or not yet. Left out: ECN, the window of the receiver, the FIN, retry
limits, and what only BBR and the persist timer call.

### RttEstimator

`RttMeanDeviation` with both updates, `RttMyWeightedMedian`, `Reset` and the timeout
that `tcp-socket-base.cc` derives from either. `estimator` is the configuration,
chosen once; time is in ticks; a gain is a fraction. `IntegerUpdate` rounds down as
the shifts do; the floating-point update may round either way. `used` is history:
number, least, greatest and last of the samples since creation or `Reset`.

`RttMyWeightedMedian` reads one element past its vector, so the median is left as
any value up to the greater of sample and estimate; but no run reaches it, since
the class never counts a sample (`SamplesAreCounted`). The action is kept because
the code is there, and the proofs cover it where they speak of both classes.

### Ipv4Fragments

The receiving node and the network that fragments for it, up to twice with
different maxima. A fragment is its packet, offset, size and more-flag, in units of
eight bytes. `Receive` is `Ipv4L3Protocol::Receive` with `UpdateDuplicate`,
`ProcessFragment`, `Fragments::AddFragment`, `IsEntire` and `GetPacket`;
`HandleTimeout` takes what is due from `timeoutList` and schedules itself again;
`timeoutEvents` counts the events scheduled, because the code may schedule more than
one. `RemoveDuplicates` is the purge. Any piece may arrive at any time, again or
never, as often as `MaxArrivals` in all. `Tick` lets due events run first, in any
order. Left out: forwarding, sending, ICMP errors, the wire format, two packets with
one identification.

### Rip

Routers, their routes to one destination, and messages. An interface is named by
the router at its other end. `routes` is a sequence, as `m_routes` is, because a
router whose interface comes back has two entries. Each entry carries its event
(`InvalidateRoute` or `DeleteRoute`) with the ticks left. A tick is the longest time
between two periodic updates; in it every router sends one, at any point.

| Action | Code |
|---|---|
| `SendRouteRequest` | the same, once, when the router starts |
| `HandleRequests`, `HandleResponses` | the same, with `Receive` and every branch on gateway, metric and status |
| `TriggeredUpdate`, `SendUnsolicitedRouteUpdate` | the event of `SendTriggeredRouteUpdate` and the periodic one, with `DoSendRouteUpdate` and the split horizon strategies |
| `InvalidateRoute`, `DeleteRoute` | the same, the events of a route |
| `NotifyInterfaceDown`, `NotifyInterfaceUp` | the same, with the triggered update asked for and the network added |
| `Tick`, `Lose` | simulated time, the channel |

`NeighboursAgree` is about a link that lost nothing and stays up: when nothing is on the
way and no route of its sender is marked, who goes through the sender has a metric it
was told, the cost of the link added. The sender may have two entries for the network
of an interface that came back; `Heard` names what the neighbour may then have. Split
horizon is left out, because it is false there: a router whose route comes to lead
through a neighbour says nothing of it to this neighbour any more, and when it then
loses and deletes the route the neighbour, which went through the router meanwhile, was
never told. Only the neighbour's own timeout ends that route.

Left out: several destinations and their longest prefix, host requests, which
nothing sends, the default route, the wire format.

### GlobalRouting

A program of phases, as `BuildGlobalRoutingDatabase` and `InitializeRoutes` run:
every router describes its interfaces (`DiscoverLSA`), then for each router in turn
the tree is computed and its tables filled: a router with one link gets a default
route (`StubNode`), others start at the root (`SPFCalculate`), relax the links of
the vertex last added (`SPFNext`), take the nearest candidate (`Pop`) and finally add
the stub networks and the external one (`SPFProcessStubs`). When an interface goes
down or up all starts again. `spf` gives each vertex its distance, exits and
parents; `candidate` is the queue in its order. A failed assertion or null pointer
ends the run (`failed`). Left out: bridges, several addresses of an interface,
routes injected in mid-simulation.

### EndPoints

The sockets of one node and the demultiplexer they share, of UDP or of TCP; a
behaviour shows one of them. `endPoint` is the list `m_endPoints` by owner, `socket`
what the calls below read and write of a socket, `forks` the `CompleteFork` events.
`Lookup` and the forms of `Allocate` are operators.

| Action | Code |
|---|---|
| `Bind`, `BindAny` | the `Bind`s of `UdpSocketImpl` and `TcpSocketBase`, `Ipv4EndPointDemux::Allocate`, `AllocateEphemeralPort` |
| `BindToNetDevice` | the same in both classes |
| `ShutdownRecv`, `ShutdownSend`, `CloseUdp` | the calls of `UdpSocketImpl` |
| `Connect` | `TcpSocketBase::Connect` with `Bind`, `SetPeer` and `SetupEndpoint` |
| `Listen`, `ReceiveSyn`, `CompleteFork`, `Release` | `Listen`, `ProcessListen`, the event, `CloseAndNotify` |
| `ReceiveAmbiguous` | the `NS_ABORT_MSG_IF` of `Lookup`, which ends the program |

Packets are not followed: the properties ask for every packet that could come in
whose it would be. Left out: the IPv6 twins, `SimpleLookup` for ICMP, a second `Bind`
of one socket (see below), several addresses of a device, the receive queue of UDP.

## 3. Runs

| Run | Question and result |
|---|---|
| `arp` | Type, four safety properties, the refinement of `AddressResolution`, and whether every packet settles, whatever is lost; hold in 696 k states |
| `ndisc` | Do timers, queues and states agree whatever a neighbour sends, is `AddressResolution` implemented, do resolving and probing end? Yes |
| `tcp` | Do data, FIN and acknowledgments agree when either side closes or half-closes at any time and segments are lost or overtake each other, is every wait under a timer, does no state move backwards? Yes, 1.43 M states |
| `tcp_live` | Repeated and lost SYNs: do both ends agree on the handshake, does it end, and do accepted data settle although the peer may vanish? Yes, 284 k states |
| `sack` | Is the scoreboard exact and honest, does no assertion fail and does the stream arrive, with SACK and without? Yes |
| `rtt` | Every sequence of five samples and resets, three configurations; holds in 47 k states |
| `fragments` | Is what is delivered what was sent, has every incomplete packet its timeout, is what is held of it known, does the node become quiet? Yes, 152 k states |
| `rip` | Are metrics never too short, do neighbours agree, do metrics converge after changes and a loss? Yes |
| `global_routing` | Do trees, exits and tables agree with shortest paths and do packets arrive, for 144 choices of metrics and any one interface failing? Yes, 77 k states |
| `end_points` | Is `Lookup` ambiguous only for the causes named, do answers find the sender? Yes, 711 k states |
| `rtt_samples_are_counted` | violation, see below |
| `fin_before_data` | violation, see below |

### Where the code departs from its comments

`rtt_samples_are_counted`: `RttMyWeightedMedian` never increments `m_nSamples`, so
each sample is "the first" and the weighted median is never computed. The class also
hides `m_actual_rtt_vector` with one of its own; `GetVectorRttActual` returns the
empty one, zeta is 0, and the timeout of the paper is the last round trip.

`fin_before_data`: tcp-rx-buffer.h:134 says that `Finished` tells "if the buffer did
receive all the data". `SendEmptyPacket` gives every FIN the number
`m_nextTxSequence` (tcp-socket-base.cc:2701). A socket that called `ShutdownSend` and
has data under way enters LAST_ACK with its timer when the peer's FIN comes
(2637-2652). If the retransmission timer then resends the first segment,
`m_nextTxSequence` is left behind it, before data still to be resent (3371-3389), and
the next `LastAckTimeout` (3959) repeats the FIN there. The peer takes the FIN in the
place of the data, reports the end of the stream and enters TIME_WAIT. The trace has
fifteen states and no loss, only a timeout that was too early and two segments that
change places.

### Seen while modelling

Each of these is part of the model, or left out where it says so. A property that one
of them would break names it as its exception.

- TCP: a FIN numbered before data (above) also leaves a segment in the receive buffer
  that is not beyond a gap, and its acknowledgment discards the segment of the same
  number, which the peer never stored. `EofAfterAllData` and `AckedIsReceived` except a
  sender that sent such a FIN (`behind`). LAST_ACK and CLOSING take *any* ACK with the expected sequence number for that
  of their FIN (tcp-socket-base.cc:2521, 2557), so an old ACK ends the connection
  while the peer still misses data and FIN. A stored out-of-order FIN moves
  FIN_WAIT_1 or FIN_WAIT_2 to CLOSE_WAIT (3543) although the application has closed. A
  deferred `Close` is acted upon only when `SendPendingData` sends the last segment;
  after a timeout pulled `m_nextTxSequence` back that may never happen. `Send` after
  `ShutdownSend` fails with its data in the buffer (848-856), and the data is sent, or
  stays behind the FIN.
  `ProcessWait` does not answer a FIN that comes again in CLOSE_WAIT (2486). A LAST_ACK
  entered by `Close` repeats its FIN without limit (2862), unlike one entered by
  `DoPeerClose` (2648).
- RTT (not modelled): the history entry of a SYN has count 0 and is never marked as
  retransmitted (3247-3268), so without timestamps the sample of a repeated SYN is
  ambiguous; every empty packet sent recomputes `m_rto` (2777) and undoes the backoff
  of `ReTxTimeout` (3888).
- Scoreboard: `UpdateSackList` merges only blocks that touch, so blocks may overlap
  (tcp-rx-buffer.cc:297; it takes segments of three bytes). `m_highestSack` may move
  down (tcp-tx-buffer.cc:835), so that a segment is not marked lost although RFC 6675
  would count it so. Without limited transmit an assertion on CA_DISORDER fails when
  the application writes (tcp-socket-base.cc:3419).
- NDisc: `!IsReachable () || !IsPermanent ()` is always true, so an advertisement
  overwrites a static entry; `ReachabilityHint` sends the packets of an entry in PROBE
  to the wrong address; INCOMPLETE sends `MaxMulticastSolicit + 1` solicitations; an
  advertisement that disagrees in PROBE stops the timer with packets waiting.
- RIP: an invalid route takes a neighbour's metric 16 as equally good and becomes
  valid again, refreshed for as long as the neighbour announces it (rip.cc:1034;
  compare the comments at rip.cc:76 and rip.h:381). Without split horizon an interface
  that went down and up leaves a dead second entry that keeps metrics from converging;
  the run checks the two strategies with split horizon.
- Fragments: a packet that is fully covered still waits when its last fragment was
  fragmented again and comes in pieces that are not inserted at the end; events of
  `HandleTimeout` accumulate; a multicast copy that was fragmented on one path and not
  on the other is not taken for a duplicate.
- Global routing: the assertion "at most one exit from the root to this vertex"
  (global-route-manager-impl.cc:315) fails when a LAN reached by equal-cost exits has a
  further router (1126); a designated router that does not forward, and a
  point-to-point link that only one end describes (1058), fail likewise. These are the
  causes `ExitsAreAllShortest` names. Parallel links share the next hop of the first; two
  stub nodes linked only to each other loop packets for unknown destinations.
- ARP: `UpdateWaitReply` (arp-cache.cc:423) appends or refuses where its comment speaks
  of replacing.
- End points: `TcpSocketBase::Bind` (tcp-socket-base.cc:572) and `CompleteFork` do
  not hand the device to the end point, as `UdpSocketImpl::Bind` does, so a TCP socket
  bound to a device first and to a port afterwards, and every forked socket, hears
  all devices (compare ipv4-end-point.h:100). `BindToNetDevice`, `SetPeer` and `SetLocalAddress` look for no
  duplicates, and `Allocate` does not compare an end point with a device to one
  without, nor the any-address to a network's address; two sockets that clash so end
  the program when a packet comes for both (`AmbiguityHasCause`). A SYN that comes
  twice before its `CompleteFork` leaves a second copy without an end point, in
  SYN_RCVD for ever. A listener that closes in the same instant leaves the fork an
  orphan. `Connect` without a route fails with the peer set, so the socket hears that
  peer only. `UdpSocketImpl::Bind ()` dereferences a null end point when no port is
  free and the socket has a device (udp-socket-impl.cc:238). A UDP socket shut down
  both ways keeps its end point: `Close` returns ERROR_BADF. A second `Bind` of a
  socket forgets the first end point, which stays allocated (not modelled).

## 4. Bounds

Each bound is a constant of its module, named in `CONSTANTS`.

- `arp`: an address that answers and one that never does suffice for the timer to be
  shared: retry and give-up fall on one while the other starts, is answered or is
  removed. One retry distinguishes retrying from giving up, three packets fill the
  queue of two and exceed it, `WaitReplyTimeout` 2 lets an entry join half-way
  through. The theorems remove these bounds for the invariants.
- `ndisc`: one neighbour, because entries share no timer; two addresses of it, a queue
  of two and four packets to overflow it, two solicitations of each kind.
- `tcp`: two segments from one side, within a window of two, give reordering of data,
  ACK and FIN and delayed and cumulative ACKs (`DelAckMaxCount` 2); two places in the
  network (`Capacity`) let one overtake another and tail-drop a third, and any one
  segment may be lost on top of that (`MaxLosses` 1). One data retry shows both a
  retransmission and giving up. With the writer half-closing and two data retries a
  FIN may overtake data (`fin_before_data`); with the exception this makes, the safety
  properties were also simulated without a violation over a hundred million states of
  larger instances (four and three segments, both sides half-closing, windows of one
  to three, four retries). `SynRetries` 1 means that a SYN is not repeated;
  `tcp_live` repeats it, and has the window of one.
- `tcp_live`: SYN and SYN+ACK are repeated once, one segment is lost on top of the
  tail drops; one place per direction (no reordering) and one segment of data: the
  state graph must be small for liveness, and what ends a wait is the retry counters,
  which are all exhausted within these bounds.
- `sack`: segments of two bytes, so that items are split; four bytes, a threshold of
  two duplicates instead of three, so that recovery starts within the stream; one
  loss and one timeout. Segments of three and a stream of five without a loss show
  the same safety properties (945,530 states).
- `rtt`: samples below, between and above each other and far apart, a clock
  granularity that is exactly the bound of `Covers` for the default gain
  (3 / (1/8) = 24), gains that take the integer and the floating-point path. The
  theorems hold for all gains, samples and bounds.
- `fragments`: packets of four units and of two, maxima of one and two, five arrivals:
  each piece of the longer packet and one duplicate, or a packet that never completes
  beside one that does, with the timeouts of both.
- `rip`: a triangle, the smallest network with a second path and a loop to count in;
  infinity at `LinkDown` 4 instead of 16, timeouts of three and two ticks, two changes
  of interfaces, one lost message, one router at a time sending its updates.
- `global_routing`: four routers, three links and two LANs with every metric of a
  small set, so that paths tie in every way two paths can; one change.
- `end_points`: three sockets, the fewest for a listener, its connection and a third;
  two ephemeral ports, so that they run out and wrap around, one of which is also
  named; two devices, one of which leads to the remote, so that a socket bound to the
  other has no route. Sockets are interchangeable (symmetry).
- `rtt_samples_are_counted` uses the bounds of `rtt`; `fin_before_data` those of `tcp`
  with the server half-closing, two data retries and no loss.

`CHECK_DEADLOCK FALSE` is set where the system really stops: a TCP connection when
both applications are done, `sack` when the stream has arrived, `ndisc` and
`fragments` when nothing more is offered, `global_routing` at its end, `end_points`
when a program was ended by `Lookup` or all sockets are closed. The other runs check
deadlock.

## 5. Fairness

The simulator runs each event it has scheduled unless somebody cancels it, and time
advances as long as events exist. Nothing else is assumed: applications need not
call, the network may lose within its bound (ARP: without bound).

- ARP: weak fairness of `Tick`, `HandleWaitReplyTimeout` and each scheduled
  `SendArpRequest`; none of `ReceiveRequest` or `ReceiveReply`, so everything may be
  lost.
- NDisc: weak fairness of each entry's `Timeout`; none of any message.
- TCP: for each socket and kind of event, either the event is infinitely often not
  due, or it runs infinitely often; a segment in `net` counts as due. An event may
  change nothing (a FIN repeated while its twin is in flight), which `WF_vars` would
  count as a stutter; hence `ran`, which records the event run and alternates, and
  fairness is stated over it. It constrains no step.
- Scoreboard: weak fairness of `Progress`, the segments, ACKs and timers under way
  and the sending of what may be sent; losses and timeouts are bounded by constants.
- Reassembly: weak fairness of `HandleTimeout`, `RemoveDuplicates` and `Tick`.
- RIP: weak fairness of `Progress`: messages arrive, updates are sent, events run and
  time passes.

## 6. Proofs

The theorems hold for every value of the constants that satisfies the `ASSUME` of the
module they are about: attributes are natural numbers, time-outs are not 0, gains are
fractions from 0 to 1, samples are positive, the sets of addresses and ports are any
sets with the distinctions the code relies on. TLC evaluates the assumptions in every
run. Each proof follows one scheme: an invariant `IInv` that is inductive, one lemma
per action (and one per helper the actions share), one lemma over `Next`, and a
temporal step at the end.

**ARP** (`ArpCache_proofs`). `TypeCorrect`, `TimerCovers`, `LookupNeverFatal`,
`PacketsOnlyWhileWaiting`, `WaitBounded`, `KeepsItsPromise`. `IInv` joins the
properties with two facts:

- `NothingOnAccount`: an entry that does not wait has no retries and no time waited;
- `WaitWithinBudget`: `waited + timer <= (retries + 1) * WaitReplyTimeout` for a
  waiting entry. `BoundedWait` itself is not inductive: it says nothing of how much
  of the budget a restarted timer may still take.

`NoFatalError` needs `TimerCoversWaiting` (an entry is seen within a timeout and the
timer fires within it, so it never expires first), and that needs the age and the
timer to move together in `Tick`. `KeepsItsPromise` is the refinement: under `IInv`,
`QueueIsExact` (a queue holds exactly the packets whose outcome is open, each once)
and `QueuedAreOffered`, every step is a step of `AddressResolution` or changes nothing
of it.

**Neighbour cache** (`NdiscCache_proofs`). `EntriesConsistent`, `TimerLost`,
`KeepsItsPromise`. `Consistent` is inductive and is proved entry by entry
(`ConsistentByEntry`): a step writes one entry (`PutPreserves`) or a set of them. The
refinement is harder than ARP's: a full queue drops its oldest packet and takes the
new one in one call, and a failed entry returns its packets one by one. `QInv` adds
that queues are in the order of arrival (`QueuedInOrder`), without which "the oldest"
would not be the head, and that an entry without address resolution under way holds
nothing.

**End points** (`EndPoints_proofs`). `TypeCorrect`, `Ambiguity`, `AnswersArrive`. `IInv`
is `Types`, what holds of one socket and its end point (`SocketOK`), of two sockets
with equal ports (`PairOK`) and of a connection being accepted (`ForkOK`). Lookup is a
choice among end points, so the theorem about answers rests on what every bind,
connect and fork excludes for each pair: `OneSocket` reduces a step to the pairs of the
socket it changes, `AllocateGives` and `EphemeralIsFree` say what a new end point
cannot clash with, and `LookupFinds` that the owner's end point is among the best.

**Reassembly** (`Ipv4Fragments_proofs`). `ReassemblyConsistent`, `WholeDelivered`,
`PartsKnown`, for every payload length, MTU and order of arrival. `IInv` has five
parts. `FragmentsOK` (`ListOK` of each list) says a list is ordered by offset, within
the packet, and its flag is clear exactly when the last fragment reaches the packet's
end; `AddKeeps` carries it through insertion at any place. `GetPacketSteps` and
`PartialPacketSteps` state one step of the two loops, and `GetsTheWhole`, `KnowsItsPart`
follow by induction over the list. `TimersOK` is about the list of timeouts: ordered
by time, one per list under reassembly. `EventsOK` bounds the pending events: one
comes before or when the first timeout is due (`EventComes`), and there are never
more than arrivals (`Few`). `DupsOK` and `DeliveredOK` close the circle.

**TCP connection** (`TcpConnection_proofs`). `ConnectionConsistent` (types, counters, the
send buffer, and that whatever waits for an acknowledgment has a timer),
`HandshakeAgreed`, `NeverMovesBack`, for every window, number of writes, retry limit,
capacity and loss. The handlers are operators on the record of one socket, so the proof
is about that record: one lemma per handler in the order of the source, from
`SendEmptyPacketFacts` to `ForwardUpSound`, says that a `Sound` socket stays so and how
its state moves. `Sound` is what `RetransmissionCovered` needs besides itself:

- `Timed`: a FIN of FIN_WAIT_1 or CLOSING has a timer, in ESTABLISHED the timer runs
  only while there is data (so that `SendEmptyPacket`, which arms a timer only when none
  runs, arms one for the FIN), and FIN_WAIT_2 or CLOSING comes after Close or
  ShutdownSend;
- `Repeats`: LAST_ACK is repeated by its own event, by the FIN's timer, or by the data
  timer as long as there is data to time; a data timer that outlives its data into
  CLOSE_WAIT is that of an application that closed, which cannot close again;
- `Quiet`, `Buffers` and `Live`: no timer without an end point, the send buffer is an
  interval, a connected socket has sent and taken a SYN.

A socket before its handshake is `Fresh`. `Outcome` sums up a handler's step, and one
lemma per action (`StepKeeps` for what they share) puts it together with the network,
of which only `NetOK` is needed: whoever acknowledges is connected, and a SYN+ACK
follows a SYN. Retransmission needs the loop of `SendPendingData` in closed form:
`NthFacts` and `ToSendFacts` say which segments it sends.

`AckedWasReceived` and `EofHasAllData` are about both sockets and the segments between
them, and the second half of the module goes through the handlers once more with the
peer in view. `DataInv` says of each socket what it may rely on in the other:

- `Sends`: the head of the send buffer is not beyond what the peer expects next,
  `m_nextTxSequence` passes `m_highTxMark` only up to there, FIN_WAIT_2 means that the
  peer counted more than was sent, the tail is the number of segments written
  (`Counted`), and whoever sends a FIN is not going to write;
- `Takes`: what is stored was sent, what is stored out of order lies beyond a gap,
  everything written below `NextRxSequence` is stored, which passes what the peer
  wrote only if the peer is not going to write (`Beyond`), and a remembered FIN is at
  the last segment, then stored, or behind it;
- `Said`, for each segment under way: it acknowledges no more than its sender expects
  next, carries a segment that was written, and its FIN is numbered behind the data.

None of the three is inductive alone. `AckedIsReceived` needs that an acknowledgment
tells the truth (`Said`), that what it covers was stored (`Takes`), and that a number one
beyond the data is a FIN's (`Beyond`, `Counted`); `EofAfterAllData` needs where a FIN
may be numbered, which depends on the sender's buffer when it was sent. What makes it
carry over is `Grows`: the peer of a socket, and any segment however old, relies only on
numbers that grow, on data that stays stored, and on an application that stays over
(`SaidGrows`, `HeardGrows`). Each handler `Keeps` this, whatever the order in which
segments arrive; `Send` alone does not, and has its own lemma (`SendKnown`).

**Loss recovery** (`TcpSack_proofs`). `SackListIsTrueHolds`, `SackedIsReceivedHolds`,
`SackedStaysHolds`, for every segment size, duplicate threshold, number of SACK blocks,
length of the option and stream, and every number of losses and early timeouts. The
invariant `Sound` is about the two buffers, the segments and the ACKs on the way:

- the items of the sender are a row (`Row`): each begins where the one before ends, the
  first at `m_firstByteSeq`;
- the packets of the receiver are disjoint and beyond a gap, the blocks of its list are of
  them (`RxGood`); they and the segments on the way end within what was sent;
- with SACK, what the scoreboard has sacked *or an ACK on the way reports* the receiver
  holds, and neither the first byte of the sender's buffer nor the number of an ACK on
  the way is among it (`Trusted`).

`SackedIsReceived` alone is not inductive: an ACK that is read late must still be true, so
the reports on the way belong to the invariant. The last clause keeps the head
unsacked: a byte that is the next one missing at any time is never reported, as it is
acknowledged by number once it has come; the code that clears the mark of a new head
(`HeadUnsacked`) has nothing to do with SACK.
The methods of the buffers are loops over a list or a
map, here recursive functions; `Recursion` shows that such a function exists and that
what one turn keeps holds at the end, and there is one lemma per method on top of
it: `TrimmedFacts`, `NextMissingFacts`, `UpdateSackListFacts`, `StoreFacts` for the receiver;
for the sender `SplicedRow` and `RowCut` (what a split, a merge and a cut do to the bytes),
then `MergeItemsGrows` to `SetSentListLostGrows`, `UpdateReads`, `DiscardUpToDrops`, and one
lemma per handler up to `ProcessAckEvolves` and `ReTxTimeoutEvolves`. All but an ACK only
let the row grow; `AckTaken` says what an ACK may do besides, which gives `SackedStays`.

**RTT** (`RttEstimator_proofs`). `TypeCorrect`, `EstimateAmongSamples`,
`VariationWithinSpread`, `TimeoutCoversSample`, `NoOvershoot`. `IInv` joins the
properties with `UsedConsistent` (the history is ordered) and `SamplesByClass`
(`nSamples` agrees with the history for `RttMeanDeviation` and is 0 for the other
class). The lemmas about rounding carry the argument: a part of a difference, rounded
either way, lies between 0 and the difference (`FloorBounds`, `Rounded`), hence
`UpdateBetween`; with beta at least a quarter, four times the new variation makes up
for the distance to the sample up to what three roundings take, which alpha times the
granularity covers (`QuarterBounds`, `ThreeTicks`, `UpdateCovers`). `Covers` states
exactly this condition; the defaults (1/8, 1/4, a granularity of 1 ms in ns ticks)
satisfy it.

**RIP** (`Rip_proofs`). `DistancesAreUnique`, `TablesConsistent`, `NoPathTooShort`,
`NeighboursDoAgree`, for every network, metric, strategy, delay and number of failures
and losses. The argument has three parts.

- *Distances.* `Distance` counts walks of as many steps as there are routers.
  `WalksShrink` says that a longer walk changes a metric only if one of a router not
  settled before does, so that at least one more router is settled with each step, and
  `WalksSettle` that after as many steps as routers nothing changes. Hence `Distance`
  solves the equations of a shortest path (`DistanceFacts`) and, as every step costs at
  least one, nothing else does (`DistancesAreUnique`).
- *Safety.* `IInv` says of every entry and every message that it is one a router may
  believe (`Believable`) or its sender may tell (`Sendable`): its metric is not below
  the sender's distance, and its status, event and gateway agree. `NeverTooShort` alone
  is not inductive: the metric of an invalid entry must be known to be infinity, since
  `AsGood` may make it valid again. `OfferFacts` is the triangle inequality, `AfterFacts`
  and `ProcessedFacts` follow it through the comparison of one RTE, `TablesFacts`
  through a whole response and `RtesFacts` through the composition of one.
- *Agreement.* `AInv` adds to `IInv` what holds of a link while messages are under way.
  `Sees`: what was said last, in the last response on the way or else in the receiver's
  table, is what the sender has, unless the sender has a marked route (`Marked`), which
  the next update tells. `Fresh`: no route learned over the link is about to time out,
  being told in this tick or due to be. `TableOK`: a route to be deleted loses its mark
  an update before it is deleted, and a network that stays up has one entry. The
  theorem assumes `TimeoutDelay > 1` and `GarbageCollectionDelay > 1`: a route must
  outlive the update that would confirm it, and an invalid one the update that tells of
  it (the defaults of 180 and 120 s, in ticks of 45 s, are 4 and 2). With a
  `TimeoutDelay` of 1 TLC finds `NeighboursAgree` violated.

`PacketsOnlyWhileWaiting` and `VariationWithinSpread` are proved and in no run.

A proof module begins with the facts about numbers and sequences that it needs: a
nonempty set of naturals has a least element (`Least`), induction over the naturals for a
set of them (`Induct`; the library's rule takes an operator, which the provers cannot
instantiate), what `Append`, `Tail`, `SubSeq` and `\o` do to the elements of a sequence,
and that a function given by its first value and the step from one to the next exists
(`Iterated` of `Rip_proofs`, `Recursion` of `TcpSack_proofs`).

**Model-checked only.** `Consistent` and `LostHasWitness` of `TcpSack`: they compare the
counters, and the marks for lost segments, with sums over a list that is split and merged.
`GlobalRouting`: its properties compare a whole run of a search with a definition of
its result. Every liveness property, among them `StreamDelivered` of `TcpSack`,
`Converges` of `Rip` and those of `TcpLive` (liveness under fairness and ENABLED are out
of this prover's reach).

## 7. Plan

Done: the modules of section 2. Left, in this order:

1. Proofs: `Consistent` of `TcpSack` (the counters of the scoreboard), then
   `LostHasWitness`; the search of `GlobalRouting`.
2. `TcpRto`: `m_rto` with its backoff and `m_history` with Karn's rule, composed with
   `RttEstimator`.
3. An abstract byte stream (written, delivered, end of file) that `TcpConnection` and
   `TcpSack` implement; the persist timer.
4. The IPv6 twins: `ripng.cc` as `Rip`, reassembly in `ipv6-extension.cc` as
   `Ipv4Fragments`, the IPv6 end points as `EndPoints`.

### Not modelled

Congestion control in floating point and BBR, where a value and not an order of steps
is what may be wrong; serialisation of headers and options (a sixth of the module's
lines, most of them field access); doxygen text, attributes, tracing and logging,
which together with the declarations in the headers are about half of every file;
the NSC adapters, whose kernels are not in the repository; plots and scripts; and
`src/Code`, whose files are copies. What the map covers is therefore small beside the
module's 91 thousand lines, although the parts that keep state between events and
react to each other are the ones that are modelled.
