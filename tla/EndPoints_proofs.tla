-------------------------- MODULE EndPoints_proofs --------------------------
(***************************************************************************)
(* Proofs about EndPoints, for every number of sockets, devices, remotes   *)
(* and ports: the end points keep their types, a packet that two sockets   *)
(* claim has one of the causes named, and the answer to what a socket      *)
(* sends comes back to it.                                                 *)
(*                                                                         *)
(* The invariant behind it says of each two end points that they differ in *)
(* port, address, peer or device unless they may clash, that ephemeral     *)
(* ports are shared only by a listener and the connections forked from it, *)
(* and that a fork still finds its listener where it was, or is late.      *)
(***************************************************************************)
EXTENDS EndPoints, FiniteSetTheorems, WellFoundedInduction, TLAPS

-----------------------------------------------------------------------------
(* Facts about numbers *)

\* A set of naturals, unless it is empty, has a least element.
LEMMA Least ==
    ASSUME NEW S \in SUBSET Nat, S # {}
    PROVE  \E m \in S : \A n \in S : m <= n
  <1> DEFINE Less == {p \in Nat \X Nat : p[1] < p[2]}
  <1>1. IsWellFoundedOn(Less, Nat)
    BY NatLessThanWellFounded DEF OpToRel
  <1> HIDE DEF Less
  <1>2. PICK m \in S : \A n \in S : ~(<<n, m>> \in Less)
    BY <1>1, WFMin
  <1>3. \A n \in S : ~(n < m)
    BY <1>2 DEF Less
  <1> QED
    BY <1>3

-----------------------------------------------------------------------------

Ports == BindPorts \cup FirstPort..LastPort
Outs == {RouteOutput(r, d) : r \in Remotes, d \in Devices \cup {None}}
Hosts == {Host(d) : d \in Devices \cup Outs}
Addresses == {AnyAddress} \cup BindAddresses \cup Hosts

SocketRecord ==
    [state : {"CLOSED", "LISTEN", "SYN_SENT", "SYN_RCVD"}, device : Devices \cup {None},
     shutdown : SUBSET {"send", "recv"}, closed : BOOLEAN, named : BOOLEAN, late : BOOLEAN]

EndPointRecord ==
    [addr : Addresses, port : Ports, peer : Remotes \cup {None}, rxEnabled : BOOLEAN,
     device : Devices \cup {None}]

ForkRecord ==
    [socket : Sockets, to : {Host(d) : d \in Devices}, port : Ports, from : Remotes,
     listener : Sockets, orphan : BOOLEAN]

Types ==
    /\ protocol \in {"udp", "tcp"}
    /\ socket \in [Sockets -> SocketRecord]
    /\ endPoint \in [Sockets -> {NoEndPoint} \cup EndPointRecord]
    /\ forks \subseteq ForkRecord
    /\ ephemeral \in FirstPort..LastPort
    /\ failed \in {"no", "null end point", "too many end points"}

\* What each protocol makes of its sockets and their end points.
SocketOK(s) ==
    /\ HasEndPoint(s) => endPoint[s].device \in {None, socket[s].device}
    /\ protocol = "udp" =>
          /\ socket[s].state = "CLOSED"
          /\ HasEndPoint(s) => endPoint[s].peer = None
    /\ protocol = "tcp" /\ HasEndPoint(s) =>
          /\ endPoint[s].device # None => socket[s].late
          /\ socket[s].state \in {"SYN_SENT", "SYN_RCVD"} => endPoint[s].addr \in Hosts

\* The port of s was given out as an ephemeral port, to s or to the listener
\* that s was forked from and that had it until then.
Ephemeral(s) ==
    /\ HasEndPoint(s) /\ ~ socket[s].named
    /\ socket[s].state = "SYN_RCVD" => ~ socket[s].late

\* Two sockets with one ephemeral port are forks, or a fork and a listener.
PortsDiffer(s, t) ==
    Ephemeral(s) /\ Ephemeral(t) /\ endPoint[s].port = endPoint[t].port =>
        /\ socket[s].state \in {"LISTEN", "SYN_RCVD"}
        /\ socket[t].state \in {"LISTEN", "SYN_RCVD"}
        /\ socket[s].state = "SYN_RCVD" \/ socket[t].state = "SYN_RCVD"

\* Two sockets with equal end points are allowed to clash.
Differ(s, t) ==
    (/\ HasEndPoint(s) /\ HasEndPoint(t)
     /\ endPoint[s].port = endPoint[t].port /\ endPoint[s].addr = endPoint[t].addr
     /\ endPoint[s].peer = endPoint[t].peer /\ endPoint[s].device = endPoint[t].device)
        => MayClash(s, t)

PairOK(s, t) == PortsDiffer(s, t) /\ Differ(s, t)

\* A fork waits in a socket of its own, without an end point, and its listener
\* listens on the port the SYN came for, as long as the fork is no orphan.
ForkOK(f) ==
    /\ protocol = "tcp"
    /\ ~ HasEndPoint(f.socket) /\ socket[f.socket].state = "LISTEN"
    /\ \A g \in forks : g.socket = f.socket => g = f
    /\ ~ f.orphan =>
          /\ HasEndPoint(f.listener) /\ endPoint[f.listener].port = f.port
          /\ socket[f.listener].state = "LISTEN"
          /\ socket[f.listener].named = socket[f.socket].named

IInv ==
    /\ Types
    /\ \A s \in Sockets : SocketOK(s)
    /\ \A s, t \in Sockets : s # t => PairOK(s, t)
    /\ \A f \in forks : ForkOK(f)

-----------------------------------------------------------------------------
(* End points and ports *)

LEMMA NoPortIsZero == 0 \notin Ports /\ NoEndPoint \notin EndPointRecord
  <1>1. 0 \notin Ports
    BY EndPointsAssumption DEF Ports
  <1>2. ASSUME NoEndPoint \in EndPointRecord PROVE FALSE
    <2>1. NoEndPoint.port \in Ports
      BY <1>2 DEF EndPointRecord
    <2>2. NoEndPoint.port = 0
      BY DEF NoEndPoint
    <2> QED
      BY <1>1, <2>1, <2>2
  <1> QED
    BY <1>1, <1>2

\* An end point with a port is an end point.
LEMMA EndPointType ==
    ASSUME Types, NEW s \in Sockets
    PROVE  /\ HasEndPoint(s) <=> endPoint[s] \in EndPointRecord
           /\ HasEndPoint(s) <=> endPoint[s].port \in Ports
           /\ ~ HasEndPoint(s) => endPoint[s].port = 0
  <1>1. endPoint[s] \in {NoEndPoint} \cup EndPointRecord
    BY DEF Types
  <1>2. NoEndPoint.port = 0
    BY DEF NoEndPoint
  <1> QED
    BY <1>1, <1>2, NoPortIsZero DEF HasEndPoint, EndPointRecord

\* The port after the last one that was given out, if there is any free one.
LEMMA EphemeralIsFree ==
    ASSUME Types, AllocateEphemeralPort # 0
    PROVE  /\ AllocateEphemeralPort \in FirstPort..LastPort
           /\ \A s \in Sockets : endPoint[s].port # AllocateEphemeralPort
  <1> DEFINE range == LastPort - FirstPort + 1
             After(k) == FirstPort + ((ephemeral - FirstPort + k) % range)
             free == {k \in 1..range : \A s \in Sockets : endPoint[s].port # After(k)}
  <1>1. free # {} /\ AllocateEphemeralPort = After(Min(free))
    BY DEF AllocateEphemeralPort
  <1>2. range \in Nat \ {0} /\ FirstPort \in Nat /\ LastPort \in Nat /\ ephemeral \in Nat
    <2>1. FirstPort \in Nat /\ LastPort \in Nat /\ FirstPort <= LastPort
      BY EndPointsAssumption
    <2>2. ephemeral \in FirstPort..LastPort
      BY DEF Types
    <2> QED
      BY <2>1, <2>2
  <1>3. free \in SUBSET Nat
    BY <1>2
  <1>4. Min(free) \in free
    <2> HIDE DEF free
    <2>1. \E m \in free : \A n \in free : m <= n
      BY <1>1, <1>3, Least
    <2> QED
      BY <2>1 DEF Min
  <1>5. \A k \in 1..range : After(k) \in FirstPort..LastPort
    <2> TAKE k \in 1..range
    <2>1. ephemeral - FirstPort + k \in Int
      BY <1>2
    <2>2. (ephemeral - FirstPort + k) % range \in 0..(range - 1)
      <3> HIDE DEF range
      <3> QED
        BY <1>2, <2>1
    <2> QED
      BY <1>2, <2>2
  <1> HIDE DEF After, range
  <1> QED
    BY <1>1, <1>4, <1>5

LEMMA AllocateGives ==
    ASSUME Types, NEW s \in Sockets, NEW addr \in Addresses, NEW port \in BindPorts \cup {0},
           NEW e, e = Allocate(s, addr, port), e # NoEndPoint
    PROVE  /\ e \in EndPointRecord
           /\ e.addr = addr /\ e.peer = None /\ e.rxEnabled
           /\ e.device = IF protocol = "udp" THEN socket[s].device ELSE None
           /\ IF port = 0 THEN /\ e.port \in FirstPort..LastPort
                               /\ \A t \in Sockets : endPoint[t].port # e.port
                          ELSE /\ e.port = port
                               /\ CanAllocate(socket[s].device, addr, port)
  <1> DEFINE device == socket[s].device
             given == IF port = 0 THEN AllocateEphemeralPort
                      ELSE IF CanAllocate(device, addr, port) THEN port ELSE 0
  <1>1. given # 0
    BY DEF Allocate
  <1>2. e = [addr |-> addr, port |-> given, peer |-> None, rxEnabled |-> TRUE,
             device |-> IF protocol = "udp" THEN device ELSE None]
    BY DEF Allocate
  <1>3. IF port = 0 THEN /\ given \in FirstPort..LastPort
                         /\ \A t \in Sockets : endPoint[t].port # given
                    ELSE given = port /\ CanAllocate(device, addr, port)
    BY <1>1, EphemeralIsFree
  <1>4. given \in Ports
    BY <1>3 DEF Ports
  <1>5. device \in Devices \cup {None}
    BY DEF Types, SocketRecord
  <1> HIDE DEF given
  <1> QED
    BY <1>2, <1>3, <1>4, <1>5 DEF EndPointRecord

-----------------------------------------------------------------------------
(* Pairs of sockets *)

LEMMA PairSymmetric ==
    ASSUME NEW s \in Sockets, NEW t \in Sockets, PairOK(s, t)
    PROVE  PairOK(t, s)
  BY DEF PairOK, PortsDiffer, Differ, MayClash

\* One socket, and its end point, changes.
LEMMA OneSocket ==
    ASSUME IInv, NEW s \in Sockets, Types', UNCHANGED protocol,
           \A t \in Sockets \ {s} : socket'[t] = socket[t] /\ endPoint'[t] = endPoint[t],
           SocketOK(s)', \A t \in Sockets \ {s} : PairOK(s, t)'
    PROVE  /\ \A t \in Sockets : SocketOK(t)'
           /\ \A t, u \in Sockets : t # u => PairOK(t, u)'
  <1>1. \A t \in Sockets \ {s} : SocketOK(t)'
    BY DEF IInv, SocketOK, HasEndPoint
  <1>2. ASSUME NEW t \in Sockets \ {s}, NEW u \in Sockets \ {s}, t # u
        PROVE  PairOK(t, u)'
    <2>1. PairOK(t, u)
      BY <1>2 DEF IInv
    <2> QED
      BY <2>1 DEF PairOK, PortsDiffer, Differ, MayClash, Ephemeral, HasEndPoint
  <1>3. \A t \in Sockets \ {s} : PairOK(t, s)'
    BY PairSymmetric DEF PairOK, PortsDiffer, Differ, MayClash
  <1> QED
    BY <1>1, <1>2, <1>3

\* The forks do not notice when the socket that changes is none of theirs, and
\* is no listener of theirs or goes on to listen.
LEMMA ForksKept ==
    ASSUME IInv, NEW s \in Sockets, UNCHANGED protocol, forks' \subseteq forks,
           \A t \in Sockets \ {s} : socket'[t] = socket[t] /\ endPoint'[t] = endPoint[t],
           \A f \in forks' : f.socket # s,
           \/ ~ HasEndPoint(s)
           \/ socket[s].state # "LISTEN"
           \/ /\ HasEndPoint(s)' /\ endPoint'[s].port = endPoint[s].port
              /\ socket'[s].state = "LISTEN" /\ socket'[s].named = socket[s].named
    PROVE  \A f \in forks' : ForkOK(f)'
  <1> SUFFICES ASSUME NEW f \in forks' PROVE ForkOK(f)'
    OBVIOUS
  <1>1. f.socket \in Sockets /\ f.listener \in Sockets /\ f.socket # s /\ ForkOK(f)
    BY DEF IInv, Types, ForkRecord
  <1>2. socket'[f.socket] = socket[f.socket] /\ endPoint'[f.socket] = endPoint[f.socket]
    BY <1>1
  <1> QED
    BY <1>1, <1>2 DEF ForkOK, HasEndPoint

\* A socket without an end point gets on with every other.
LEMMA UnboundOK ==
    ASSUME NEW s \in Sockets, ~ HasEndPoint(s)
    PROVE  \A t \in Sockets : PairOK(s, t)
  BY DEF PairOK, PortsDiffer, Differ, Ephemeral

-----------------------------------------------------------------------------
(* Each action keeps the invariant *)

\* The step changes the socket s and its end point, and nobody else's.
Only(s) == \A t \in Sockets \ {s} : socket'[t] = socket[t] /\ endPoint'[t] = endPoint[t]

\* The socket s takes the end point e that was allocated for a port.
LEMMA BindKeeps ==
    ASSUME IInv, NEW s \in Sockets, NEW addr \in Addresses, NEW port \in BindPorts \cup {0},
           Bind(s, addr, port)
    PROVE  IInv'
  <1> DEFINE e == Allocate(s, addr, port)
  <1>1. Types /\ SocketOK(s) /\ socket[s] \in SocketRecord /\ endPoint[s] = NoEndPoint
    BY DEF IInv, Types, Bind, HasEndPoint
  <1>2. /\ e \in EndPointRecord /\ e # NoEndPoint
        /\ e.addr = addr /\ e.peer = None /\ e.rxEnabled
        /\ e.device = IF protocol = "udp" THEN socket[s].device ELSE None
        /\ IF port = 0 THEN /\ e.port \in FirstPort..LastPort
                            /\ \A t \in Sockets : endPoint[t].port # e.port
                       ELSE /\ e.port = port
                            /\ CanAllocate(socket[s].device, addr, port)
    <2>1. e # NoEndPoint
      BY DEF Bind
    <2> QED
      BY <1>1, <2>1, AllocateGives
  <1> HIDE DEF e
  <1>3. /\ endPoint' = [endPoint EXCEPT ![s] = e]
        /\ ephemeral' = IF port = 0 THEN e.port ELSE ephemeral
        /\ socket' = [socket EXCEPT ![s] = [socket[s] EXCEPT !.named = (port # 0)]]
        /\ UNCHANGED <<protocol, forks, failed>>
        /\ socket[s].state \in {"CLOSED", "LISTEN"}
        /\ \A f \in forks : f.socket # s
    BY <1>1 DEF Bind, Takes, Usable, Types, SocketRecord, e
  <1>4. Only(s)
    BY <1>3 DEF Types, Only
  <1>5. /\ endPoint'[s] = e /\ socket'[s] \in SocketRecord /\ HasEndPoint(s)'
        /\ socket'[s].named = (port # 0) /\ socket'[s].state = socket[s].state
        /\ socket'[s].device = socket[s].device /\ socket'[s].late = socket[s].late
    BY <1>1, <1>2, <1>3 DEF Types, SocketRecord, HasEndPoint
  <1>6. Types'
    BY <1>1, <1>2, <1>3, <1>5 DEF Types
  <1>7. SocketOK(s)'
    BY <1>1, <1>2, <1>3, <1>5 DEF SocketOK
  <1>8. ASSUME NEW t \in Sockets \ {s} PROVE PairOK(s, t)'
    <2>1. endPoint'[t] = endPoint[t] /\ socket'[t] = socket[t]
      BY <1>4 DEF Only
    <2>2. CASE port = 0
      <3>1. endPoint'[t].port # endPoint'[s].port
        BY <1>2, <1>5, <2>1, <2>2
      <3> QED
        BY <3>1 DEF PairOK, PortsDiffer, Differ
    <2>3. CASE port # 0
      <3>1. ~ Ephemeral(s)'
        BY <1>5, <2>3 DEF Ephemeral
      <3>2. ASSUME HasEndPoint(t)', endPoint'[s].port = endPoint'[t].port,
                   endPoint'[s].addr = endPoint'[t].addr,
                   endPoint'[s].device = endPoint'[t].device
            PROVE  FALSE
        <4>1. t \in Owners /\ endPoint[t].port = port /\ endPoint[t].addr = addr
          BY <1>2, <1>5, <2>1, <2>3, <3>2 DEF Owners, HasEndPoint
        <4>2. endPoint[t].device \in {socket[s].device, None}
          BY <1>2, <1>5, <2>1, <3>2
        <4> QED
          BY <1>2, <2>3, <4>1, <4>2 DEF CanAllocate, LookupLocal
      <3> QED
        BY <3>1, <3>2 DEF PairOK, PortsDiffer, Differ
    <2> QED
      BY <2>2, <2>3
  <1>9. /\ \A t \in Sockets : SocketOK(t)'
        /\ \A t, u \in Sockets : t # u => PairOK(t, u)'
    BY <1>3, <1>4, <1>6, <1>7, <1>8, OneSocket DEF Only
  <1>10. \A f \in forks' : ForkOK(f)'
    BY <1>1, <1>3, <1>4, ForksKept DEF Only, HasEndPoint
  <1> QED
    BY <1>6, <1>9, <1>10 DEF IInv

\* A step that changes nothing but failed.
LEMMA OnlyFailed ==
    ASSUME IInv, UNCHANGED <<protocol, socket, endPoint, ephemeral, forks>>,
           failed' \in {"no", "null end point", "too many end points"}
    PROVE  IInv'
  <1>1. Types'
    BY DEF IInv, Types
  <1>2. ASSUME NEW t \in Sockets PROVE SocketOK(t)'
    BY DEF IInv, SocketOK, Ephemeral, HasEndPoint
  <1>3. ASSUME NEW t \in Sockets, NEW u \in Sockets, t # u PROVE PairOK(t, u)'
    <2>1. PortsDiffer(t, u)'
      BY <1>3 DEF IInv, PairOK, PortsDiffer, Ephemeral, HasEndPoint
    <2>2. Differ(t, u)'
      BY <1>3 DEF IInv, PairOK, Differ, MayClash, HasEndPoint
    <2> QED
      BY <2>1, <2>2 DEF PairOK
  <1>4. ASSUME NEW f \in forks' PROVE ForkOK(f)'
    BY <1>4 DEF IInv, ForkOK, HasEndPoint
  <1> QED
    BY <1>1, <1>2, <1>3, <1>4 DEF IInv

LEMMA BindAnyKeeps ==
    ASSUME IInv, NEW s \in Sockets, BindAny(s)
    PROVE  IInv'
  <1>1. CASE Bind(s, AnyAddress, 0)
    BY <1>1, BindKeeps DEF Addresses
  <1>2. CASE ~ Bind(s, AnyAddress, 0)
    <2>1. /\ UNCHANGED <<protocol, socket, endPoint, ephemeral, forks>>
          /\ failed' \in {"no", "null end point", "too many end points"}
      BY <1>2 DEF BindAny, IInv, Types
    <2> QED
      BY <2>1, OnlyFailed
  <1> QED
    BY <1>1, <1>2

\* A socket that has an end point is late from now on.
LEMMA BindToNetDeviceKeeps ==
    ASSUME IInv, NEW s \in Sockets, NEW d \in Devices \cup {None}, BindToNetDevice(s, d)
    PROVE  IInv'
  <1>1. Types /\ SocketOK(s) /\ socket[s] \in SocketRecord
    BY DEF IInv, Types
  <1>2. /\ socket' = [socket EXCEPT ![s] =
                        [socket[s] EXCEPT !.device = d, !.late = @ \/ HasEndPoint(s)]]
        /\ endPoint' = IF HasEndPoint(s)
                       THEN [endPoint EXCEPT ![s] = [endPoint[s] EXCEPT !.device = d]]
                       ELSE endPoint
        /\ UNCHANGED <<protocol, ephemeral, forks, failed>>
        /\ \A f \in forks : f.socket # s
    BY <1>1 DEF BindToNetDevice, Usable, Types, SocketRecord
  <1>3. Only(s)
    BY <1>2 DEF Types, Only
  <1>4. /\ socket'[s] \in SocketRecord /\ socket'[s].device = d
        /\ socket'[s].late = (socket[s].late \/ HasEndPoint(s))
        /\ socket'[s].state = socket[s].state /\ socket'[s].named = socket[s].named
    BY <1>1, <1>2 DEF Types, SocketRecord
  <1>5. /\ HasEndPoint(s) => /\ endPoint'[s] \in EndPointRecord /\ endPoint'[s].device = d
                             /\ endPoint'[s].port = endPoint[s].port
                             /\ endPoint'[s].peer = endPoint[s].peer
                             /\ endPoint'[s].addr = endPoint[s].addr
        /\ ~ HasEndPoint(s) => endPoint'[s] = NoEndPoint
    BY <1>1, <1>2, EndPointType DEF Types, EndPointRecord, HasEndPoint
  <1>6. HasEndPoint(s)' <=> HasEndPoint(s)
    BY <1>5, NoPortIsZero DEF HasEndPoint
  <1>7. Types'
    BY <1>1, <1>2, <1>4, <1>5 DEF Types
  <1>8. SocketOK(s)'
    BY <1>1, <1>2, <1>4, <1>5, <1>6 DEF SocketOK
  <1>9. ASSUME NEW t \in Sockets \ {s} PROVE PairOK(s, t)'
    <2>1. endPoint'[t] = endPoint[t] /\ socket'[t] = socket[t] /\ PairOK(s, t)
      BY <1>3 DEF Only, IInv
    <2>2. PortsDiffer(s, t)'
      BY <1>4, <1>5, <1>6, <2>1 DEF PairOK, PortsDiffer, Ephemeral, HasEndPoint
    <2>3. Differ(s, t)'
      BY <1>4, <1>6 DEF Differ, MayClash
    <2> QED
      BY <2>2, <2>3 DEF PairOK
  <1>10. /\ \A t \in Sockets : SocketOK(t)'
         /\ \A t, u \in Sockets : t # u => PairOK(t, u)'
    BY <1>2, <1>3, <1>7, <1>8, <1>9, OneSocket DEF Only
  <1>11. \A f \in forks' : ForkOK(f)'
    BY <1>2, <1>3, <1>4, <1>5, <1>6, ForksKept DEF Only
  <1> QED
    BY <1>7, <1>10, <1>11 DEF IInv

\* A socket that is shut down keeps all its end point but what it may receive.
LEMMA ShutdownKeeps ==
    ASSUME IInv, NEW s \in Sockets, ShutdownSend(s) \/ ShutdownRecv(s)
    PROVE  IInv'
  <1>1. Types /\ SocketOK(s) /\ socket[s] \in SocketRecord
    BY DEF IInv, Types
  <1>2. /\ UNCHANGED <<protocol, ephemeral, forks, failed>>
        /\ \A f \in forks : f.socket # s
    BY DEF ShutdownSend, ShutdownRecv, Usable
  <1>3. \E down \in SUBSET {"send", "recv"} :
           socket' = [socket EXCEPT ![s] = [socket[s] EXCEPT !.shutdown = down]]
    <2>1. CASE ShutdownSend(s)
      BY <1>1, <2>1 DEF ShutdownSend, Types, SocketRecord
    <2>2. CASE ShutdownRecv(s)
      <3>1. socket[s].shutdown \cup {"recv"} \in SUBSET {"send", "recv"}
        BY <1>1 DEF SocketRecord
      <3>2. socket' = [socket EXCEPT ![s] =
                         [socket[s] EXCEPT !.shutdown = socket[s].shutdown \cup {"recv"}]]
        BY <1>1, <2>2 DEF ShutdownRecv, Types, SocketRecord
      <3> QED
        BY <3>1, <3>2
    <2> QED
      BY <2>1, <2>2
  <1>4. \/ endPoint' = endPoint
        \/ /\ HasEndPoint(s)
           /\ endPoint' = [endPoint EXCEPT ![s] = [endPoint[s] EXCEPT !.rxEnabled = FALSE]]
    BY <1>1 DEF ShutdownSend, ShutdownRecv, Types
  <1>5. Only(s)
    BY <1>1, <1>3, <1>4 DEF Types, Only
  <1>6. /\ socket'[s] \in SocketRecord /\ socket'[s].device = socket[s].device
        /\ socket'[s].late = socket[s].late /\ socket'[s].closed = socket[s].closed
        /\ socket'[s].state = socket[s].state /\ socket'[s].named = socket[s].named
    <2>1. PICK down \in SUBSET {"send", "recv"} :
            socket' = [socket EXCEPT ![s] = [socket[s] EXCEPT !.shutdown = down]]
      BY <1>3
    <2>2. socket'[s] = [socket[s] EXCEPT !.shutdown = down]
      BY <1>1, <2>1 DEF Types
    <2> QED
      BY <1>1, <2>2 DEF SocketRecord
  <1>7. /\ HasEndPoint(s) => /\ endPoint'[s] \in EndPointRecord
                             /\ endPoint'[s].device = endPoint[s].device
                             /\ endPoint'[s].port = endPoint[s].port
                             /\ endPoint'[s].peer = endPoint[s].peer
                             /\ endPoint'[s].addr = endPoint[s].addr
        /\ ~ HasEndPoint(s) => endPoint'[s] = NoEndPoint
    <2>1. endPoint[s] \in EndPointRecord \/ endPoint[s] = NoEndPoint
      BY <1>1 DEF Types
    <2>2. DOMAIN endPoint = Sockets
      BY <1>1 DEF Types
    <2>3. CASE endPoint' = endPoint
      BY <2>1, <2>3 DEF HasEndPoint
    <2>4. CASE /\ HasEndPoint(s)
               /\ endPoint' = [endPoint EXCEPT ![s] = [endPoint[s] EXCEPT !.rxEnabled = FALSE]]
      <3>1. endPoint[s] \in EndPointRecord
        BY <2>1, <2>4 DEF HasEndPoint
      <3>2. endPoint'[s] = [endPoint[s] EXCEPT !.rxEnabled = FALSE]
        BY <2>2, <2>4
      <3>3. endPoint'[s] \in EndPointRecord
        BY <3>1, <3>2 DEF EndPointRecord
      <3> QED
        BY <2>4, <3>1, <3>2, <3>3 DEF EndPointRecord
    <2> QED
      BY <1>4, <2>3, <2>4
  <1>8. HasEndPoint(s)' <=> HasEndPoint(s)
    BY <1>7, NoPortIsZero DEF HasEndPoint
  <1>9. Types'
    BY <1>1, <1>2, <1>3, <1>4, <1>6, <1>7 DEF Types
  <1>10. SocketOK(s)'
    BY <1>1, <1>2, <1>6, <1>7, <1>8 DEF SocketOK
  <1>11. ASSUME NEW t \in Sockets \ {s} PROVE PairOK(s, t)'
    <2>1. endPoint'[t] = endPoint[t] /\ socket'[t] = socket[t] /\ PairOK(s, t)
      BY <1>5 DEF Only, IInv
    <2> QED
      BY <1>6, <1>7, <1>8, <2>1
      DEF PairOK, PortsDiffer, Differ, MayClash, Ephemeral, HasEndPoint
  <1>12. /\ \A t \in Sockets : SocketOK(t)'
         /\ \A t, u \in Sockets : t # u => PairOK(t, u)'
    BY <1>2, <1>5, <1>9, <1>10, <1>11, OneSocket DEF Only
  <1>13. \A f \in forks' : ForkOK(f)'
    BY <1>2, <1>5, <1>6, <1>7, <1>8, ForksKept DEF Only
  <1> QED
    BY <1>9, <1>12, <1>13 DEF IInv

LEMMA CloseUdpKeeps ==
    ASSUME IInv, NEW s \in Sockets, CloseUdp(s)
    PROVE  IInv'
  <1>1. Types /\ SocketOK(s) /\ protocol = "udp"
    BY DEF IInv, CloseUdp
  <1>2. /\ socket' = [socket EXCEPT ![s] = Closed]
        /\ endPoint' = [endPoint EXCEPT ![s] = NoEndPoint]
        /\ UNCHANGED <<protocol, ephemeral, forks, failed>>
        /\ \A f \in forks : f.socket # s
    BY DEF CloseUdp, Usable
  <1>3. Closed \in SocketRecord /\ Closed.state = "CLOSED"
    BY DEF Closed, NewSocket, SocketRecord
  <1>4. /\ Only(s) /\ ~ HasEndPoint(s)' /\ socket'[s].state = "CLOSED"
    BY <1>1, <1>2, <1>3 DEF Types, Only, HasEndPoint
  <1>5. Types'
    BY <1>1, <1>2, <1>3 DEF Types
  <1>6. SocketOK(s)'
    BY <1>1, <1>2, <1>4 DEF SocketOK
  <1>7. \A t \in Sockets \ {s} : PairOK(s, t)'
    BY <1>4 DEF PairOK, PortsDiffer, Differ, Ephemeral
  <1>8. /\ \A t \in Sockets : SocketOK(t)'
        /\ \A t, u \in Sockets : t # u => PairOK(t, u)'
    BY <1>2, <1>4, <1>5, <1>6, <1>7, OneSocket DEF Only
  <1>9. \A f \in forks' : ForkOK(f)'
    <2>1. socket[s].state # "LISTEN"
      BY <1>1 DEF SocketOK
    <2> QED
      BY <1>2, <1>4, <2>1, ForksKept DEF Only
  <1> QED
    BY <1>5, <1>8, <1>9 DEF IInv

\* A connection gets a port of its own, or shares the one it is bound to only
\* with sockets it may clash with.
LEMMA ConnectKeeps ==
    ASSUME IInv, NEW s \in Sockets, NEW r \in Remotes, Connect(s, r)
    PROVE  IInv'
  <1> DEFINE bound == HasEndPoint(s)
             e == IF bound THEN endPoint[s] ELSE Allocate(s, AnyAddress, 0)
             out == RouteOutput(r, socket[s].device)
             n == [e EXCEPT !.peer = r, !.addr = IF out = None THEN @ ELSE Host(out)]
             st == IF out = None THEN "CLOSED" ELSE "SYN_SENT"
  <1>1. /\ Types /\ SocketOK(s) /\ socket[s] \in SocketRecord
        /\ protocol = "tcp" /\ socket[s].state = "CLOSED"
    BY DEF IInv, Types, Connect
  <1>2. /\ e # NoEndPoint
        /\ endPoint' = [endPoint EXCEPT ![s] = n]
        /\ ephemeral' = IF bound THEN ephemeral ELSE e.port
        /\ socket' = [socket EXCEPT ![s].named = bound /\ @,
                                    ![s].state = IF out = None THEN @ ELSE "SYN_SENT"]
        /\ UNCHANGED <<protocol, forks, failed>>
        /\ \A f \in forks : f.socket # s
    BY DEF Connect, Usable
  <1>3. socket' = [socket EXCEPT ![s] = [socket[s] EXCEPT !.named = bound /\ @, !.state = st]]
    BY <1>1, <1>2 DEF Types, SocketRecord
  <1>4. /\ e \in EndPointRecord
        /\ bound => e = endPoint[s]
        /\ ~ bound => /\ e.port \in FirstPort..LastPort /\ e.device = None
                      /\ \A t \in Sockets : endPoint[t].port # e.port
    <2>1. CASE bound
      BY <1>1, <2>1, EndPointType
    <2>2. CASE ~ bound
      BY <1>1, <1>2, <2>2, AllocateGives DEF Addresses
    <2> QED
      BY <2>1, <2>2
  <1> HIDE DEF e
  <1>5. out # None => Host(out) \in Hosts
    <2>1. socket[s].device \in Devices \cup {None}
      BY <1>1 DEF SocketRecord
    <2>2. out \in Outs
      BY <2>1 DEF Outs
    <2> QED
      BY <2>2 DEF Hosts
  <1>6. /\ n \in EndPointRecord /\ n.port = e.port /\ n.peer = r /\ n.device = e.device
        /\ out # None => n.addr \in Hosts
    BY <1>4, <1>5 DEF EndPointRecord, Addresses
  <1> HIDE DEF n
  <1>7. /\ socket'[s] \in SocketRecord /\ socket'[s].device = socket[s].device
        /\ socket'[s].late = socket[s].late /\ socket'[s].state = st
        /\ bound => socket'[s].named = socket[s].named
        /\ ~ bound => ~ socket'[s].named
    <2>1. socket'[s] = [socket[s] EXCEPT !.named = bound /\ @, !.state = st]
      BY <1>1, <1>3 DEF Types
    <2> QED
      BY <1>1, <2>1 DEF SocketRecord
  <1>8. Only(s) /\ endPoint'[s] = n /\ HasEndPoint(s)'
    BY <1>1, <1>2, <1>3, <1>6, NoPortIsZero DEF Types, Only, HasEndPoint
  <1>9. Types'
    BY <1>1, <1>2, <1>3, <1>4, <1>6, <1>7 DEF Types
  <1>10. SocketOK(s)'
    BY <1>1, <1>2, <1>4, <1>6, <1>7, <1>8 DEF SocketOK
  <1>11. ASSUME NEW t \in Sockets \ {s} PROVE PairOK(s, t)'
    <2>1. endPoint'[t] = endPoint[t] /\ socket'[t] = socket[t] /\ PairOK(s, t)
      BY <1>8 DEF Only, IInv
    <2>2. CASE ~ bound
      <3>1. endPoint'[t].port # endPoint'[s].port
        BY <1>4, <1>6, <1>8, <2>1, <2>2
      <3> QED
        BY <3>1 DEF PairOK, PortsDiffer, Differ
    <2>3. CASE bound
      <3>1. ASSUME HasEndPoint(t), endPoint'[s].port = endPoint'[t].port, ~ socket[s].named
            PROVE  ~ Ephemeral(t)
        <4>1. endPoint[s].port = endPoint[t].port
          BY <1>4, <1>6, <1>8, <2>1, <2>3, <3>1
        <4>2. Ephemeral(s)
          BY <1>1, <2>3, <3>1 DEF Ephemeral
        <4> QED
          BY <1>1, <2>1, <4>1, <4>2 DEF PairOK, PortsDiffer
      <3>2. PortsDiffer(s, t)'
        BY <1>7, <1>8, <2>1, <2>3, <3>1 DEF PortsDiffer, Ephemeral, HasEndPoint
      <3>3. ASSUME HasEndPoint(t), endPoint'[s].port = endPoint'[t].port
            PROVE  MayClash(s, t)'
        <4>1. endPoint'[s].peer # None /\ socket'[s].state # "SYN_RCVD"
          BY <1>6, <1>7, <1>8, EndPointsAssumption
        <4>2. CASE socket[s].named \/ socket[t].named
          BY <1>7, <2>1, <2>3, <4>1, <4>2 DEF MayClash
        <4>3. CASE ~ socket[s].named /\ ~ socket[t].named
          <5>1. socket[t].late
            BY <3>1, <3>3, <4>3 DEF Ephemeral
          <5> QED
            BY <2>1, <5>1 DEF MayClash
        <4> QED
          BY <4>2, <4>3
      <3> QED
        BY <2>1, <3>2, <3>3 DEF PairOK, Differ, HasEndPoint
    <2> QED
      BY <2>2, <2>3
  <1>12. /\ \A t \in Sockets : SocketOK(t)'
         /\ \A t, u \in Sockets : t # u => PairOK(t, u)'
    BY <1>2, <1>8, <1>9, <1>10, <1>11, OneSocket DEF Only
  <1>13. \A f \in forks' : ForkOK(f)'
    <2>1. socket[s].state # "LISTEN"
      BY <1>1
    <2> QED
      BY <1>2, <1>8, <2>1, ForksKept DEF Only
  <1> QED
    BY <1>9, <1>12, <1>13 DEF IInv

LEMMA ListenKeeps ==
    ASSUME IInv, NEW s \in Sockets, Listen(s)
    PROVE  IInv'
  <1>1. /\ Types /\ SocketOK(s) /\ socket[s] \in SocketRecord
        /\ protocol = "tcp" /\ socket[s].state = "CLOSED"
    BY DEF IInv, Types, Listen
  <1>2. /\ socket' = [socket EXCEPT ![s] = [socket[s] EXCEPT !.state = "LISTEN"]]
        /\ UNCHANGED <<protocol, endPoint, ephemeral, forks, failed>>
        /\ \A f \in forks : f.socket # s
    BY DEF Listen, Usable
  <1>3. /\ Only(s) /\ socket'[s] = [socket[s] EXCEPT !.state = "LISTEN"]
        /\ HasEndPoint(s)' <=> HasEndPoint(s)
    BY <1>1, <1>2 DEF Types, Only, HasEndPoint
  <1>4. /\ socket'[s] \in SocketRecord /\ socket'[s].device = socket[s].device
        /\ socket'[s].late = socket[s].late /\ socket'[s].state = "LISTEN"
        /\ socket'[s].named = socket[s].named
    BY <1>1, <1>3 DEF SocketRecord
  <1>5. Types'
    BY <1>1, <1>2, <1>4 DEF Types
  <1>6. SocketOK(s)'
    BY <1>1, <1>2, <1>3, <1>4 DEF SocketOK
  <1>7. ASSUME NEW t \in Sockets \ {s} PROVE PairOK(s, t)'
    <2>1. socket'[t] = socket[t] /\ PairOK(s, t)
      BY <1>3 DEF Only, IInv
    <2>2. PortsDiffer(s, t)'
      BY <1>1, <1>2, <1>4, <2>1 DEF PairOK, PortsDiffer, Ephemeral, HasEndPoint
    <2>3. Differ(s, t)'
      BY <1>1, <1>2, <1>4, <2>1 DEF PairOK, Differ, MayClash, HasEndPoint
    <2> QED
      BY <2>2, <2>3 DEF PairOK
  <1>8. /\ \A t \in Sockets : SocketOK(t)'
        /\ \A t, u \in Sockets : t # u => PairOK(t, u)'
    BY <1>2, <1>3, <1>5, <1>6, <1>7, OneSocket DEF Only
  <1>9. \A f \in forks' : ForkOK(f)'
    <2>1. socket[s].state # "LISTEN"
      BY <1>1
    <2> QED
      BY <1>2, <1>3, <2>1, ForksKept DEF Only
  <1> QED
    BY <1>5, <1>8, <1>9 DEF IInv

\* The listener's copy has no end point yet, and no other fork waits in it.
LEMMA ReceiveSynKeeps ==
    ASSUME IInv, NEW p \in Packets, ReceiveSyn(p)
    PROVE  IInv'
  <1>1. PICK s \in Lookup(p), t \in Sockets :
          /\ socket[t] = NewSocket /\ ~ HasEndPoint(t)
          /\ socket[s].state = "LISTEN"
          /\ socket' = [socket EXCEPT ![t] = socket[s]]
          /\ forks' = forks \cup {[socket |-> t, to |-> p.to, port |-> p.port, from |-> p.from,
                                   listener |-> s, orphan |-> FALSE]}
    BY DEF ReceiveSyn
  <1> DEFINE g == [socket |-> t, to |-> p.to, port |-> p.port, from |-> p.from,
                   listener |-> s, orphan |-> FALSE]
  <1>2. UNCHANGED <<protocol, endPoint, ephemeral, failed>> /\ protocol = "tcp" /\ Types
    BY DEF ReceiveSyn, IInv
  <1>3. s \in Sockets /\ HasEndPoint(s) /\ endPoint[s].port = p.port /\ s # t
    BY <1>1 DEF Lookup, Owners, Matches
  <1>4. /\ Only(t) /\ socket'[t] = socket[s] /\ socket'[s] = socket[s]
        /\ socket[s] \in SocketRecord /\ ~ HasEndPoint(t)'
    BY <1>1, <1>2, <1>3 DEF Types, Only, HasEndPoint
  <1>5. g \in ForkRecord
    <2>1. p.to \in {Host(d) : d \in Devices} /\ p.port \in Ports /\ p.from \in Remotes
      BY <1>2 DEF Packets, Destinations, Ports
    <2> QED
      BY <1>3, <2>1 DEF ForkRecord
  <1>6. Types'
    BY <1>1, <1>2, <1>4, <1>5 DEF Types
  <1>7. SocketOK(t)'
    BY <1>2, <1>4 DEF SocketOK
  <1>8. \A u \in Sockets \ {t} : PairOK(t, u)'
    BY <1>4 DEF PairOK, PortsDiffer, Differ, Ephemeral
  <1>9. /\ \A u \in Sockets : SocketOK(u)'
        /\ \A u, v \in Sockets : u # v => PairOK(u, v)'
    BY <1>2, <1>4, <1>6, <1>7, <1>8, OneSocket DEF Only
  <1>10. ASSUME NEW f \in forks PROVE f.socket # t /\ ForkOK(f)
    <2>1. ForkOK(f)
      BY DEF IInv
    <2>2. socket[t].state = "CLOSED"
      BY <1>1 DEF NewSocket
    <2> QED
      BY <2>1, <2>2 DEF ForkOK
  <1>11. ASSUME NEW f \in forks' PROVE ForkOK(f)'
    <2>1. CASE f = g
      <3>1. \A h \in forks' : h.socket = f.socket => h = f
        BY <1>1, <1>10, <2>1
      <3>2. f.socket = t /\ f.listener = s /\ f.port = p.port
        BY <2>1
      <3> QED
        BY <1>1, <1>2, <1>3, <1>4, <3>1, <3>2 DEF ForkOK, HasEndPoint
    <2>2. CASE f \in forks
      <3>1. /\ f.socket # t /\ ForkOK(f) /\ f.socket \in Sockets /\ f.listener \in Sockets
            /\ \A h \in forks' : h.socket = f.socket => h = f
        <4>1. f.socket # t /\ ForkOK(f) /\ f \in ForkRecord
          BY <1>2, <1>10, <2>2 DEF Types
        <4>2. \A h \in forks' : h.socket = f.socket => h = f
          BY <1>1, <4>1 DEF ForkOK
        <4> QED
          BY <4>1, <4>2 DEF ForkRecord
      <3>2. socket'[f.socket] = socket[f.socket]
        BY <1>4, <3>1 DEF Only
      <3>3. ~ f.orphan => socket'[f.listener] = socket[f.listener]
        BY <1>1, <1>4, <3>1 DEF Only, ForkOK
      <3> QED
        BY <1>2, <3>1, <3>2, <3>3 DEF ForkOK, HasEndPoint
    <2> QED
      BY <1>1, <2>1, <2>2
  <1> QED
    BY <1>6, <1>9, <1>11 DEF IInv

\* The fork gets an end point that nobody has, on the port of its listener if
\* that is still there.
LEMMA CompleteForkKeeps ==
    ASSUME IInv, NEW f \in forks, CompleteFork(f)
    PROVE  IInv'
  <1> DEFINE t == f.socket
             e == [addr |-> f.to, port |-> f.port, peer |-> f.from, device |-> None,
                   rxEnabled |-> TRUE]
  <1>1. Types /\ f \in ForkRecord /\ ForkOK(f) /\ protocol = "tcp"
    BY DEF IInv, Types, ForkOK
  <1>2. /\ forks' = forks \ {f}
        /\ socket' = [socket EXCEPT ![t] = [socket[t] EXCEPT !.state = "SYN_RCVD",
                                                             !.late = f.orphan]]
        /\ endPoint' = IF CanAllocateFork(socket[t].device, f)
                       THEN [endPoint EXCEPT ![t] = e] ELSE endPoint
        /\ UNCHANGED <<protocol, ephemeral, failed>>
    BY <1>1 DEF CompleteFork, Types, SocketRecord
  <1>3. /\ t \in Sockets /\ socket[t] \in SocketRecord /\ ~ HasEndPoint(t)
        /\ f.to \in {Host(d) : d \in Devices} /\ f.port \in Ports /\ f.from \in Remotes
        /\ f.orphan \in BOOLEAN /\ f.listener \in Sockets
    BY <1>1 DEF ForkRecord, ForkOK, Types
  <1>4. e \in EndPointRecord /\ e.addr \in Hosts
    <2>1. f.to \in Hosts
      BY <1>3 DEF Hosts
    <2> QED
      BY <1>3, <2>1 DEF EndPointRecord, Addresses
  <1>5. /\ e.addr = f.to /\ e.port = f.port /\ e.peer = f.from /\ e.device = None
    OBVIOUS
  <1> HIDE DEF e
  <1>6. /\ socket'[t] \in SocketRecord /\ socket'[t].state = "SYN_RCVD"
        /\ socket'[t].late = f.orphan /\ socket'[t].named = socket[t].named
    <2>1. socket'[t] = [socket[t] EXCEPT !.state = "SYN_RCVD", !.late = f.orphan]
      BY <1>1, <1>2, <1>3 DEF Types
    <2> QED
      BY <1>3, <2>1 DEF SocketRecord
  <1>7. /\ Only(t)
        /\ \/ ~ HasEndPoint(t)'
           \/ endPoint'[t] = e /\ CanAllocateFork(socket[t].device, f)
    BY <1>1, <1>2, <1>3 DEF Types, Only, HasEndPoint
  <1>8. Types'
    BY <1>1, <1>2, <1>4, <1>6 DEF Types
  <1>9. SocketOK(t)'
    BY <1>1, <1>2, <1>4, <1>5, <1>7 DEF SocketOK
  <1>10. ASSUME NEW u \in Sockets \ {t} PROVE PairOK(t, u)'
    <2>1. endPoint'[u] = endPoint[u] /\ socket'[u] = socket[u]
      BY <1>7 DEF Only
    <2>2. CASE ~ HasEndPoint(t)'
      BY <2>2 DEF PairOK, PortsDiffer, Differ, Ephemeral
    <2>3. CASE endPoint'[t] = e /\ CanAllocateFork(socket[t].device, f)
      <3>1. Differ(t, u)'
        BY <1>5, <2>1, <2>3 DEF Differ, CanAllocateFork, Owners, HasEndPoint
      <3>2. ASSUME Ephemeral(t)', Ephemeral(u)', endPoint'[t].port = endPoint'[u].port
            PROVE  socket'[u].state \in {"LISTEN", "SYN_RCVD"}
        <4> DEFINE l == f.listener
        <4>1. ~ f.orphan /\ ~ socket[t].named
          BY <1>6, <3>2 DEF Ephemeral
        <4>2. /\ HasEndPoint(l) /\ endPoint[l].port = f.port /\ socket[l].state = "LISTEN"
              /\ ~ socket[l].named
          BY <1>1, <4>1 DEF ForkOK
        <4>3. Ephemeral(l) /\ Ephemeral(u) /\ endPoint[u].port = endPoint[l].port
          BY <1>5, <2>1, <2>3, <3>2, <4>2 DEF Ephemeral, HasEndPoint
        <4>4. CASE u = l
          BY <2>1, <4>2, <4>4
        <4>5. CASE u # l
          <5>1. PortsDiffer(u, l)
            BY <1>3, <4>5 DEF IInv, PairOK
          <5> QED
            BY <2>1, <4>3, <5>1 DEF PortsDiffer
        <4> QED
          BY <4>4, <4>5
      <3> QED
        BY <1>6, <3>1, <3>2 DEF PairOK, PortsDiffer
    <2> QED
      BY <1>7, <2>2, <2>3
  <1>11. /\ \A u \in Sockets : SocketOK(u)'
         /\ \A u, v \in Sockets : u # v => PairOK(u, v)'
    BY <1>2, <1>3, <1>7, <1>8, <1>9, <1>10, OneSocket DEF Only
  <1>12. \A g \in forks' : ForkOK(g)'
    <2>1. \A g \in forks' : g.socket # t
      BY <1>1, <1>2 DEF ForkOK
    <2> QED
      BY <1>2, <1>3, <1>7, <2>1, ForksKept DEF Only
  <1> QED
    BY <1>8, <1>11, <1>12 DEF IInv

\* The forks of a listener that goes away are orphans.
LEMMA ReleaseKeeps ==
    ASSUME IInv, NEW s \in Sockets, Release(s)
    PROVE  IInv'
  <1> DEFINE Left(f) == [f EXCEPT !.orphan = @ \/ f.listener = s]
             new == [NewSocket EXCEPT !.device = socket[s].device]
  <1>1. Types /\ socket[s] \in SocketRecord
    BY DEF IInv, Types
  <1>2. /\ socket' = [socket EXCEPT ![s] = new]
        /\ endPoint' = [endPoint EXCEPT ![s] = NoEndPoint]
        /\ forks' = {Left(f) : f \in forks}
        /\ UNCHANGED <<protocol, ephemeral, failed>>
        /\ \A f \in forks : f.socket # s
        /\ protocol = "tcp"
    BY DEF Release, Usable
  <1>3. new \in SocketRecord
    BY <1>1 DEF NewSocket, SocketRecord
  <1> HIDE DEF new
  <1>4. Only(s) /\ ~ HasEndPoint(s)'
    BY <1>1, <1>2 DEF Types, Only, HasEndPoint
  <1>5. ASSUME NEW f \in forks
        PROVE  /\ Left(f) \in ForkRecord
               /\ Left(f).socket = f.socket /\ Left(f).listener = f.listener
               /\ Left(f).port = f.port
               /\ ~ Left(f).orphan => ~ f.orphan /\ f.listener # s
    <2>1. f \in ForkRecord
      BY <1>1 DEF Types
    <2> QED
      BY <2>1 DEF ForkRecord
  <1> HIDE DEF Left
  <1>6. Types'
    BY <1>1, <1>2, <1>3, <1>5 DEF Types
  <1>7. SocketOK(s)'
    BY <1>2, <1>4 DEF SocketOK
  <1>8. \A t \in Sockets \ {s} : PairOK(s, t)'
    BY <1>4 DEF PairOK, PortsDiffer, Differ, Ephemeral
  <1>9. /\ \A t \in Sockets : SocketOK(t)'
        /\ \A t, u \in Sockets : t # u => PairOK(t, u)'
    BY <1>2, <1>4, <1>6, <1>7, <1>8, OneSocket DEF Only
  <1>10. ASSUME NEW f \in forks PROVE ForkOK(Left(f))'
    <2>1. /\ ForkOK(f) /\ f.socket \in Sockets \ {s} /\ f.listener \in Sockets
      BY <1>1, <1>2 DEF IInv, Types, ForkRecord
    <2>2. socket'[f.socket] = socket[f.socket] /\ endPoint'[f.socket] = endPoint[f.socket]
      BY <1>4, <2>1 DEF Only
    <2>3. ASSUME NEW g \in forks', g.socket = f.socket PROVE g = Left(f)
      <3>1. PICK h \in forks : g = Left(h)
        BY <1>2
      <3>2. h.socket = f.socket
        BY <1>5, <2>3, <3>1
      <3> QED
        BY <2>1, <3>1, <3>2 DEF ForkOK
    <2>4. ~ Left(f).orphan => /\ socket'[f.listener] = socket[f.listener]
                              /\ endPoint'[f.listener] = endPoint[f.listener]
      BY <1>4, <1>5, <2>1 DEF Only
    <2>5. Left(f) \in forks' /\ Left(f).socket = f.socket
      BY <1>2, <1>5
    <2>6. /\ ~ HasEndPoint(f.socket)' /\ socket'[f.socket].state = "LISTEN"
          /\ \A g \in forks' : g.socket = Left(f).socket => g = Left(f)
      BY <2>1, <2>2, <2>3, <2>5 DEF ForkOK, HasEndPoint
    <2>7. ASSUME ~ Left(f).orphan
          PROVE  /\ HasEndPoint(f.listener)' /\ endPoint'[f.listener].port = f.port
                 /\ socket'[f.listener].state = "LISTEN"
                 /\ socket'[f.listener].named = socket'[f.socket].named
      BY <1>5, <2>1, <2>2, <2>4, <2>7 DEF ForkOK, HasEndPoint
    <2> QED
      BY <1>2, <1>5, <2>6, <2>7 DEF ForkOK
  <1>11. \A f \in forks' : ForkOK(f)'
    BY <1>2, <1>10
  <1> QED
    BY <1>6, <1>9, <1>11 DEF IInv

-----------------------------------------------------------------------------
(* The invariant *)

LEMMA InitHolds == Init => IInv
  <1> SUFFICES ASSUME Init PROVE IInv
    OBVIOUS
  <1>1. NewSocket \in SocketRecord
    BY DEF NewSocket, SocketRecord
  <1>2. FirstPort \in FirstPort..LastPort
    BY EndPointsAssumption
  <1>3. Types
    BY <1>1, <1>2 DEF Init, Types
  <1>4. \A s \in Sockets : ~ HasEndPoint(s) /\ socket[s].state = "CLOSED"
    BY DEF Init, HasEndPoint, NewSocket
  <1> QED
    BY <1>3, <1>4 DEF IInv, Init, SocketOK, PairOK, PortsDiffer, Differ, Ephemeral

LEMMA StepKeeps == IInv /\ [Next]_vars => IInv'
  <1> SUFFICES ASSUME IInv, [Next]_vars PROVE IInv'
    OBVIOUS
  <1>1. ASSUME NEW s \in Sockets, BindAny(s) PROVE IInv'
    BY <1>1, BindAnyKeeps
  <1>2. ASSUME NEW s \in Sockets, NEW a \in BindAddresses, NEW port \in BindPorts \cup {0},
               Bind(s, a, port)
        PROVE  IInv'
    BY <1>2, BindKeeps DEF Addresses
  <1>3. ASSUME NEW s \in Sockets, NEW d \in BindDevices, BindToNetDevice(s, d) PROVE IInv'
    BY <1>3, BindToNetDeviceKeeps, EndPointsAssumption
  <1>4. ASSUME NEW s \in Sockets, ShutdownSend(s) \/ ShutdownRecv(s) \/ CloseUdp(s) PROVE IInv'
    BY <1>4, ShutdownKeeps, CloseUdpKeeps
  <1>5. ASSUME NEW s \in Sockets, NEW r \in Remotes, Connect(s, r) PROVE IInv'
    BY <1>5, ConnectKeeps
  <1>6. ASSUME NEW s \in Sockets, Listen(s) \/ Release(s) PROVE IInv'
    BY <1>6, ListenKeeps, ReleaseKeeps
  <1>7. ASSUME NEW p \in Packets, ReceiveSyn(p) PROVE IInv'
    BY <1>7, ReceiveSynKeeps
  <1>8. CASE \/ \E p \in Packets : ReceiveAmbiguous(p)
             \/ UNCHANGED vars
    <2>1. /\ UNCHANGED <<protocol, socket, endPoint, ephemeral, forks>>
          /\ failed' \in {"no", "null end point", "too many end points"}
      BY <1>8 DEF ReceiveAmbiguous, vars, IInv, Types
    <2> QED
      BY <2>1, OnlyFailed
  <1>9. ASSUME NEW f \in forks, CompleteFork(f) PROVE IInv'
    BY <1>9, CompleteForkKeeps
  <1> QED
    BY <1>1, <1>2, <1>3, <1>4, <1>5, <1>6, <1>7, <1>8, <1>9 DEF Next

LEMMA Invariance == Spec => []IInv
  BY InitHolds, StepKeeps, PTL DEF Spec

-----------------------------------------------------------------------------
(* What follows *)

\* The ports given out are ports of the range or ports somebody named, and an
\* end point is bound to no other device than its socket: what Allocate,
\* BindToNetDevice and CompleteFork leave behind.
THEOREM TypeCorrect == Spec => []TypeOK
  <1>1. IInv => TypeOK
    <2> SUFFICES ASSUME IInv PROVE TypeOK
      OBVIOUS
    <2>1. ASSUME NEW s \in Sockets
          PROVE  /\ socket[s].state \in {"CLOSED", "LISTEN", "SYN_SENT", "SYN_RCVD"}
                 /\ socket[s].device \in Devices \cup {None}
                 /\ socket[s].shutdown \subseteq {"send", "recv"}
      BY DEF IInv, Types, SocketRecord
    <2>2. ASSUME NEW s \in Owners
          PROVE  /\ endPoint[s].port \in BindPorts \cup FirstPort..LastPort
                 /\ endPoint[s].peer \in Remotes \cup {None}
                 /\ endPoint[s].device \in {None, socket[s].device}
      <3>1. s \in Sockets /\ HasEndPoint(s) /\ Types /\ SocketOK(s)
        BY DEF Owners, IInv
      <3>2. endPoint[s] \in EndPointRecord
        BY <3>1, EndPointType
      <3> QED
        BY <3>1, <3>2 DEF EndPointRecord, Ports, SocketOK
    <2> QED
      BY <2>1, <2>2 DEF TypeOK, IInv, Types
  <1> QED
    BY <1>1, Invariance, PTL

\* A packet and the end points it matches.
LEMMA LevelType ==
    ASSUME NEW e, NEW p
    PROVE  /\ Level(e, p) \in 1..4
           /\ Level(e, p) = 4 <=> e.peer = p.from /\ e.addr = p.to
  BY DEF Level

\* Two end points that Lookup of ipv4-end-point-demux.cc finds for one packet
\* are on different devices or addresses, or of sockets that may clash.
THEOREM Ambiguity == Spec => []AmbiguityHasCause
  <1>1. IInv => AmbiguityHasCause
    <2> SUFFICES ASSUME IInv, NEW p \in Packets, NEW s \in Lookup(p), NEW t \in Lookup(p) \ {s},
                        endPoint[s].device = endPoint[t].device,
                        endPoint[s].addr = endPoint[t].addr
                 PROVE  MayClash(s, t)
      BY DEF AmbiguityHasCause
    <2>1. /\ s \in Sockets /\ t \in Sockets /\ HasEndPoint(s) /\ HasEndPoint(t) /\ s # t
          /\ Matches(endPoint[s], p) /\ Matches(endPoint[t], p)
          /\ Level(endPoint[s], p) <= Level(endPoint[t], p)
          /\ Level(endPoint[t], p) <= Level(endPoint[s], p)
      BY DEF Lookup, Owners
    <2>2. Level(endPoint[s], p) = Level(endPoint[t], p)
      BY <2>1, LevelType
    <2>3. endPoint[s].peer = p.from <=> endPoint[t].peer = p.from
      BY <2>2 DEF Level
    <2>4. endPoint[s].peer = endPoint[t].peer
      BY <2>1, <2>3 DEF Matches
    <2>5. endPoint[s].port = endPoint[t].port
      BY <2>1 DEF Matches
    <2>6. Differ(s, t)
      BY <2>1 DEF IInv, PairOK
    <2> QED
      BY <2>1, <2>4, <2>5, <2>6 DEF Differ
  <1> QED
    BY <1>1, Invariance, PTL

\* Lookup finds an end point if there is one that matches.
LEMMA LookupFinds ==
    ASSUME NEW p, NEW s \in Owners, Matches(endPoint[s], p)
    PROVE  Lookup(p) # {}
  <1> DEFINE found == {t \in Owners : Matches(endPoint[t], p)}
             Rank(t) == 4 - Level(endPoint[t], p)
             S == {Rank(t) : t \in found}
  <1>1. ASSUME NEW t \in found PROVE Rank(t) \in Nat
    BY LevelType
  <1>2. S \in SUBSET Nat /\ S # {}
    BY <1>1
  <1>3. \E m \in S : \A n \in S : m <= n
    <2> HIDE DEF S
    <2> QED
      BY <1>2, Least
  <1>4. PICK t \in found : \A u \in found : Rank(t) <= Rank(u)
    BY <1>3
  <1>5. \A u \in found : Level(endPoint[u], p) <= Level(endPoint[t], p)
    <2> TAKE u \in found
    <2>1. Rank(t) <= Rank(u)
      BY <1>4
    <2> QED
      BY <2>1, LevelType
  <1> QED
    BY <1>4, <1>5 DEF Lookup

\* The answer to what a socket sends from an address of the node finds the
\* socket: Connect and CompleteFork leave a connection with an address, and no
\* other end point matches as well unless the two may clash.
THEOREM AnswersArrive == Spec => []AnswersFindSender
  <1>1. IInv => AnswersFindSender
    <2> SUFFICES ASSUME IInv, NEW s \in Owners, NEW r \in Remotes, Converses(s, r)
                 PROVE  /\ Lookup(Answer(s, r)) # {}
                        /\ \A t \in Lookup(Answer(s, r)) \ {s} :
                              IF protocol = "udp" THEN socket[s].named \/ socket[t].named
                              ELSE endPoint[t].peer = r /\ MayClash(s, t)
      BY DEF AnswersFindSender
    <2> DEFINE p == Answer(s, r)
    <2>1. s \in Sockets /\ HasEndPoint(s) /\ SocketOK(s) /\ protocol \in {"udp", "tcp"}
      BY DEF Owners, IInv, Types
    <2>2. /\ p.port = endPoint[s].port /\ p.from = r
          /\ endPoint[s].addr # AnyAddress => p.to = endPoint[s].addr
      BY DEF Answer
    <2>3. endPoint[s].rxEnabled /\ endPoint[s].device \in {None, p.device}
      BY DEF Converses
    <2>4. protocol = "tcp" =>
            endPoint[s].peer = r /\ socket[s].state \in {"SYN_SENT", "SYN_RCVD"}
      BY DEF Converses
    <2> HIDE DEF p
    <2>5. Matches(endPoint[s], p)
      BY <2>1, <2>2, <2>3, <2>4 DEF Matches, SocketOK
    <2>6. ASSUME NEW t \in Lookup(p) \ {s}
          PROVE  IF protocol = "udp" THEN socket[s].named \/ socket[t].named
                 ELSE endPoint[t].peer = r /\ MayClash(s, t)
      <3>1. /\ t \in Sockets /\ HasEndPoint(t) /\ SocketOK(t) /\ PairOK(s, t)
            /\ Level(endPoint[s], p) <= Level(endPoint[t], p)
            /\ Matches(endPoint[t], p)
        BY <2>1, <2>5 DEF Lookup, Owners, IInv
      <3>2. endPoint[t].port = endPoint[s].port
        BY <2>2, <3>1 DEF Matches
      <3>3. CASE protocol = "udp"
        <4>1. socket[s].state = "CLOSED" /\ socket[t].state = "CLOSED"
          BY <2>1, <3>1, <3>3 DEF SocketOK
        <4>2. ~ (Ephemeral(s) /\ Ephemeral(t))
          BY <3>1, <3>2, <4>1 DEF PairOK, PortsDiffer
        <4> QED
          BY <2>1, <3>1, <3>3, <4>1, <4>2 DEF Ephemeral
      <3>4. CASE protocol = "tcp"
        <4>1. endPoint[s].addr # AnyAddress
          BY <2>1, <2>4, <3>4 DEF SocketOK, Hosts, Host, AnyAddress
        <4>2. Level(endPoint[s], p) = 4
          BY <2>2, <2>4, <3>4, <4>1, LevelType
        <4>3. Level(endPoint[t], p) = 4
          BY <3>1, <4>2, LevelType
        <4>4. endPoint[t].peer = r /\ endPoint[t].addr = endPoint[s].addr
          BY <2>2, <4>1, <4>3, LevelType
        <4>5. CASE endPoint[s].device = endPoint[t].device
          BY <2>1, <2>4, <3>1, <3>2, <3>4, <4>4, <4>5 DEF PairOK, Differ
        <4>6. CASE endPoint[s].device # endPoint[t].device
          <5>1. endPoint[s].device # None \/ endPoint[t].device # None
            BY <4>6
          <5>2. socket[s].late \/ socket[t].late
            BY <2>1, <3>1, <3>4, <5>1 DEF SocketOK
          <5> QED
            BY <3>4, <4>4, <5>2 DEF MayClash
        <4> QED
          BY <3>4, <4>4, <4>5, <4>6 DEF MayClash
      <3> QED
        BY <2>1, <3>3, <3>4
    <2> QED
      BY <2>5, <2>6, LookupFinds DEF p
  <1> QED
    BY <1>1, Invariance, PTL
=============================================================================
