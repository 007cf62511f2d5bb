----------------------------- MODULE EndPoints -----------------------------
(***************************************************************************)
(* The sockets of one node and the end points they share: the             *)
(* demultiplexer of ipv4-end-point-demux.cc with the calls of UdpSocketImpl *)
(* and of TcpSocketBase that allocate, change, look up and release its end *)
(* points.  UDP and TCP have a demultiplexer each; a behaviour shows one.  *)
(*                                                                         *)
(* A remote address with its port is one value: SetPeer always sets both.  *)
(* What an end point receives is a matter of other modules; here counts    *)
(* whose it is.                                                            *)
(***************************************************************************)
EXTENDS Integers, FiniteSets, FiniteSetsExt

CONSTANTS
    Sockets,        \* sockets of the node, those that are forked included
    Devices,        \* devices of the node; each has one address
    Remotes,        \* remote addresses with a port
    None,           \* no device, no peer
    FirstPort,      \* m_portFirst
    LastPort,       \* m_portLast
    BindPorts,      \* ports that applications name
    BindAddresses,  \* local addresses that applications name
    BindDevices,    \* devices that applications bind sockets to
    Routes          \* the devices that lead to a remote, best first

Host(d) == [kind |-> "host", device |-> d]
Net(d) == [kind |-> "net", device |-> d]                \* x.y.z.0
Broadcast(d) == [kind |-> "broadcast", device |-> d]    \* x.y.z.255
AnyAddress == [kind |-> "any", device |-> None]

ASSUME EndPointsAssumption ==
    /\ IsFiniteSet(Sockets) /\ None \notin Devices \cup Remotes
    /\ FirstPort \in Nat \ {0} /\ LastPort \in Nat /\ FirstPort <= LastPort
    /\ BindPorts \subseteq Nat \ {0}
    /\ BindAddresses \subseteq {AnyAddress} \cup {Host(d) : d \in Devices} \cup {Net(d) : d \in Devices}
    /\ BindDevices \subseteq Devices \cup {None}

VARIABLES
    protocol,   \* whose demultiplexer this is
    socket,     \* what a socket knows of itself
    endPoint,   \* m_endPoints by owner
    ephemeral,  \* m_ephemeral
    forks,      \* CompleteFork events
    failed      \* what ended the program

vars == <<protocol, socket, endPoint, ephemeral, forks, failed>>

NoEndPoint == [port |-> 0]

\* state tells nothing apart after the first state of a connection.  named and
\* late are history of the end point: the application chose its port; the
\* socket was bound to a device after it was bound to a port, or forked after
\* its listener had gone.
NewSocket == [state |-> "CLOSED", device |-> None, shutdown |-> {}, closed |-> FALSE,
              named |-> FALSE, late |-> FALSE]

Init ==
    /\ protocol \in {"udp", "tcp"}
    /\ socket = [s \in Sockets |-> NewSocket]
    /\ endPoint = [s \in Sockets |-> NoEndPoint]
    /\ ephemeral = FirstPort
    /\ forks = {}
    /\ failed = "no"

HasEndPoint(s) == endPoint[s] # NoEndPoint
Owners == {s \in Sockets : HasEndPoint(s)}

-----------------------------------------------------------------------------
(* The demultiplexer *)

\* A packet names the addresses and ports it carries and the device it came in
\* by.  An end point bound to x.y.z.0 takes what the device's subnet is sent.
IsSubnetAny(e, p) == e.addr = Net(p.device) /\ p.to.device = p.device

Matches(e, p) ==
    /\ e.rxEnabled
    /\ e.port = p.port
    /\ e.device \in {None, p.device}
    /\ e.addr \in {p.to, AnyAddress} \/ IsSubnetAny(e, p)
    /\ e.peer \in {None, p.from}

\* Mutant: a connection is not preferred to its listener.
LevelByAddress(e, p) == IF e.addr = p.to THEN 2 ELSE 1

\* 4: all match; 3: all but the local address; 2: local address and port; 1:
\* only the local port.
Level(e, p) ==
    (IF e.peer = p.from THEN 3 ELSE 1) + (IF e.addr = p.to THEN 1 ELSE 0)

Lookup(p) ==
    LET found == {s \in Owners : Matches(endPoint[s], p)}
    IN  {s \in found : \A t \in found : Level(endPoint[t], p) <= Level(endPoint[s], p)}

\* Mutant: the port wraps around one too late.
AllocateEphemeralPortWrapsLate ==
    LET range == LastPort - FirstPort + 2
        After(k) == FirstPort + ((ephemeral - FirstPort + k) % range)
        free == {k \in 1..range : \A s \in Sockets : endPoint[s].port # After(k)}
    IN  IF free = {} THEN 0 ELSE After(Min(free))

\* Mutant: LookupPortLocal looks only at end points without a peer.
AllocateEphemeralPortOfUnconnected ==
    LET range == LastPort - FirstPort + 1
        After(k) == FirstPort + ((ephemeral - FirstPort + k) % range)
        free == {k \in 1..range :
                    \A s \in Owners : endPoint[s].peer = None => endPoint[s].port # After(k)}
    IN  IF free = {} THEN 0 ELSE After(Min(free))

\* The first port after the last one given that nobody has, or 0.
AllocateEphemeralPort ==
    LET range == LastPort - FirstPort + 1
        After(k) == FirstPort + ((ephemeral - FirstPort + k) % range)
        free == {k \in 1..range : \A s \in Sockets : endPoint[s].port # After(k)}
    IN  IF free = {} THEN 0 ELSE After(Min(free))

LookupLocal(device, addr, port) ==
    \E s \in Owners : /\ endPoint[s].port = port
                      /\ endPoint[s].addr = addr
                      /\ endPoint[s].device = device

\* Mutant: only end points without a device are looked at.
CanAllocateOnDevice(device, addr, port) == ~ LookupLocal(None, addr, port)

\* Allocate with a port: refused if the same is taken on the device or on all.
CanAllocate(device, addr, port) ==
    ~ LookupLocal(device, addr, port) /\ ~ LookupLocal(None, addr, port)

\* Mutant: connections are not compared.
CanAllocateForkAlways(device, f) == f \in forks

\* Allocate with a peer, for the connection f.
CanAllocateFork(device, f) ==
    ~ \E s \in Owners : /\ endPoint[s].port = f.port /\ endPoint[s].addr = f.to
                        /\ endPoint[s].peer = f.from
                        /\ endPoint[s].device \in {device, None}

-----------------------------------------------------------------------------
(* Binding *)

\* The end point Bind gives the socket, or none.  Only UdpSocketImpl hands it
\* the device its socket was bound to before.
Allocate(s, addr, port) ==
    LET device == socket[s].device
        given == IF port = 0 THEN AllocateEphemeralPort
                 ELSE IF CanAllocate(device, addr, port) THEN port ELSE 0
    IN  IF given = 0 THEN NoEndPoint
        ELSE [addr |-> addr, port |-> given, peer |-> None, rxEnabled |-> TRUE,
              device |-> IF protocol = "udp" THEN device ELSE None]

\* An end point is allocated for s and becomes e.
Takes(s, e, port, state) ==
    /\ endPoint' = [endPoint EXCEPT ![s] = e]
    /\ ephemeral' = IF port = 0 THEN e.port ELSE ephemeral
    /\ socket' = [socket EXCEPT ![s].named = (port # 0), ![s].state = state]

\* The program runs, and the socket is in the hands of an application.
Usable(s) ==
    /\ failed = "no"
    /\ ~ socket[s].closed
    /\ socket[s].state = "SYN_RCVD" => HasEndPoint(s)
    /\ \A f \in forks : f.socket # s

Bind(s, addr, port) ==
    /\ Usable(s) /\ ~ HasEndPoint(s) /\ socket[s].state \in {"CLOSED", "LISTEN"}
    /\ LET e == Allocate(s, addr, port)
       IN  e # NoEndPoint /\ Takes(s, e, port, socket[s].state)
    /\ UNCHANGED <<protocol, forks, failed>>

\* Bind () without an address, also called by DoSendTo and, shut down or not,
\* by DoSend.  UdpSocketImpl does not look whether it got an end point before
\* it binds it to its device.
BindAny(s) ==
    \/ Bind(s, AnyAddress, 0)
    \/ /\ Usable(s) /\ ~ HasEndPoint(s) /\ protocol = "udp"
       /\ Allocate(s, AnyAddress, 0) = NoEndPoint
       /\ failed' = IF socket[s].device # None THEN "null end point" ELSE failed
       /\ UNCHANGED <<protocol, socket, endPoint, ephemeral, forks>>

BindToNetDevice(s, d) ==
    /\ Usable(s) /\ socket[s].device # d
    /\ socket' = [socket EXCEPT ![s].device = d,
                                ![s].late = @ \/ HasEndPoint(s)]
    /\ endPoint' = IF HasEndPoint(s) THEN [endPoint EXCEPT ![s].device = d] ELSE endPoint
    /\ UNCHANGED <<protocol, ephemeral, forks, failed>>

-----------------------------------------------------------------------------
(* UdpSocketImpl *)

\* Bound: a socket is shut down for receiving when it has an end point, and for
\* sending only after that; otherwise the end points show nothing of it until it
\* is closed.
ShutdownSend(s) ==
    /\ protocol = "udp" /\ Usable(s) /\ socket[s].shutdown = {"recv"}
    /\ socket' = [socket EXCEPT ![s].shutdown = {"recv", "send"}]
    /\ UNCHANGED <<protocol, endPoint, ephemeral, forks, failed>>

ShutdownRecv(s) ==
    /\ protocol = "udp" /\ Usable(s) /\ HasEndPoint(s)
    /\ socket' = [socket EXCEPT ![s].shutdown = @ \cup {"recv"}]
    /\ endPoint' = [endPoint EXCEPT ![s].rxEnabled = FALSE]
    /\ UNCHANGED <<protocol, ephemeral, forks, failed>>

\* The application has closed it; its other members are not read any more.
Closed == [NewSocket EXCEPT !.closed = TRUE, !.shutdown = {"send", "recv"}]

\* A socket that was shut down both ways is told that it is no socket, and
\* keeps its end point.
CloseUdp(s) ==
    /\ protocol = "udp" /\ Usable(s) /\ socket[s].shutdown # {"send", "recv"}
    /\ socket' = [socket EXCEPT ![s] = Closed]
    /\ endPoint' = [endPoint EXCEPT ![s] = NoEndPoint]
    /\ UNCHANGED <<protocol, ephemeral, forks, failed>>

-----------------------------------------------------------------------------
(* TcpSocketBase *)

\* The device a packet to r leaves by: oif if there is one, else the best.
RouteOutput(r, oif) ==
    IF oif = None THEN Routes[r][1]
    ELSE IF \E i \in DOMAIN Routes[r] : Routes[r][i] = oif THEN oif ELSE None

\* SetupEndpoint replaces the local address; without a route Connect fails
\* with the peer already set.  Nobody connects a socket that listens.
Connect(s, r) ==
    /\ protocol = "tcp" /\ Usable(s) /\ socket[s].state = "CLOSED"
    /\ LET bound == HasEndPoint(s)
           e == IF bound THEN endPoint[s] ELSE Allocate(s, AnyAddress, 0)
           out == RouteOutput(r, socket[s].device)
       IN  /\ e # NoEndPoint
           /\ endPoint' = [endPoint EXCEPT ![s] =
                 [e EXCEPT !.peer = r, !.addr = IF out = None THEN @ ELSE Host(out)]]
           /\ ephemeral' = IF bound THEN ephemeral ELSE e.port
           /\ socket' = [socket EXCEPT ![s].named = bound /\ @,
                                       ![s].state = IF out = None THEN @ ELSE "SYN_SENT"]
    /\ UNCHANGED <<protocol, forks, failed>>

Listen(s) ==
    /\ protocol = "tcp" /\ Usable(s) /\ socket[s].state = "CLOSED"
    /\ socket' = [socket EXCEPT ![s].state = "LISTEN"]
    /\ UNCHANGED <<protocol, endPoint, ephemeral, forks, failed>>

\* ProcessListen of a SYN: the listening socket is copied at once, the copy
\* gets its end point by an event.
ReceiveSyn(p) ==
    /\ protocol = "tcp" /\ failed = "no"
    /\ \E s \in Lookup(p), t \in Sockets :
        /\ socket[t] = NewSocket /\ ~ HasEndPoint(t)
        /\ socket[s].state = "LISTEN" /\ Lookup(p) = {s}
        /\ socket' = [socket EXCEPT ![t] = socket[s]]
        /\ forks' = forks \cup {[socket |-> t, to |-> p.to, port |-> p.port, from |-> p.from,
                                   listener |-> s, orphan |-> FALSE]}
    /\ UNCHANGED <<protocol, endPoint, ephemeral, failed>>

\* A connection that exists already leaves the copy without an end point.
CompleteFork(f) ==
    LET t == f.socket
        e == [addr |-> f.to, port |-> f.port, peer |-> f.from, device |-> None,
              rxEnabled |-> TRUE]
    IN  /\ failed = "no"
        /\ forks' = forks \ {f}
        /\ socket' = [socket EXCEPT ![t].state = "SYN_RCVD", ![t].late = f.orphan]
        /\ endPoint' = IF CanAllocateFork(socket[t].device, f)
                       THEN [endPoint EXCEPT ![t] = e] ELSE endPoint
        /\ UNCHANGED <<protocol, ephemeral, failed>>

\* CloseAndNotify: a listener closes or a connection ends.  Close in state
\* CLOSED does nothing.
Release(s) ==
    /\ protocol = "tcp" /\ Usable(s) /\ socket[s].state # "CLOSED"
    /\ socket' = [socket EXCEPT ![s] = [NewSocket EXCEPT !.device = socket[s].device]]
    /\ endPoint' = [endPoint EXCEPT ![s] = NoEndPoint]
    /\ forks' = {[f EXCEPT !.orphan = @ \/ f.listener = s] : f \in forks}
    /\ UNCHANGED <<protocol, ephemeral, failed>>

-----------------------------------------------------------------------------

Destinations ==
    {Host(d) : d \in Devices}
    \cup IF protocol = "udp" THEN {Broadcast(d) : d \in Devices} ELSE {}

\* Whatever may come in.
Packets ==
    [to : Destinations, port : BindPorts \cup FirstPort..LastPort,
     from : Remotes, device : Devices]

\* NS_ABORT_MSG_IF: Lookup does not know whose packet this is.
ReceiveAmbiguous(p) ==
    /\ failed = "no"
    /\ Cardinality(Lookup(p)) > 1
    /\ failed' = "too many end points"
    /\ UNCHANGED <<protocol, socket, endPoint, ephemeral, forks>>

Next ==
    \/ \E s \in Sockets :
        \/ BindAny(s)
        \/ \E a \in BindAddresses, port \in BindPorts \cup {0} : Bind(s, a, port)
        \/ \E d \in BindDevices : BindToNetDevice(s, d)
        \/ ShutdownSend(s) \/ ShutdownRecv(s) \/ CloseUdp(s)
        \/ \E r \in Remotes : Connect(s, r)
        \/ Listen(s) \/ Release(s)
    \/ \E p \in Packets : ReceiveSyn(p)
    \/ \E p \in Packets : ReceiveAmbiguous(p)
    \/ \E f \in forks : CompleteFork(f)

Spec == Init /\ [][Next]_vars

-----------------------------------------------------------------------------
(* Properties *)

\* Types; the ports given out lie in the range, and an end point is bound to no
\* other device than its socket.
TypeOK ==
    /\ protocol \in {"udp", "tcp"}
    /\ \A s \in Sockets :
        /\ socket[s].state \in {"CLOSED", "LISTEN", "SYN_SENT", "SYN_RCVD"}
        /\ socket[s].device \in Devices \cup {None}
        /\ socket[s].shutdown \subseteq {"send", "recv"}
    /\ \A s \in Owners :
        /\ endPoint[s].port \in BindPorts \cup FirstPort..LastPort
        /\ endPoint[s].peer \in Remotes \cup {None}
        /\ endPoint[s].device \in {None, socket[s].device}
    /\ ephemeral \in FirstPort..LastPort
    /\ failed \in {"no", "null end point", "too many end points"}

\* Two sockets may clash when one was late, or when Connect set a
\* peer on a port somebody named: BindToNetDevice, SetPeer and SetLocalAddress
\* look for no duplicates.
MayClash(s, t) ==
    \/ socket[s].late \/ socket[t].late
    \/ /\ \E x \in {s, t} : endPoint[x].peer # None /\ socket[x].state # "SYN_RCVD"
       /\ socket[s].named \/ socket[t].named

\* Lookup is ambiguous, which ends the program, only where one of two sockets
\* is bound to a device and the other is not (Allocate compares neither way),
\* where one is bound to no address and the other to the network's, or where
\* they may clash: the checks that Allocate makes in its five forms exclude
\* everything else, forks of one SYN that came twice included.
AmbiguityHasCause ==
    \A p \in Packets :
        LET found == Lookup(p)
        IN  \A s \in found : \A t \in found \ {s} :
                \/ endPoint[s].device # endPoint[t].device
                \/ endPoint[s].addr # endPoint[t].addr
                \/ MayClash(s, t)

\* What a remote answers to a packet of s arrives by the device that has the
\* packet's source address.
Answer(s, r) ==
    LET e == endPoint[s]
        to == IF e.addr = AnyAddress THEN Host(RouteOutput(r, socket[s].device)) ELSE e.addr
    IN  [to |-> to, port |-> e.port, from |-> r, device |-> to.device]

\* The socket sends to r from an address of the node, may receive, and is not
\* bound to another device than the one of its address.
Converses(s, r) ==
    /\ endPoint[s].rxEnabled
    /\ endPoint[s].addr.kind \in {"any", "host"}
    /\ endPoint[s].addr = AnyAddress => RouteOutput(r, socket[s].device) # None
    /\ endPoint[s].device \in {None, Answer(s, r).device}
    /\ IF protocol = "udp" THEN ~ socket[s].closed
       ELSE socket[s].state \in {"SYN_SENT", "SYN_RCVD"} /\ endPoint[s].peer = r

\* The answer to what a socket sends finds the socket again, whatever others
\* bind, connect, fork and release in between.  A UDP socket loses it only if
\* an application named the port; a connection only to another connection with
\* the same remote that may clash with it, and never to a listener.
AnswersFindSender ==
    \A s \in Owners, r \in Remotes :
        Converses(s, r) =>
            LET found == Lookup(Answer(s, r))
            IN  /\ found # {}
                /\ \A t \in found \ {s} :
                    IF protocol = "udp" THEN socket[s].named \/ socket[t].named
                    ELSE endPoint[t].peer = r /\ MayClash(s, t)
=============================================================================
