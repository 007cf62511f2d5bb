---------------------------- MODULE MCEndPoints ----------------------------
(***************************************************************************)
(* Instance of EndPoints for TLC: three sockets on a node with two devices, *)
(* a remote that d1 leads to, and two ephemeral ports, one of which an      *)
(* application names as well.                                              *)
(***************************************************************************)
EXTENDS EndPoints, TLC

CONSTANTS s1, s2, s3, d1, d2, r1

MCSockets == {s1, s2, s3}
MCDevices == {d1, d2}
MCRemotes == {r1}
MCBindAddresses == {AnyAddress, Host(d1), Net(d1)}
MCBindDevices == {d2}
MCRoutes == [r \in Remotes |-> <<d1>>]
Symmetric == Permutations(MCSockets)
=============================================================================
