------------------------------ MODULE MCAgent ------------------------------
(* Three packets of other programs: two of one flow that shares the        *)
(* collector's address but not its port (so only the whole comparison of   *)
(* is_self_export tells it apart) and one of another host's exporter; or   *)
(* one to a server, one of the other exporter, one that does not decode.   *)
EXTENDS AgentLedger, TLC

CONSTANTS p1, p2, p3, collector, mapped, server

MCPacket == {p1, p2, p3}

Udp(src, dst, port) == [protocol |-> "udp", src |-> src, dst |-> dst, dst_port |-> port]

(* The agent's datagrams, as captured: the kernel has put the collector's  *)
(* address into an IPv4 header.                                            *)
MCWireKey    == Udp("agent", collector, 4739)
OtherAgent   == Udp("other", collector, 4739)
CollectorDns == Udp("agent", collector, 53)
ServerFlow   == Udp("agent", server, 4739)

TwoFlows == (p1 :> CollectorDns) @@ (p2 :> CollectorDns) @@ (p3 :> OtherAgent)
Foreign  == (p1 :> ServerFlow) @@ (p2 :> OtherAgent) @@ (p3 :> NotDecoded)
=============================================================================
