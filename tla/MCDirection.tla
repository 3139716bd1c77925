---------------------------- MODULE MCDirection ----------------------------
(* The two ways of a conversation over the interface, one way of one over  *)
(* the loopback, a DHCP request and the agent's own export; one flow at a  *)
(* time of the latter.  The interface loses its address, gets another one, *)
(* and disappears, with a second interface beside it.                      *)
EXTENDS Direction

Key(src, dst, sport, dport) == [src |-> src, dst |-> dst, src_port |-> sport, dst_port |-> dport]

MCNoPort == -1

MCFlow == {
  Key("me", "peer", 5, 4), Key("peer", "me", 4, 5),
  Key("lo", "lo", 5, 4), Key("zero", "me", 3, 2), Key("me", "sink", 6, 7) }
MCSelfExport == {Key("me", "sink", 6, 7)}

NoDevice == [d \in {"eth1"} |-> {"other"}]
Eth0(a) == [d \in {"eth0", "eth1"} |-> IF d = "eth0" THEN a ELSE {"other"}]
MCDeviceLists == {NoDevice, Eth0({}), Eth0({"me"}), Eth0({"new"}), [d \in {} |-> {}]}
=============================================================================
