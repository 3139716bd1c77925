---------------------------- MODULE MCFlowTable ----------------------------
(* Four packets of one flow, with timestamps that share a millisecond or   *)
(* are far apart and with every mixture of known and unknown addresses; one *)
(* of a second flow; one that mixes the families.                          *)
EXTENDS FlowTable

V4(a) == [family |-> "v4", ip |-> a]
V6(a) == [family |-> "v6", ip |-> a]

Pkt(dst, length, sec, usec, src_mac, dst_mac, vlan_id) ==
  [src |-> V4("a"), dst |-> dst, ports |-> <<1, 2>>, protocol |-> "tcp", length |-> length,
   sec |-> sec, usec |-> usec, src_mac |-> src_mac, dst_mac |-> dst_mac, vlan_id |-> vlan_id]

MCParsed == {
  Pkt(V4("b"), 1, 1, 1, None, 7, None), Pkt(V4("b"), 3, 0, 3, 5, None, 42),
  Pkt(V4("b"), 2, 0, 2, 6, 8, None),    Pkt(V4("b"), 1, 1, 3, None, None, 0),
  Pkt(V4("c"), 1, 0, 0, None, None, None), Pkt(V6("d"), 1, 0, 0, None, None, None) }
=============================================================================
