------------------------------- MODULE MCWire -------------------------------
(* Every field of every flow has a value of its own, but for the optional  *)
(* ones, which are missing now and then in different combinations.         *)
EXTENDS Wire

MCFlowAt(f, i) ==
  LET base == (IF f = "v4" THEN 0 ELSE 10000) + 100 * i
      option(k, v) == IF (i + k) % 3 = 0 THEN Unset ELSE v
  IN  [src |-> base, dst |-> base + 1,
       src_port |-> option(0, base + 2), dst_port |-> option(0, base + 3),
       protocol |-> option(1, 6 + 11 * (i % 2)),
       src_mac |-> option(1, base + 5), dst_mac |-> option(2, base + 6),
       vlan_id |-> option(2, base + 7), ether_type |-> base + 8,
       direction |-> option(0, IF i % 2 = 0 THEN "in" ELSE "out"),
       bytes |-> base + 10, packets |-> base + 11,
       first_seen_ms |-> base + 12, last_seen_ms |-> base + 13]

MCFlowCounts == {0, 1, 3, 13, 18}
MCSeqStarts == {0}
=============================================================================
