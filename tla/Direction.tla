----------------------------- MODULE Direction -----------------------------
(***************************************************************************)
(* Flow directions: get_direction and interface_addresses (direction.rs),  *)
(* and when main.rs uses them.  A flow waits in the table and in the       *)
(* channel before its direction is worked out, and meanwhile the           *)
(* addresses of the interface may change, the interface may disappear, or  *)
(* libpcap may fail to list the devices.                                   *)
(***************************************************************************)
EXTENDS Integers, Sequences, FiniteSets

CONSTANTS
  Flow,           \* the flow keys: src, dst, src_port, dst_port
  NoPort,
  Loopback, Unspecified,   \* 127/8 and ::1; 0.0.0.0 and ::
  DeviceLists,    \* what Device::list may return: functions from names to address sets
  Interface,      \* the name given with --interface
  LinkTypes,      \* the link types the capture may have, "sll" for LinuxSll and LinuxSll2
  SelfExport,     \* the flows is_self_export holds of
  MaxQueued,      \* bound: maps waiting in the channel
  MaxFlows,       \* bound: flows recorded and not yet flushed
  MaxChanges      \* bound: how often the device list changes

ASSUME DirectionAssumption ==
  /\ \A k \in Flow : {"src", "dst", "src_port", "dst_port"} \subseteq DOMAIN k
  /\ \A k \in Flow : {k.src_port, k.dst_port} \subseteq Nat \cup {NoPort}
  /\ NoPort \notin Nat /\ MaxQueued \in Nat \ {0} /\ MaxChanges \in Nat /\ MaxFlows \in Nat
  /\ Loopback \cap Unspecified = {}

VARIABLES
  link_type,
  devices,    \* the device lists there have been; the last one is what is listed now
  table,      \* the flows in the table, each with (history) the device list of its first packet
  chan,       \* the maps in the channel
  batch,      \* the flows in hand that have no direction yet
  addrs,      \* the snapshot taken for this map
  flows       \* what run_flush will get: key, direction, and (history) the device lists
              \* of its first packet and of now

vars == <<link_type, devices, table, chan, batch, addrs, flows>>

-----------------------------------------------------------------------------
(* direction.rs.                                                           *)

None == "none"

ByPort(k) ==
  /\ k.src \in Loopback /\ k.dst \in Loopback
  /\ k.src_port # NoPort /\ k.dst_port # NoPort

(* The mutant takes an unknown interface for one without local addresses.  *)
Guessed(k, my) ==
  IF k.src \in my THEN "out"
  ELSE IF k.src \notin Unspecified THEN "in"
  ELSE IF k.dst \notin my THEN "out" ELSE "in"
GetDirection_Guesses(k, my) ==
  IF ByPort(k) THEN IF k.src_port > k.dst_port THEN "out" ELSE "in"
  ELSE Guessed(k, my)
GetDirection(k, my) ==
  IF ByPort(k) THEN IF k.src_port > k.dst_port THEN "out" ELSE "in"
  ELSE IF my = {} THEN None
  ELSE Guessed(k, my)

(* interface_addresses after Device::list has returned list: those of all  *)
(* devices on the "any" device, else of the one with the name, if any.     *)
InterfaceAddresses(list, type) ==
  UNION {list[d] : d \in {x \in DOMAIN list : type = "sll" \/ x = Interface}}

-----------------------------------------------------------------------------

Current == devices[Len(devices)]
NoFlows == [k \in {} |-> 0]

Init ==
  /\ link_type \in LinkTypes /\ devices \in {<<d>> : d \in DeviceLists}
  /\ table = NoFlows /\ chan = <<>> /\ batch = NoFlows
  /\ addrs = {} /\ flows = {}

Queued[i \in 0 .. MaxQueued] ==
  IF i = 0 THEN 0 ELSE Queued[i-1] + Cardinality(DOMAIN chan[i])
Underway ==
  Cardinality(DOMAIN table) + Queued[Len(chan)] + Cardinality(DOMAIN batch) + Cardinality(flows)

(* A packet of flow k arrives; the first of a window creates the entry.    *)
Record(k) ==
  /\ k \notin DOMAIN table /\ Underway < MaxFlows
  /\ table' = [j \in DOMAIN table \cup {k} |-> IF j = k THEN Len(devices) ELSE table[j]]
  /\ UNCHANGED <<link_type, devices, chan, batch, addrs, flows>>

Drain ==
  /\ Len(chan) < MaxQueued
  /\ chan' = Append(chan, table) /\ table' = NoFlows
  /\ UNCHANGED <<link_type, devices, batch, addrs, flows>>

(* The snapshot of a map.  The mutant keeps the first one it gets.         *)
Snapshot_Cached(list) == IF addrs # {} THEN addrs ELSE InterfaceAddresses(list, link_type)
Snapshot(list) == InterfaceAddresses(list, link_type)

(* for flow_map in rx: one snapshot of the addresses for the whole map,    *)
(* none of them if the devices cannot be listed.                           *)
Recv ==
  /\ DOMAIN batch = {} /\ chan # <<>>
  /\ batch' = Head(chan) /\ chan' = Tail(chan)
  /\ addrs' \in {Snapshot(Current), {}}
  /\ flows' = {}
  /\ UNCHANGED <<link_type, devices, table>>

(* What a flow of the map is compared with.  The mutant looks up the       *)
(* addresses anew for every flow.                                          *)
MyAddresses_PerFlow == InterfaceAddresses(Current, link_type)
MyAddresses == addrs

(* The filter in front of with_direction; the mutant has none.             *)
Withheld_Never(k) == FALSE
Withheld(k) == k \in SelfExport

(* The iterator goes through the map in any order: filter, with_direction. *)
Label(k) ==
  /\ k \in DOMAIN batch
  /\ batch' = [j \in DOMAIN batch \ {k} |-> batch[j]]
  /\ flows' = IF Withheld(k) THEN flows
              ELSE flows \cup {[key |-> k, direction |-> GetDirection(k, MyAddresses),
                                from |-> batch[k], to |-> Len(devices)]}
  /\ UNCHANGED <<link_type, devices, table, chan, addrs>>

(* The administrator, DHCP, a cable: the device list changes.              *)
Reconfigure(list) ==
  /\ Len(devices) <= MaxChanges
  /\ devices' = Append(devices, list)
  /\ UNCHANGED <<link_type, table, chan, batch, addrs, flows>>

Next ==
  \/ \E k \in Flow : Record(k) \/ Label(k)
  \/ Drain \/ Recv
  \/ \E list \in DeviceLists : Reconfigure(list)

Spec == Init /\ [][Next]_vars

-----------------------------------------------------------------------------

IsWaiting(m) == DOMAIN m \subseteq Flow /\ \A k \in DOMAIN m : m[k] \in 1 .. Len(devices)

(* The addresses a label may have been given from.                         *)
Since(l) == {InterfaceAddresses(devices[i], link_type) : i \in l.from .. l.to}

(* Types; a flow has been labelled at most once per map.                   *)
TypeOK ==
  /\ link_type \in LinkTypes /\ devices \in Seq(DeviceLists) /\ devices # <<>>
  /\ IsWaiting(table) /\ IsWaiting(batch)
  /\ \A i \in 1 .. Len(chan) : IsWaiting(chan[i])
  /\ addrs \subseteq UNION {UNION {d[x] : x \in DOMAIN d} : d \in DeviceLists}
  /\ \A l \in flows : /\ l.key \in Flow \ (SelfExport \cup DOMAIN batch)
                      /\ l.direction \in {"in", "out", None}
                      /\ l.to \in 1 .. Len(devices) /\ l.from \in 1 .. l.to
                      /\ \A m \in flows : m.key = l.key => m = l

(* A direction is no older than its flow: it follows from the addresses    *)
(* the interface had at some moment since the first packet of the window,  *)
(* or is what is said when they cannot be told (main.rs:55, flow.rs:74).   *)
LabelNotStale ==
  \A l \in flows :
    l.direction \in {GetDirection(l.key, my) : my \in Since(l) \cup {{}}}

(* "None, not a guess" (direction.rs:159): a direction rests on evidence.  *)
(* Between two ports of the loopback it is the ports, whatever is known of *)
(* the interface; any other flow has no direction if the interface had no  *)
(* address while it waited (direction.rs:19-32).                           *)
NeverAGuess ==
  \A l \in flows :
    IF ByPort(l.key) THEN l.direction = "out" <=> l.key.src_port > l.key.dst_port
    ELSE Since(l) = {{}} => l.direction = None

Reverse(k) == [k EXCEPT !.src = k.dst, !.dst = k.src, !.src_port = k.dst_port, !.dst_port = k.src_port]
NeverBothLocal(k) ==
  \A d \in DeviceLists : ~ {k.src, k.dst} \subseteq InterfaceAddresses(d, link_type)

(* The two ways of a conversation, exported together, are judged by one    *)
(* view of the addresses: both have a direction or neither has, and they   *)
(* are not both outgoing, although the addresses change between the one    *)
(* and the other (main.rs:55-60).                                          *)
OneViewPerMap ==
  \A l, m \in flows :
    m.key = Reverse(l.key) =>
      /\ l.direction = None <=> m.direction = None
      /\ NeverBothLocal(l.key) /\ {l.key.src, l.key.dst} \cap Unspecified = {}
           => ~ (l.direction = "out" /\ m.direction = "out")
=============================================================================
