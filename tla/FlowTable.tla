----------------------------- MODULE FlowTable -----------------------------
(***************************************************************************)
(* The numbers behind a flow: decode_packet and the timestamp of run       *)
(* (capture.rs), FlowTable::record and drain (flow.rs).  Packets come with *)
(* kernel timestamps in any order.  The history variables keep what a      *)
(* window was made of, so that the properties can compare an entry with    *)
(* the packets themselves.  Of a FlowVal ether_type, which goes with the   *)
(* key, and direction, which is set later, are left out.                   *)
(***************************************************************************)
EXTENDS Integers, Sequences

CONSTANTS
  Parsed,      \* the parsed packets that may arrive
  MaxWindow,   \* bound: packets of a flow recorded between two drains
  U64MAX,      \* u64::MAX of the counters
  SEC, MSEC    \* ms per second (1000) and microseconds per ms (1000)

None == -1
Value == Int     \* a MAC address, a VLAN id: a number, or None

ASSUME FlowTableAssumption ==
  /\ U64MAX \in Nat /\ SEC \in Nat \ {0} /\ MSEC \in Nat \ {0}
  /\ MaxWindow \in Nat
  /\ \A p \in Parsed :
       /\ {"src", "dst", "ports", "protocol", "length", "sec", "usec",
           "src_mac", "dst_mac", "vlan_id"} \subseteq DOMAIN p
       /\ {"family", "ip"} \subseteq DOMAIN p.src /\ {"family", "ip"} \subseteq DOMAIN p.dst
       /\ p.length \in 0 .. U64MAX
       /\ p.sec \in Nat /\ p.usec \in 0 .. (SEC * MSEC - 1)
       /\ p.sec * SEC + SEC <= U64MAX      \* the kernel's clock is no corrupt one
       /\ p.src_mac \in Value /\ p.dst_mac \in Value /\ p.vlan_id \in Value

VARIABLES
  inner,    \* FlowTable.inner: the entries
  window,   \* history: window[k], the packets of k since the last drain, in order
  sum       \* history: sum[k], their bytes, as a number that never overflows

vars == <<inner, window, sum>>

-----------------------------------------------------------------------------
(* Of a packet.                                                            *)

(* ts_ms; the mutant adds the microseconds as they are.                    *)
TsMs_Unscaled(p) == p.sec * SEC + p.usec
TsMs(p) == p.sec * SEC + p.usec \div MSEC

(* decode_packet gives up on a packet whose two addresses differ in family. *)
Decodes(p) == p.src.family = p.dst.family

KeyOf(p) == [src |-> p.src, dst |-> p.dst, ports |-> p.ports, protocol |-> p.protocol]
Key == {KeyOf(p) : p \in {x \in Parsed : Decodes(x)}}

ValOf(p) ==
  [bytes |-> p.length, packets |-> 1,
   src_mac |-> p.src_mac, dst_mac |-> p.dst_mac, vlan_id |-> p.vlan_id,
   first_seen_ms |-> TsMs(p), last_seen_ms |-> TsMs(p)]

-----------------------------------------------------------------------------
(* Of an entry.                                                            *)

(* saturating_add; the mutant wraps.                                       *)
SatAdd_Wraps(a, b) == (a + b) % (U64MAX + 1)
SatAdd(a, b) == IF a + b <= U64MAX THEN a + b ELSE U64MAX

(* A MAC or VLAN is adopted only while none is known; the mutant lets the  *)
(* newest win.                                                             *)
Adopt_Newest(known, new) == IF new = None THEN known ELSE new
Adopt(known, new) == IF known = None THEN new ELSE known

(* Mutant: packets are taken to arrive in the order of their timestamps.   *)
Later_Arrival(known, new) == new
Later(known, new) == IF new > known THEN new ELSE known
Earlier(known, new) == IF new < known THEN new ELSE known

Merge(val, packet) ==
  [bytes   |-> SatAdd(val.bytes, packet.bytes),
   packets |-> SatAdd(val.packets, packet.packets),
   src_mac |-> Adopt(val.src_mac, packet.src_mac),
   dst_mac |-> Adopt(val.dst_mac, packet.dst_mac),
   vlan_id |-> Adopt(val.vlan_id, packet.vlan_id),
   first_seen_ms |-> Earlier(val.first_seen_ms, packet.first_seen_ms),
   last_seen_ms  |-> Later(val.last_seen_ms, packet.last_seen_ms)]

-----------------------------------------------------------------------------

Empty == [k \in {} |-> 0]

Init ==
  /\ inner = Empty
  /\ window = [k \in Key |-> <<>>] /\ sum = [k \in Key |-> 0]

(* A packet that decodes is recorded: its entry is merged or created.      *)
Record(p) ==
  LET k == KeyOf(p)
  IN  /\ Decodes(p) /\ Len(window[k]) < MaxWindow
      /\ inner' = [j \in DOMAIN inner \cup {k} |->
                     IF j # k THEN inner[j]
                     ELSE IF k \in DOMAIN inner THEN Merge(inner[k], ValOf(p)) ELSE ValOf(p)]
      /\ window' = [window EXCEPT ![k] = Append(@, p)]
      /\ sum' = [sum EXCEPT ![k] = @ + p.length]

(* decode_packet gives nothing, and nothing is recorded.                   *)
Ignore(p) == ~Decodes(p) /\ UNCHANGED vars

(* mem::take: the map is handed over, an empty one stays.                  *)
Drain ==
  /\ inner' = Empty
  /\ window' = [k \in Key |-> <<>>] /\ sum' = [k \in Key |-> 0]

Next == Drain \/ \E p \in Parsed : Record(p) \/ Ignore(p)

Spec == Init /\ [][Next]_vars

-----------------------------------------------------------------------------

Entry ==
  [bytes : 0 .. U64MAX, packets : 0 .. U64MAX,
   src_mac : Value, dst_mac : Value, vlan_id : Value,
   first_seen_ms : 0 .. U64MAX, last_seen_ms : 0 .. U64MAX]

(* Every field of an entry stays within its width.                         *)
TypeOK ==
  /\ DOMAIN inner \subseteq Key
  /\ \A k \in DOMAIN inner : inner[k] \in Entry
  /\ window \in [Key -> Seq(Parsed)] /\ sum \in [Key -> Nat]

Capped(x) == IF x <= U64MAX THEN x ELSE U64MAX

(* The table has an entry for exactly the keys that were seen since the    *)
(* last drain; its bytes and packets are those of the window, none of an   *)
(* earlier one, and a counter that reaches its limit stays there instead   *)
(* of starting over (flow.rs:112-113, 133-140).                            *)
CountersExact ==
  /\ DOMAIN inner = {k \in Key : window[k] # <<>>}
  /\ \A k \in DOMAIN inner :
       inner[k].bytes = Capped(sum[k]) /\ inner[k].packets = Capped(Len(window[k]))

Usecs(p) == p.sec * SEC * MSEC + p.usec

(* Whatever the order in which packets arrive, first and last seen are the *)
(* times of the earliest and the latest packet of the window by the        *)
(* kernel's clock, rounded down to the millisecond (flow.rs:123-128,       *)
(* capture.rs:43-46).                                                      *)
SeenTimesExtreme ==
  \A k \in DOMAIN inner : \E i, j \in 1 .. Len(window[k]) :
    /\ inner[k].first_seen_ms = Usecs(window[k][i]) \div MSEC
    /\ inner[k].last_seen_ms = Usecs(window[k][j]) \div MSEC
    /\ \A q \in 1 .. Len(window[k]) :
         Usecs(window[k][q]) \in Usecs(window[k][i]) .. Usecs(window[k][j])

IsFirstKnown(v, w, field) ==
  \/ v = None /\ \A i \in 1 .. Len(w) : w[i][field] = None
  \/ \E i \in 1 .. Len(w) : /\ v # None /\ w[i][field] = v
                            /\ \A j \in 1 .. i-1 : w[j][field] = None

(* Each MAC address and the VLAN is the first one observed in the window;  *)
(* a packet without one neither erases it nor stops a later one from being *)
(* adopted (flow.rs:114-122).                                              *)
FirstKnownKept ==
  \A k \in DOMAIN inner : \A field \in {"src_mac", "dst_mac", "vlan_id"} :
    IsFirstKnown(inner[k][field], window[k], field)
=============================================================================
