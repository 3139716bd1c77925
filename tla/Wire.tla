-------------------------------- MODULE Wire --------------------------------
(***************************************************************************)
(* What Encoder only counts, written out: template set, set headers and    *)
(* records (template.rs, encode.rs).  Every step is one of Encoder with    *)
(* the writes it makes beside it.                                          *)
(*                                                                         *)
(* A word is a value and the number of big-endian bytes it is written in;  *)
(* a record is a sequence of words.                                        *)
(***************************************************************************)
EXTENDS Encoder

CONSTANTS
  FlowAt(_, _),   \* FlowAt(f, i): the i-th flow of family f, a record of its fields
  Unset           \* Option::None

VARIABLES
  sets,           \* the sets written into the message being built
  wire            \* the header and the sets of each finished message

wireVars == <<vars, sets, wire>>

W(width, value) == [width |-> width, value |-> value]

(* The sum of a sequence of numbers.                                       *)
Sum(s) ==
  LET upto[k \in 0 .. Len(s)] == IF k = 0 THEN 0 ELSE upto[k-1] + s[k] IN upto[Len(s)]

(* Bytes taken by a sequence of words, a set, a message.                   *)
Width(words) == Sum([i \in 1 .. Len(words) |-> words[i].width])
Size(set) == Width(set.head) + Sum([i \in 1 .. Len(set.body) |-> Width(set.body[i])])
MessageSize(head, ss) == Width(head) + Sum([i \in 1 .. Len(ss) |-> Size(ss[i])])

-----------------------------------------------------------------------------
(* template.rs.                                                            *)

TemplateId(f) == IF f = "v4" THEN 256 ELSE 257

(* V4_FIELDS and V6_FIELDS: numbers of information elements, and lengths.  *)
Fields(f) ==
  LET src == IF f = "v4" THEN <<8, 4>>  ELSE <<27, 16>>
      dst == IF f = "v4" THEN <<12, 4>> ELSE <<28, 16>>
  IN  <<src, dst, <<7, 2>>, <<11, 2>>, <<4, 1>>, <<56, 6>>, <<80, 6>>, <<243, 2>>, <<256, 2>>,
        <<61, 1>>, <<352, 8>>, <<2, 8>>, <<152, 8>>, <<153, 8>> >>

(* write_template_record, write_template_set: after the head, each field   *)
(* specifier is two words.                                                 *)
TemplateRecord(f) ==
  <<W(2, TemplateId(f)), W(2, Len(Fields(f)))>>
    \o [k \in 1 .. 2 * Len(Fields(f)) |-> W(2, Fields(f)[(k+1) \div 2][2 - (k % 2)])]

TemplateSet ==
  [head |-> <<W(2, 2), W(2, TEMPLATE_SET_LEN)>>,
   body |-> <<TemplateRecord("v4"), TemplateRecord("v6")>>]

-----------------------------------------------------------------------------
(* encode.rs.                                                              *)

(* The fields of a flow, and those that are an Option.                     *)
FlowFields == {"src", "dst", "src_port", "dst_port", "protocol", "src_mac", "dst_mac", "vlan_id",
               "ether_type", "direction", "bytes", "packets", "first_seen_ms", "last_seen_ms"}
Optional == {"src_port", "dst_port", "protocol", "src_mac", "dst_mac", "vlan_id", "direction"}
IsFlow(flow) ==
  /\ DOMAIN flow = FlowFields
  /\ flow.direction \in {"in", "out", Unset}
  /\ \A name \in FlowFields \ Optional : flow[name] # Unset

(* The lengths of ipfix/mod.rs:9-24 and template.rs:32-34, which the       *)
(* writers below have to meet.                                             *)
ASSUME WireAssumption ==
  /\ MSG_HEADER_LEN = 16 /\ SET_HEADER_LEN = 4
  /\ RECORD_SIZE_V4 = 62 /\ RECORD_SIZE_V6 = 86
  /\ TEMPLATE_SET_LEN = 4 + 2 * (4 + 14 * 4)
  /\ Unset \notin {"in", "out"}
  /\ \A f \in Family, count \in FlowCounts : \A i \in 0 .. count-1 : IsFlow(FlowAt(f, i))

(* The mutant writes a missing direction like an incoming one.             *)
DirectionByte_ZeroForNone(d) == IF d = "out" THEN 1 ELSE 0
DirectionByte(d) == CASE d = "in" -> 0 [] d = "out" -> 1 [] d = Unset -> 255

(* Option::unwrap_or.                                                      *)
UnwrapOr(v, default) == IF v = Unset THEN default ELSE v

(* write_record and write_common_tail.                                     *)
Record(f, flow) ==
  LET ip == IF f = "v4" THEN 4 ELSE 16
  IN  << W(ip, flow.src), W(ip, flow.dst),
         W(2, UnwrapOr(flow.src_port, 0)), W(2, UnwrapOr(flow.dst_port, 0)),
         W(1, UnwrapOr(flow.protocol, 0)),
         W(6, UnwrapOr(flow.src_mac, 0)), W(6, UnwrapOr(flow.dst_mac, 0)),
         W(2, UnwrapOr(flow.vlan_id, 0)), W(2, flow.ether_type),
         W(1, DirectionByte(flow.direction)), W(8, flow.bytes), W(8, flow.packets),
         W(8, flow.first_seen_ms), W(8, flow.last_seen_ms) >>

(* The length a set header announces; the mutant leaves the header out.    *)
SetLength_PayloadOnly(payload_len) == payload_len
SetLength(payload_len) == SET_HEADER_LEN + payload_len

(* The set with the records first .. last-1 of a family, of which there    *)
(* must be some.                                                           *)
DataSet(f, first, last) ==
  [head |-> <<W(2, TemplateId(f)), W(2, SetLength((last - first) * RecordSize(f)))>>,
   body |-> [i \in 1 .. last - first |-> Record(f, FlowAt(f, first + i - 1))]]

(* The message header: version, length, time, sequence number, domain.     *)
MessageHeader(d) ==
  <<W(2, 10), W(2, d.length), W(4, "now_unix"), W(4, d.seq), W(4, "odid")>>

WireInit == Init /\ sets = <<>> /\ wire = <<>>

WireCall(count, tmpl, start) == Call(count, tmpl, start) /\ wire' = <<>> /\ UNCHANGED sets

WireOpen ==
  /\ OpenMessage
  /\ sets' = IF include_template_set THEN <<TemplateSet>> ELSE <<>>
  /\ UNCHANGED wire

WirePackSet(f) ==
  /\ PackSet(f)
  /\ sets' = IF idx'[f] = idx[f] THEN sets ELSE Append(sets, DataSet(f, idx[f], idx'[f]))
  /\ UNCHANGED wire

WireClose ==
  /\ CloseMessage
  /\ wire' = Append(wire, [head |-> MessageHeader([buf EXCEPT !.length = msg_len]), sets |-> sets])
  /\ UNCHANGED sets

WireReturn == Return /\ sets' = <<>> /\ UNCHANGED wire

WireNext ==
  \/ \E count \in [Family -> FlowCounts], tmpl \in BOOLEAN, start \in SeqStarts :
        WireCall(count, tmpl, start)
  \/ WireOpen \/ (\E f \in Family : WirePackSet(f)) \/ WireClose \/ WireReturn

WireSpec == WireInit /\ [][WireNext]_wireVars

-----------------------------------------------------------------------------

(* The bytes written and the bytes counted never drift apart: msg_len and  *)
(* the length field of a message measure what is in it, and so does the    *)
(* length in the header of each set.  Encoder takes the five lengths on    *)
(* trust; here they meet the tables and the writers (encode.rs:55-63, 89,  *)
(* 120, 133-136, template.rs:32-34).                                       *)
LengthsMeasured ==
  /\ pc \in {"v4", "v6", "patch"} => msg_len = MessageSize(MessageHeader(buf), sets)
  /\ \A i \in 1 .. Len(wire) :
       /\ wire[i].head[2].value = MessageSize(wire[i].head, wire[i].sets)
       /\ \A j \in 1 .. Len(wire[i].sets) :
            wire[i].sets[j].head[2].value = Size(wire[i].sets[j])

(* The registry of IANA, which a collector shares with the exporter: the   *)
(* element that carries a field of a flow.                                 *)
Element(f) ==
  [src |-> IF f = "v4" THEN 8 ELSE 27, dst |-> IF f = "v4" THEN 12 ELSE 28,
   src_port |-> 7, dst_port |-> 11, protocol |-> 4, src_mac |-> 56, dst_mac |-> 80,
   vlan_id |-> 243, ether_type |-> 256, direction |-> 61, bytes |-> 352, packets |-> 2,
   first_seen_ms |-> 152, last_seen_ms |-> 153]

(* A collector cuts a record by the template of its set.                   *)
ReadField(record, fields, element) ==
  LET i == CHOOSE j \in 1 .. Len(fields) : fields[j][1] = element IN record[i].value
Fits(record, fields) ==
  Len(record) = Len(fields) /\ \A i \in 1 .. Len(fields) : record[i].width = fields[i][2]

(* The fields a template announces, and what an absent field is read as.   *)
Announced(template) ==
  [i \in 1 .. template[2].value |-> <<template[2*i + 1].value, template[2*i + 2].value>>]
Expected(flow, name) ==
  IF flow[name] # Unset /\ name = "direction" THEN IF flow[name] = "in" THEN 0 ELSE 1
  ELSE IF flow[name] # Unset THEN flow[name]
  ELSE IF name = "direction" THEN 255 ELSE 0

(* The templates that are sent describe the records that are sent: two     *)
(* tables and a writer in two files agree on element, order and width of   *)
(* fourteen fields, so that a collector that knows nothing but IANA's      *)
(* registry and the templates gets every field of every flow back, with 0, *)
(* or 255 for the direction, in the place of what is not known             *)
(* (template.rs:15-69, encode.rs:138-170, flow.rs:49-59).                  *)
RecordsReadBack ==
  \A i \in 1 .. Len(wire), f \in Family :
    LET d == datagrams[i]
        ss == wire[i].sets
        holding == {j \in 1 .. Len(ss) : ss[j].head[1].value = TemplateId(f)}
        fields == Announced(TemplateRecord(f))
    IN  IF d.lo[f] = d.hi[f] THEN holding = {}
        ELSE \E j \in holding :
               /\ holding = {j} /\ Len(ss[j].body) = d.hi[f] - d.lo[f]
               /\ \A r \in 1 .. Len(ss[j].body) :
                    /\ Fits(ss[j].body[r], fields)
                    /\ \A name \in FlowFields :
                         ReadField(ss[j].body[r], fields, Element(f)[name])
                           = Expected(FlowAt(f, d.lo[f] + r - 1), name)
=============================================================================
