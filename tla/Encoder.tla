------------------------------ MODULE Encoder ------------------------------
(***************************************************************************)
(* The IPFIX message encoder, src/ipfix/encode.rs: build_datagrams splits  *)
(* a batch of flows into datagrams that stay under the MTU.                *)
(*                                                                         *)
(* A call is a little state machine: Call, then per datagram OpenMessage,  *)
(* PackSet("v4"), PackSet("v6"), CloseMessage, and finally Return.  The    *)
(* records are named by their position in the v4 and v6 lists, so a        *)
(* datagram holds the two slices lo[f] .. hi[f]-1 that were copied into    *)
(* it; the bytes of a record are not modelled, its size is.                *)
(***************************************************************************)
EXTENDS Integers, Sequences

CONSTANTS
  MTU, MSG_HEADER_LEN, TEMPLATE_SET_LEN, SET_HEADER_LEN,
  RECORD_SIZE_V4, RECORD_SIZE_V6,
  U16MAX,        \* u16::MAX
  SEQ_MOD,       \* the sequence number lives in 0 .. SEQ_MOD-1 (2^32 in the code)
  FlowCounts,    \* how many flows of one family a caller may pass
  SeqStarts      \* the sequence numbers a caller may pass

(* The compile-time assertion of encode.rs:27, and that the constants are  *)
(* what a u16 can hold.                                                    *)
ASSUME EncoderAssumption ==
  /\ MTU \in Nat /\ MSG_HEADER_LEN \in Nat /\ TEMPLATE_SET_LEN \in Nat
  /\ SET_HEADER_LEN \in Nat /\ U16MAX \in Nat
  /\ RECORD_SIZE_V4 \in Nat \ {0} /\ RECORD_SIZE_V6 \in Nat \ {0}
  /\ RECORD_SIZE_V4 <= RECORD_SIZE_V6
  /\ MTU <= U16MAX
  /\ MTU >= MSG_HEADER_LEN + TEMPLATE_SET_LEN + SET_HEADER_LEN + RECORD_SIZE_V6
  /\ SEQ_MOD \in Nat \ {0}
  /\ FlowCounts \subseteq Nat
  /\ SeqStarts \subseteq 0 .. SEQ_MOD-1

Family == {"v4", "v6"}
RecordSize(f) == IF f = "v4" THEN RECORD_SIZE_V4 ELSE RECORD_SIZE_V6

VARIABLES
  pc,                    \* "idle", or where the call in progress is
  n,                     \* n[f]: v4.len() and v6.len(), after the partition
  idx,                   \* idx[f]: v4_idx and v6_idx
  include_template_set,
  seq,
  buf,                   \* the message being built; length 0 is the placeholder
  msg_len,
  records_in_msg,
  datagrams,
  seq_start,             \* the argument seq_start
  with_template          \* the argument include_template_set

vars == <<pc, n, idx, include_template_set, seq, buf, msg_len,
          records_in_msg, datagrams, seq_start, with_template>>

Zero == [f \in Family |-> 0]
NoMessage == [seq |-> 0, length |-> 0, template |-> FALSE, lo |-> Zero, hi |-> Zero]

Init ==
  /\ pc = "idle"
  /\ n = Zero /\ idx = Zero
  /\ include_template_set = FALSE /\ with_template = FALSE
  /\ seq = 0 /\ seq_start = 0
  /\ buf = NoMessage /\ msg_len = 0 /\ records_in_msg = 0
  /\ datagrams = <<>>

(* build_datagrams(flows, start, tmpl, ..): the flows are partitioned by   *)
(* address family, count[f] of them in family f.                           *)
Call(count, tmpl, start) ==
  /\ pc = "idle"
  /\ pc' = "loop"
  /\ n' = count
  /\ idx' = Zero
  /\ include_template_set' = tmpl /\ with_template' = tmpl
  /\ seq' = start /\ seq_start' = start
  /\ datagrams' = <<>>
  /\ UNCHANGED <<buf, msg_len, records_in_msg>>

Pending == \E f \in Family : idx[f] < n[f]

SatSub(a, b) == IF a > b THEN a - b ELSE 0
Least(a, b) == IF a <= b THEN a ELSE b

(* Mutants of TakeRecords: the set header left out of the budget, plain    *)
(* instead of saturating subtraction, the last record never taken, half    *)
(* of the budget kept for the other family.                                *)
TakeRecords_NoSetHeader(remaining, len, size) ==
  Least(SatSub(MTU, len) \div size, Least(remaining, U16MAX))
TakeRecords_PlainSub(remaining, len, size) ==
  Least((MTU - len - SET_HEADER_LEN) \div size, Least(remaining, U16MAX))
TakeRecords_LeavesOne(remaining, len, size) ==
  Least(SatSub(SatSub(MTU, len), SET_HEADER_LEN) \div size, Least(SatSub(remaining, 1), U16MAX))
TakeRecords_SharesBudget(remaining, len, size) ==
  Least((SatSub(SatSub(MTU, len), SET_HEADER_LEN) \div 2) \div size, Least(remaining, U16MAX))

(* How many size-byte records fit next to one set header, capped at the    *)
(* number still owed.                                                      *)
TakeRecords(remaining, len, size) ==
  LET budget == SatSub(SatSub(MTU, len), SET_HEADER_LEN)
  IN  Least(budget \div size, Least(remaining, U16MAX))

(* What a set of count records of family f adds to the message length; no  *)
(* set at all is written when no record fits.                              *)
SetLen_NoHeader(count, f) == count * RecordSize(f)
SetLen(count, f) == IF count = 0 THEN 0 ELSE SET_HEADER_LEN + count * RecordSize(f)

(* *idx += take; the mutant assigns instead of adding.                     *)
Advance_Overwrites(i, take) == take
Advance(i, take) == i + take

(* seq.wrapping_add(records); the mutant counts messages instead.          *)
AdvanceSeq_PerMessage(s, records) == (s + 1) % SEQ_MOD
AdvanceSeq(s, records) == (s + records) % SEQ_MOD

(* include_template_set is cleared once written; the mutant forgets to.    *)
ClearInclude_Forgotten(include) == include
ClearInclude(include) == FALSE

(* Top of the while loop: header with placeholders, template set if due.   *)
OpenMessage ==
  /\ pc = "loop" /\ Pending
  /\ pc' = "v4"
  /\ buf' = [seq |-> seq, length |-> 0, template |-> include_template_set,
             lo |-> idx, hi |-> idx]
  /\ msg_len' = MSG_HEADER_LEN + (IF include_template_set THEN TEMPLATE_SET_LEN ELSE 0)
  /\ include_template_set' = ClearInclude(include_template_set)
  /\ records_in_msg' = 0
  /\ UNCHANGED <<n, idx, seq, datagrams, seq_start, with_template>>

(* pack_set for one family.                                                *)
PackSet(f) ==
  LET take == TakeRecords(n[f] - idx[f], msg_len, RecordSize(f))
  IN  /\ pc = f
      /\ pc' = IF f = "v4" THEN "v6" ELSE "patch"
      /\ idx' = [idx EXCEPT ![f] = Advance(@, take)]
      /\ buf' = [buf EXCEPT !.hi[f] = idx[f] + take]
      /\ msg_len' = msg_len + SetLen(take, f)
      /\ records_in_msg' = records_in_msg + take
      /\ UNCHANGED <<n, include_template_set, seq, datagrams, seq_start, with_template>>

(* Back-patch the length, advance the sequence number by the records of    *)
(* this message, push the datagram.                                        *)
CloseMessage ==
  /\ pc = "patch"
  /\ pc' = "loop"
  /\ datagrams' = Append(datagrams, [buf EXCEPT !.length = msg_len])
  /\ seq' = AdvanceSeq(seq, records_in_msg)
  /\ UNCHANGED <<n, idx, include_template_set, buf, msg_len, records_in_msg,
                 seq_start, with_template>>

(* The loop ends: (datagrams, seq) is returned, the loop's locals are gone. *)
Return ==
  /\ pc = "loop" /\ ~Pending
  /\ pc' = "idle"
  /\ buf' = NoMessage /\ msg_len' = 0 /\ records_in_msg' = 0
  /\ UNCHANGED <<n, idx, include_template_set, seq, datagrams, seq_start, with_template>>

Step == OpenMessage \/ (\E f \in Family : PackSet(f)) \/ CloseMessage \/ Return

Next ==
  \/ \E count \in [Family -> FlowCounts], tmpl \in BOOLEAN, start \in SeqStarts :
        Call(count, tmpl, start)
  \/ Step

Spec == Init /\ [][Next]_vars

-----------------------------------------------------------------------------

Message ==
  [seq : 0 .. SEQ_MOD-1, length : Nat, template : BOOLEAN,
   lo : [Family -> Nat], hi : [Family -> Nat]]

(* Types of the loop's locals.                                             *)
TypeOK ==
  /\ pc \in {"idle", "loop", "v4", "v6", "patch"}
  /\ n \in [Family -> Nat] /\ idx \in [Family -> Nat]
  /\ include_template_set \in BOOLEAN /\ with_template \in BOOLEAN
  /\ seq \in 0 .. SEQ_MOD-1 /\ seq_start \in 0 .. SEQ_MOD-1
  /\ buf \in Message
  /\ msg_len \in Nat /\ records_in_msg \in Nat
  /\ datagrams \in Seq(Message)

(* No message, finished or under construction, outgrows the MTU; so the    *)
(* u16 arithmetic on msg_len cannot overflow (encode.rs:56-91, 110-120).   *)
FitsMTU ==
  /\ msg_len <= MTU
  /\ \A i \in 1 .. Len(datagrams) : datagrams[i].length <= MTU

(* What the sets of a message take on the wire.                            *)
SetBytes(d, f) ==
  (IF d.lo[f] < d.hi[f] THEN SET_HEADER_LEN ELSE 0) + (d.hi[f] - d.lo[f]) * RecordSize(f)
Bytes(d) ==
  MSG_HEADER_LEN + (IF d.template THEN TEMPLATE_SET_LEN ELSE 0)
                 + SetBytes(d, "v4") + SetBytes(d, "v6")

(* The back-patched length field is the number of bytes really written: a  *)
(* collector that trusts it finds the end of the message (encode.rs:89).   *)
LengthHonest == \A i \in 1 .. Len(datagrams) : datagrams[i].length = Bytes(datagrams[i])

(* The header of every datagram counts the records of all datagrams before *)
(* it, modulo 2^32, and so does the number handed back to the caller       *)
(* (encode.rs:13-14, 94).                                                  *)
SequenceIsCumulative ==
  /\ \A i \in 1 .. Len(datagrams) :
       datagrams[i].seq = (seq_start + datagrams[i].lo["v4"] + datagrams[i].lo["v6"]) % SEQ_MOD
  /\ pc = "idle" => seq = (seq_start + n["v4"] + n["v6"]) % SEQ_MOD

(* Each record is written exactly once and in order: the slices of         *)
(* consecutive datagrams abut, start at 0 and end at the whole list.       *)
RecordsPartitioned ==
  \A f \in Family :
    /\ \A i \in 1 .. Len(datagrams) :
         /\ datagrams[i].lo[f] <= datagrams[i].hi[f]
         /\ datagrams[i].lo[f] = IF i = 1 THEN 0 ELSE datagrams[i-1].hi[f]
    /\ pc = "idle" =>
         n[f] = IF datagrams = <<>> THEN 0 ELSE datagrams[Len(datagrams)].hi[f]

(* Every trip round the loop writes at least one record, so the loop       *)
(* cannot spin and a call returns (the claim of encode.rs:25-27).          *)
EveryMessageProgresses ==
  \A i \in 1 .. Len(datagrams) : \E f \in Family : datagrams[i].lo[f] < datagrams[i].hi[f]

(* The template set goes into the first datagram and no other, exactly     *)
(* when the caller asked for it (encode.rs:8, 65-69).                      *)
TemplateFirstOnly ==
  \A i \in 1 .. Len(datagrams) : datagrams[i].template <=> (i = 1 /\ with_template)

(* A v6 record is only written once all v4 records are out: leftover room  *)
(* of a v4 set is never enough for a v6 set (encode.rs:71-87).             *)
V4BeforeV6 ==
  \A i \in 1 .. Len(datagrams) :
    datagrams[i].lo["v6"] < datagrams[i].hi["v6"] => datagrams[i].hi["v4"] = n["v4"]

(* A datagram is closed with records still owed only when the next of them *)
(* would not have fitted: no batch takes more datagrams than it must.      *)
NoEarlySplit ==
  \A i \in 1 .. Len(datagrams), f \in Family :
    /\ datagrams[i].hi[f] < n[f]
    /\ f = "v6" => datagrams[i].hi["v4"] = n["v4"]
    => datagrams[i].length + RecordSize(f)
         + (IF datagrams[i].lo[f] = datagrams[i].hi[f] THEN SET_HEADER_LEN ELSE 0) > MTU
=============================================================================
