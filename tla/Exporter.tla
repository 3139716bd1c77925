------------------------------ MODULE Exporter ------------------------------
(***************************************************************************)
(* exporter.rs across flushes: the running sequence number, the template   *)
(* refresh, the send loop that goes on after an error, a UDP path that     *)
(* delays, loses, duplicates and reorders, and a collector that may be     *)
(* restarted.  The collector is not in the repository: it is what          *)
(* exporter.rs:45-46 expects of one, which counts the gaps.                *)
(*                                                                         *)
(* Records are numbered in the order they are handed to flush, so that a   *)
(* datagram carries the records lo+1 .. hi; a collector sees only their    *)
(* number, the sequence number and whether the templates are there.        *)
(***************************************************************************)
EXTENDS Packing

CONSTANTS
  REFRESH,      \* 30 s between two sendings of the templates, in ticks
  BatchSizes,   \* how many flows a flush may be called with
  MaxRecords,   \* bound: records flushed in a behaviour
  MaxInFlight   \* bound: datagrams in the network

ASSUME ExporterAssumption ==
  /\ SEQ_MOD \in Nat \ {0} /\ REFRESH \in Nat \ {0}
  /\ BatchSizes \subseteq Nat /\ MaxRecords \in Nat /\ MaxInFlight \in Nat \ {0}

None == -1

VARIABLES
  pc,                   \* "idle" or "send"
  seq,
  last_template_send,   \* None, or the time since then, which stops at REFRESH
  datagrams,            \* those of the current flush still to be sent
  last_err,             \* of the current flush
  result,               \* what the last flush returned: "ok" or "err"
  net,                  \* datagrams in flight
  templates,            \* collector: it knows the templates
  expected,             \* collector: the next sequence number, None before the first datagram
  gap,                  \* collector: records it found missing before the last datagram
  handed, sent, refused,    \* history: records flushed, accepted by the socket, and
                            \* refused by it during the current flush
  calm,                 \* history: time since the last disturbance, which stops at REFRESH
  top, hole, in_order   \* history: hi of the last datagram received, the records really
                        \* missing before it, and whether none was duplicated or reordered

exporter  == <<pc, seq, last_template_send, datagrams, last_err, result, handed, sent, refused>>
collector == <<templates, expected, gap, top, hole>>
vars == <<exporter, net, collector, calm, in_order>>

Init ==
  /\ pc = "idle" /\ seq = 0 /\ last_template_send = None
  /\ datagrams = <<>> /\ last_err = None /\ result = "ok"
  /\ net = <<>>
  /\ templates = FALSE /\ expected = None /\ gap = 0
  /\ handed = 0 /\ sent = 0 /\ refused = 0
  /\ calm = 0 /\ top = 0 /\ hole = 0 /\ in_order = TRUE

-----------------------------------------------------------------------------
(* The exporter.                                                           *)

(* include_template_set; the mutant sends them once and never again.       *)
TemplateDue_Once == last_template_send = None
TemplateDue == last_template_send = None \/ last_template_send >= REFRESH

(* new_seq of build_datagrams, kept for the next flush.  Mutants: not kept *)
(* at all, not wrapped.                                                    *)
Advanced_Forgotten(start, count) == start
Advanced_NotWrapped(start, count) == start + count
Advanced(start, count) == (start + count) % SEQ_MOD

(* flush(&[]) returns at once.  The mutant goes through the motions.       *)
FlushNothing_MarksRefresh ==
  /\ pc = "idle" /\ 0 \in BatchSizes
  /\ last_template_send' = IF TemplateDue THEN 0 ELSE last_template_send
  /\ result' = "ok" /\ refused' = 0
  /\ UNCHANGED <<pc, seq, datagrams, last_err, handed, sent,
                 net, collector, calm, in_order>>
FlushNothing ==
  /\ pc = "idle" /\ 0 \in BatchSizes
  /\ result' = "ok" /\ refused' = 0
  /\ UNCHANGED <<pc, seq, last_template_send, datagrams, last_err, handed, sent,
                 net, collector, calm, in_order>>

(* flush(flows) up to the send loop, with count flows that build_datagrams *)
(* cut at c.  The refresh is marked and the sequence number advanced       *)
(* before anything is sent.                                                *)
Flush(count, c) ==
  LET built == Packed(c, seq, TemplateDue)
  IN  /\ pc = "idle" /\ count > 0 /\ handed + count <= MaxRecords
      /\ pc' = "send"
      /\ datagrams' = [i \in 1 .. Len(c) |->
           [seq |-> built[i].seq, template |-> built[i].template,
            lo |-> handed + built[i].lo, hi |-> handed + built[i].hi,
            steady |-> calm >= REFRESH]]
      /\ last_template_send' = IF TemplateDue THEN 0 ELSE last_template_send
      /\ seq' = Advanced(seq, count)
      /\ handed' = handed + count /\ refused' = 0
      /\ UNCHANGED <<last_err, result, sent, net, collector, calm, in_order>>

Records(d) == d.hi - d.lo

(* self.sock.send succeeds.  The mutant lets a success clear the error.    *)
ErrAfterSuccess_Cleared == None
ErrAfterSuccess == last_err

Send ==
  /\ pc = "send" /\ datagrams # <<>> /\ Len(net) < MaxInFlight
  /\ net' = Append(net, Head(datagrams))
  /\ datagrams' = Tail(datagrams)
  /\ last_err' = ErrAfterSuccess
  /\ sent' = sent + Records(Head(datagrams))
  /\ UNCHANGED <<pc, seq, last_template_send, result, handed, refused, collector, calm, in_order>>

(* A datagram is steady if nothing went wrong for REFRESH before its flush *)
(* and nothing has since; every disturbance ends that.                     *)
Unsteady(s) == [i \in 1 .. Len(s) |-> [s[i] EXCEPT !.steady = FALSE]]

(* It fails: the error is remembered and the loop goes on.                 *)
SendFails ==
  /\ pc = "send" /\ datagrams # <<>>
  /\ datagrams' = Unsteady(Tail(datagrams)) /\ net' = Unsteady(net) /\ calm' = 0
  /\ last_err' = 1
  /\ refused' = refused + Records(Head(datagrams))
  /\ UNCHANGED <<pc, seq, last_template_send, result, handed, sent, collector, in_order>>

Return ==
  /\ pc = "send" /\ datagrams = <<>>
  /\ pc' = "idle"
  /\ result' = IF last_err = None THEN "ok" ELSE "err"
  /\ last_err' = None
  /\ UNCHANGED <<seq, last_template_send, datagrams, handed, sent, refused,
                 net, collector, calm, in_order>>

-----------------------------------------------------------------------------
(* The world around it.                                                    *)

Capped(t) == IF t < REFRESH THEN t + 1 ELSE t

Tick ==
  /\ calm' = Capped(calm)
  /\ last_template_send' =
       IF last_template_send = None THEN None ELSE Capped(last_template_send)
  /\ UNCHANGED <<pc, seq, datagrams, last_err, result, handed, sent, refused,
                 net, collector, in_order>>

Disturbed == datagrams' = Unsteady(datagrams) /\ calm' = 0
Undisturbed == UNCHANGED <<pc, seq, last_template_send, last_err, result, handed, sent, refused>>

Without(s, i) == SubSeq(s, 1, i-1) \o SubSeq(s, i+1, Len(s))
Swapped(s, i) == [s EXCEPT ![i] = s[i+1], ![i+1] = s[i]]

Lose(i) ==
  /\ net' = Unsteady(Without(net, i)) /\ Disturbed
  /\ Undisturbed /\ UNCHANGED <<collector, in_order>>

Reorder(i) ==
  /\ i < Len(net)
  /\ net' = Unsteady(Swapped(net, i)) /\ Disturbed /\ in_order' = FALSE
  /\ Undisturbed /\ UNCHANGED collector

Duplicate(i) ==
  /\ Len(net) < MaxInFlight
  /\ net' = Append(net, net[i]) /\ in_order' = FALSE
  /\ Undisturbed /\ UNCHANGED <<datagrams, calm, collector>>

(* The collector takes the next datagram and compares its sequence number  *)
(* with the one it expects.                                                *)
Receive ==
  LET d == Head(net)
  IN  /\ net # <<>> /\ net' = Tail(net)
      /\ templates' = (templates \/ d.template)
      /\ gap' = IF expected = None THEN 0 ELSE (d.seq - expected) % SEQ_MOD
      /\ expected' = (d.seq + Records(d)) % SEQ_MOD
      /\ top' = d.hi
      /\ hole' = IF expected = None THEN 0 ELSE d.lo - top
      /\ UNCHANGED <<exporter, calm, in_order>>

(* The collector is restarted and has to learn everything anew.            *)
Restart ==
  /\ templates' = FALSE /\ expected' = None /\ gap' = 0 /\ top' = 0 /\ hole' = 0
  /\ net' = Unsteady(net) /\ Disturbed
  /\ Undisturbed /\ UNCHANGED in_order

Environment ==
  \/ Tick \/ Receive \/ Restart
  \/ \E i \in 1 .. Len(net) : Lose(i) \/ Reorder(i) \/ Duplicate(i)

Next ==
  \/ FlushNothing
  \/ \E count \in BatchSizes : \E c \in Cuts(count) : Flush(count, c)
  \/ Send \/ SendFails \/ Return
  \/ Environment

Spec == Init /\ [][Next]_vars

-----------------------------------------------------------------------------

Datagram ==
  [seq : 0 .. SEQ_MOD-1, template : BOOLEAN, lo : Nat, hi : Nat, steady : BOOLEAN]

TypeOK ==
  /\ pc \in {"idle", "send"} /\ result \in {"ok", "err"} /\ last_err \in {None, 1}
  /\ seq \in 0 .. SEQ_MOD-1
  /\ last_template_send \in {None} \cup 0 .. REFRESH /\ calm \in 0 .. REFRESH
  /\ datagrams \in Seq(Datagram) /\ net \in Seq(Datagram)
  /\ templates \in BOOLEAN /\ in_order \in BOOLEAN
  /\ expected \in {None} \cup 0 .. SEQ_MOD-1
  /\ gap \in 0 .. SEQ_MOD-1 /\ hole \in Int /\ top \in Nat
  /\ handed \in Nat /\ sent \in Nat /\ refused \in Nat

(* A gap in the sequence numbers is the number of records that are gone,   *)
(* whether the network lost them or the agent's own socket refused them:   *)
(* on a path that keeps the order a collector misses no loss but whole     *)
(* turns of the sequence space, and suspects none that did not happen      *)
(* (exporter.rs:45-47).                                                    *)
LossVisible == in_order => hole >= 0 /\ gap = hole % SEQ_MOD

(* Within one refresh period after the last disturbance (a loss, a refused *)
(* datagram, a reordering, a restart of the collector) the agent is        *)
(* decodable again: a datagram of any flush after that finds the templates *)
(* at the collector or ahead of it on the way.  Holds although the refresh *)
(* is marked before the templates are sent (exporter.rs:35-44).            *)
DecodableAfterCalm ==
  \A i \in 1 .. Len(net) :
    net[i].steady => templates \/ \E j \in 1 .. i : net[j].template

(* flush reports an error exactly when the socket refused some of its      *)
(* records, also if later datagrams went out (exporter.rs:49-59), so       *)
(* "flushed n records" is logged for n records sent.                       *)
ResultHonest == pc = "idle" => (result = "err" <=> refused > 0)

(* encode.rs:13-14 taken at its word: the number in the header of the next *)
(* datagram counts the Data Records sent on the stream before it.          *)
CountsRecordsSent == datagrams # <<>> => Head(datagrams).seq = sent % SEQ_MOD
=============================================================================
