------------------------------- MODULE Agent -------------------------------
(***************************************************************************)
(* The two threads of sniffnet-agent and the unbounded channel between     *)
(* them.  The capture thread (capture.rs run) aggregates packets into a    *)
(* FlowTable and drains it into the channel every INTERVAL; the main       *)
(* thread (main.rs) takes one drained map at a time, drops the agent's own *)
(* traffic and exports the rest.                                           *)
(*                                                                         *)
(* A flow's value is abstracted to the set of packets added up in it, so a *)
(* flow map is a function from keys to sets, {} where it has no entry.     *)
(* Time is counted in ticks that pass only inside next_packet: the code    *)
(* between two calls of it takes no time.  The read timeout is libpcap's:  *)
(* when it expires with nothing to return, next_packet may return          *)
(* TimeoutExpired or, as on Linux with TPACKET_V3, wait on.                *)
(***************************************************************************)
EXTENDS Integers, Sequences, FiniteSets

CONSTANTS
  Packet,         \* the packets of other programs the kernel may hand over, each once
  KeyOf,          \* KeyOf[p]: the FlowKey of p, or NotDecoded (decode_packet = None)
  NotDecoded,
  WireKey,        \* the FlowKey under which the agent's own datagrams are captured
  Echo,           \* any captured datagram of the agent itself
  CollectorIp, CollectorPort,
  INTERVAL,       \* 900 ms between drains, in ticks
  TIMEOUT,        \* the read timeout of the capture (150 ms), in ticks
  MaxEcho,        \* bound: own datagrams waiting in the kernel's capture buffer
  MaxBacklog      \* bound: maps waiting in the channel

Key == ({KeyOf[p] : p \in Packet} \ {NotDecoded}) \cup {WireKey}

ASSUME AgentAssumption ==
  /\ DOMAIN KeyOf = Packet
  /\ Echo \notin Packet
  /\ NotDecoded # WireKey
  /\ \A k \in Key : {"dst", "dst_port", "protocol"} \subseteq DOMAIN k
  /\ INTERVAL \in Nat \ {0} /\ TIMEOUT \in Nat \ {0}
  /\ MaxEcho \in Nat /\ MaxBacklog \in Nat \ {0}

VARIABLES
  capPc,      \* capture thread: "check" (top of the loop), "poll" (in next_packet), "done"
  table,      \* FlowTable.inner
  elapsed,    \* last_drain.elapsed(), counted up to INTERVAL + TIMEOUT
  polled,     \* time since this next_packet call began or its read timeout last expired
  quiet,      \* history: the read timeout has expired in this call with nothing to return
  chan,       \* the mpsc channel
  mainPc,     \* main thread: "recv", "prepare", "flush", "exited"
  batch,      \* the map taken from the channel, then what is left to export of it
  echo,       \* own datagrams waiting in the kernel's capture buffer
  captured,   \* history: packets in the order next_packet returned them
  exported, failed, withheld, lost   \* history: what became of them

capVars  == <<capPc, table, elapsed, polled, quiet>>
mainVars == <<mainPc, batch>>
fates    == <<exported, failed, withheld, lost>>
vars     == <<capVars, chan, mainVars, echo, captured, fates>>

-----------------------------------------------------------------------------
(* Flow maps.                                                              *)

NoFlows   == [k \in Key |-> {}]
Flows(m)  == {k \in Key : m[k] # {}}
Within(m) == UNION {m[k] : k \in Key}

(* Mutants: the key's own port or address is left out of the comparison.   *)
IsSelfExport_AnyPort(key) == key.protocol = "udp" /\ key.dst = CollectorIp
IsSelfExport_OtherPort(key) ==
  key.protocol = "udp" /\ key.dst = CollectorIp /\ key.dst_port # CollectorPort
IsSelfExport(key) ==
  key.protocol = "udp" /\ key.dst = CollectorIp /\ key.dst_port = CollectorPort

(* FlowTable::record; the mutant files the packet under the export flow.   *)
Record_WrongKey(m, k, p) == [m EXCEPT ![WireKey] = @ \cup {p}]
Record(m, k, p) == [m EXCEPT ![k] = @ \cup {p}]

(* FlowTable::drain takes the map and leaves an empty one.  The mutants    *)
(* clone it, and retain a flow for the next window.                        *)
Drain_Clones(m) == [out |-> m, left |-> m]
Drain_KeepsOne(m) ==
  LET kept == IF Flows(m) = {} THEN {} ELSE {CHOOSE k \in Flows(m) : TRUE}
  IN  [out  |-> [k \in Key |-> IF k \in kept THEN {} ELSE m[k]],
       left |-> [k \in Key |-> IF k \in kept THEN m[k] ELSE {}]]
Drain(m) == [out |-> m, left |-> NoFlows]

-----------------------------------------------------------------------------
(* The capture thread.                                                     *)

(* The drain is due; the mutant waits one tick too long.                   *)
DrainDue_Late == elapsed > INTERVAL
DrainDue == elapsed >= INTERVAL

SkipDrain ==
  /\ capPc = "check" /\ ~DrainDue
  /\ capPc' = "poll" /\ polled' = 0 /\ quiet' = FALSE
  /\ UNCHANGED <<table, elapsed, chan, mainVars, echo, captured, fates>>

(* Drain and send.  send fails when the receiver is gone: the map is lost  *)
(* and the thread returns.                                                 *)
SendDrained ==
  /\ capPc = "check" /\ DrainDue
  /\ Len(chan) < MaxBacklog
  /\ table' = Drain(table).left
  /\ IF mainPc = "exited"
     THEN /\ capPc' = "done"
          /\ lost' = lost \cup Within(Drain(table).out)
          /\ UNCHANGED <<elapsed, polled, quiet, chan>>
     ELSE /\ chan' = Append(chan, Drain(table).out)
          /\ elapsed' = 0 /\ polled' = 0 /\ quiet' = FALSE
          /\ capPc' = "poll"
          /\ UNCHANGED lost
  /\ UNCHANGED <<mainVars, echo, captured, exported, failed, withheld>>

Decodes(p) == KeyOf[p] # NotDecoded
Seen == {captured[i] : i \in 1 .. Len(captured)}

(* next_packet returns a packet of another program; it is recorded if it   *)
(* decodes.                                                                *)
NextPacket(p) ==
  /\ capPc = "poll" /\ p \notin Seen
  /\ captured' = Append(captured, p)
  /\ table' = IF Decodes(p) THEN Record(table, KeyOf[p], p) ELSE table
  /\ capPc' = "check"
  /\ UNCHANGED <<elapsed, polled, quiet, chan, mainVars, echo, fates>>

(* next_packet returns one of the agent's own datagrams.                   *)
NextEcho ==
  /\ capPc = "poll" /\ echo > 0
  /\ echo' = echo - 1
  /\ table' = Record(table, WireKey, Echo)
  /\ capPc' = "check"
  /\ UNCHANGED <<elapsed, polled, quiet, chan, mainVars, captured, fates>>

(* next_packet returns TimeoutExpired, or another error that is only       *)
(* logged.                                                                 *)
NextTimeout ==
  /\ capPc = "poll" /\ polled = TIMEOUT
  /\ capPc' = "check"
  /\ UNCHANGED <<table, elapsed, polled, quiet, chan, mainVars, echo, captured, fates>>

NextError ==
  /\ capPc = "poll"
  /\ capPc' = "check"
  /\ UNCHANGED <<table, elapsed, polled, quiet, chan, mainVars, echo, captured, fates>>

(* The packet parser, or the arithmetic on the timestamp in a debug build, *)
(* panics: the thread unwinds, the table and the sender are dropped.       *)
CapturePanics ==
  /\ capPc = "poll"
  /\ capPc' = "done"
  /\ lost' = lost \cup Within(table)
  /\ table' = NoFlows
  /\ UNCHANGED <<elapsed, polled, quiet, chan, mainVars, echo, captured, exported, failed, withheld>>

(* Time passes.  At the end of the read timeout it does so only if nothing *)
(* waits in the kernel's buffer; the timeout then starts over.             *)
Tick ==
  /\ capPc = "poll"
  /\ \/ polled < TIMEOUT /\ polled' = polled + 1 /\ UNCHANGED quiet
     \/ polled = TIMEOUT /\ echo = 0 /\ polled' = 1 /\ quiet' = TRUE
  /\ elapsed' = IF elapsed < INTERVAL + TIMEOUT THEN elapsed + 1 ELSE elapsed
  /\ UNCHANGED <<capPc, table, chan, mainVars, echo, captured, fates>>

-----------------------------------------------------------------------------
(* The main thread.                                                        *)

(* Mutant: the newest map is taken first.                                  *)
Recv_Newest ==
  /\ mainPc = "recv" /\ chan # <<>>
  /\ batch' = chan[Len(chan)] /\ chan' = SubSeq(chan, 1, Len(chan) - 1)
  /\ mainPc' = "prepare"
  /\ UNCHANGED <<capVars, echo, captured, fates>>

Recv ==
  /\ mainPc = "recv" /\ chan # <<>>
  /\ batch' = Head(chan) /\ chan' = Tail(chan)
  /\ mainPc' = "prepare"
  /\ UNCHANGED <<capVars, echo, captured, fates>>

(* for flow_map in rx ends when the channel is empty and the sender gone.  *)
Disconnected == capPc = "done"

MainExits ==
  /\ mainPc = "recv" /\ chan = <<>> /\ Disconnected
  /\ mainPc' = "exited"
  /\ UNCHANGED <<capVars, chan, batch, echo, captured, fates>>

(* run_flush has nothing to do; the mutant is off by one.                  *)
NothingToFlush_OffByOne(m) == Cardinality(Flows(m)) <= 1
NothingToFlush(m) == Flows(m) = {}

Filtered(m) == [k \in Key |-> IF IsSelfExport(k) THEN {} ELSE m[k]]

(* Filter out the self export; what is left goes to run_flush.             *)
Prepare ==
  /\ mainPc = "prepare"
  /\ batch' = Filtered(batch)
  /\ withheld' = withheld \cup UNION {batch[k] : k \in {x \in Key : IsSelfExport(x)}}
  /\ mainPc' = IF NothingToFlush(Filtered(batch)) THEN "recv" ELSE "flush"
  /\ UNCHANGED <<capVars, chan, echo, captured, exported, failed, lost>>

(* Exporter::flush sends the next datagram, with some of the records left; *)
(* an error is remembered but does not stop the loop.  A datagram that is  *)
(* sent may come back through the capture.                                 *)
SendDatagram(S) ==
  LET sent == UNION {batch[k] : k \in S}
  IN  /\ mainPc = "flush"
      /\ batch' = [k \in Key |-> IF k \in S THEN {} ELSE batch[k]]
      /\ mainPc' = IF Flows(batch) = S THEN "recv" ELSE "flush"
      /\ \/ /\ exported' = exported \cup sent
            /\ echo' \in {echo, IF echo < MaxEcho THEN echo + 1 ELSE echo}
            /\ UNCHANGED failed
         \/ /\ failed' = failed \cup sent
            /\ UNCHANGED <<exported, echo>>
      /\ UNCHANGED <<capVars, chan, captured, withheld, lost>>

-----------------------------------------------------------------------------

Init ==
  /\ capPc = "check" /\ table = NoFlows /\ elapsed = 0 /\ polled = 0 /\ quiet = FALSE
  /\ chan = <<>>
  /\ mainPc = "recv" /\ batch = NoFlows
  /\ echo = 0
  /\ captured = <<>>
  /\ exported = {} /\ failed = {} /\ withheld = {} /\ lost = {}

CaptureStep ==
  \/ SkipDrain \/ SendDrained
  \/ \E p \in Packet : NextPacket(p)
  \/ NextEcho \/ NextTimeout \/ NextError

MainStep ==
  \/ Recv \/ Prepare \/ MainExits
  \/ \E S \in (SUBSET Flows(batch)) \ {{}} : SendDatagram(S)

Stopped == mainPc = "exited" /\ capPc = "done" /\ UNCHANGED vars

Next == CaptureStep \/ CapturePanics \/ Tick \/ MainStep \/ Stopped

(* Both threads keep being scheduled, next_packet returns what waits in    *)
(* the kernel's buffer, and time goes on however often next_packet returns *)
(* at once.  At a silent interface it need not return.                     *)
Fairness ==
  /\ WF_vars(SkipDrain \/ SendDrained \/ NextEcho) /\ WF_vars(MainStep)
  /\ SF_vars(Tick)

Spec == Init /\ [][Next]_vars /\ Fairness

-----------------------------------------------------------------------------

AnyPacket == Packet \cup {Echo}
Of(k) == {p \in Packet : KeyOf[p] = k} \cup (IF k = WireKey THEN {Echo} ELSE {})
IsFlowMap(m) == m \in [Key -> SUBSET AnyPacket] /\ \A k \in Key : m[k] \subseteq Of(k)

(* Types; in a flow map every packet is filed under its own key.           *)
TypeOK ==
  /\ capPc \in {"check", "poll", "done"} /\ mainPc \in {"recv", "prepare", "flush", "exited"}
  /\ elapsed \in 0 .. INTERVAL + TIMEOUT /\ polled \in 0 .. TIMEOUT /\ quiet \in BOOLEAN
  /\ echo \in 0 .. MaxEcho
  /\ IsFlowMap(table) /\ IsFlowMap(batch)
  /\ chan \in Seq([Key -> SUBSET AnyPacket])
  /\ \A i \in 1 .. Len(chan) : IsFlowMap(chan[i])
  /\ captured \in Seq(Packet)
  /\ exported \subseteq AnyPacket /\ failed \subseteq AnyPacket
  /\ withheld \subseteq AnyPacket /\ lost \subseteq AnyPacket

(* Where a packet of another program can be.                               *)
Queued == UNION {Within(chan[i]) : i \in 1 .. Len(chan)}
Processed == exported \cup failed \cup withheld
Settled == Processed \cup lost

(* No packet is dropped and none is counted twice on its way through both  *)
(* threads: what next_packet returned and decode_packet accepted is in     *)
(* exactly one of the table, one queued map, the batch in hand, or one of  *)
(* the four final sets (flow.rs drain, main.rs:54-62, exporter.rs:50-55).  *)
Accounted ==
  LET places == <<Within(table), Queued, Within(batch), exported, failed, withheld, lost>>
  IN  /\ \A i, j \in 1 .. 7 : i # j => places[i] \cap places[j] \subseteq {Echo}
      /\ \A i, j \in 1 .. Len(chan) :
           i # j => Within(chan[i]) \cap Within(chan[j]) \subseteq {Echo}
      /\ {p \in Seen : Decodes(p)} = (UNION {places[i] : i \in 1 .. 7}) \ {Echo}

(* Windows are exported first in, first out: a packet is not exported while *)
(* an earlier one of the same flow still waits, so the two are handed to   *)
(* the socket in the order of capture or in one record (main.rs:54).       *)
WindowsInOrder ==
  \A i, j \in 1 .. Len(captured) :
    i < j /\ Decodes(captured[i]) /\ KeyOf[captured[i]] = KeyOf[captured[j]]
          /\ captured[j] \in Processed
    => captured[i] \in Processed

(* The agent's own export never becomes a record of the exported stream    *)
(* (flow.rs:39-41).                                                        *)
NoSelfExport == Echo \notin exported \cup failed

(* However packets, timeouts and errors interleave, a drain that is due is *)
(* late by less than one read timeout, unless next_packet waits at an      *)
(* interface that has been silent for a whole one; then it takes place as  *)
(* soon as anything is returned (capture.rs:30, 34-39, 63).                *)
DrainDeadline == capPc # "done" => elapsed < INTERVAL + TIMEOUT \/ quiet

(* When the capture thread dies only its current window goes with it: what *)
(* is lost is the last stretch of the capture, so no map that was already  *)
(* queued and no batch in hand (main.rs:54).                               *)
OnlyTailLost ==
  \A i, j \in 1 .. Len(captured) :
    i < j /\ captured[i] \in lost /\ Decodes(captured[j]) => captured[j] \in lost

(* The process does not end with anything left over: whatever the capture  *)
(* thread recorded before it died, in maps still queued at that moment or  *)
(* in a flush under way, has been sent, refused or withheld by the time    *)
(* main returns, if it was not lost with the table (main.rs:54-63).        *)
NothingLeftBehind ==
  mainPc = "exited" => {p \in Seen : Decodes(p)} = Settled \ {Echo}

(* Every packet that was recorded gets its final fate: exported, failed,   *)
(* withheld, or lost with the capture thread.  The one exception is a      *)
(* packet in the table of a thread that never returns from next_packet     *)
(* again, at an interface that stays silent (capture.rs:34-41).            *)
EverythingSettles ==
  \A p \in Packet :
    p \in Seen /\ Decodes(p) ~>
      \/ p \in Settled
      \/ [](capPc = "poll" /\ quiet /\ p \in Within(table))

(* No feedback: once the other programs are silent the agent falls silent  *)
(* too; its own datagrams do not keep it exporting for ever.               *)
QuietWhenIdle == <>[](mainPc # "flush")
=============================================================================
