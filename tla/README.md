# Formal model of sniffnet-agent

sniffnet-agent captures packets on one interface, adds them up per flow, and
exports the flows as IPFIX over UDP to a collector. This directory holds TLA+
models of it, the TLC runs that check them, and TLAPS proofs about them. Paths
are relative to the repository's root, which is `src/` here (so the code is
`src/src/*.rs`).

## The system

One process, two threads, one unbounded `mpsc` channel:

```
 kernel -> next_packet -> decode_packet -> FlowTable      capture thread (capture.rs run)
                                             | drain, every 900 ms
                                             v
                                          channel         main.rs:45
                                             v
 is_self_export filter -> with_direction -> run_flush     main thread (main.rs:54-62)
                                             v
                 Exporter::flush -> build_datagrams -> UDP socket -> collector
                                                          |
                              own datagrams come back through the capture
```

| Component | State | Operations | What makes it correct |
|---|---|---|---|
| Capture thread (`capture.rs`) | the flow table, `last_drain` | drain and send, `next_packet` with its three outcomes | drains on time; nothing recorded twice or dropped in the hand-off |
| Flow table (`flow.rs`) | `inner`: key to value | `record`, `drain` | one entry per key; after a drain the table is empty and the map complete |
| Channel | queued maps | `send`, iteration | FIFO; ends when the sender is gone, and only then |
| Main thread (`main.rs`) | the map in hand | receive, filter, annotate, `run_flush` | own traffic withheld, nothing else withheld; queued maps exported even if the capture thread died |
| Direction (`direction.rs`) | none (a snapshot of the addresses per flush) | `get_direction`, `interface_addresses` | rests on evidence no older than the flow; one view for the two ways of a conversation |
| Exporter (`exporter.rs`) | `seq`, `last_template_send` | `flush` | a failed datagram does not stop the others; sequence numbers continue; templates are repeated |
| Encoder (`ipfix/encode.rs`) | locals of one call | `build_datagrams`, `pack_set`, `take_records` | within the MTU; every record once, in order; honest length and sequence fields; always terminates |
| Templates (`ipfix/template.rs`) | constant tables | `write_template_set` | they describe the records that are written |
| Command line (`cli.rs`) | locals of the prompts | `resolve`, the two prompts | asks only what is missing and only at a terminal; the interface is the one that was meant |
| Logger (`logger.rs`) | a flag | `log` | (not modelled) |

Hard to test, and so what the properties are about: the hand-off between the
threads at any moment, the death of the capture thread with maps still queued,
datagrams that fail in the middle of a flush, the agent capturing its own
export (feedback), the time between drains under every mixture of packets,
timeouts and errors, the boundary arithmetic of the encoder, what a collector
can make of sequence numbers and templates when datagrams are refused, lost or
reordered, and everything that is looked at long before it is used: the
addresses of the interface, the menu of devices. `PROJECT.json` lists each
hazard at its line.

## The modules

### Agent

The two threads and the channel. A flow's value is the set of packets added up
in it, so a flow map is a function from keys to sets of packets. Every packet
of another program is captured at most once and can therefore be followed.

| Action | Code |
|---|---|
| `SkipDrain`, `SendDrained` | top of the loop in `run`: the drain is due or not; `send` fails if the receiver is gone |
| `NextPacket`, `NextEcho` | `Ok(packet)`: another program's packet (it may not decode), or one of the agent's own datagrams |
| `NextTimeout`, `NextError` | the other two arms of the match |
| `CapturePanics` | the packet parser or (in a debug build) the timestamp arithmetic panics: table and sender are dropped |
| `Tick` | time passing inside `next_packet`; at the end of the read timeout only if nothing waits in the kernel's buffer |
| `Recv`, `MainExits` | `for flow_map in rx` |
| `Prepare` | filter, direction, entry of `run_flush` with its early return |
| `SendDatagram(S)` | one turn of the send loop in `Exporter::flush`, with the records `S`; it fails or it succeeds, and if it succeeds it may be captured again |

Which records share a datagram is left open: any non-empty part of the batch
(that a datagram is never empty is `EveryMessageProgresses` of Encoder). The
variables `captured`, `exported`, `failed`, `withheld`, `lost` and `quiet` are
history; no guard reads them, but that a packet is captured once.

The key of the agent's own datagrams as captured (`WireKey`) is a constant
beside the collector's configured address, because the two need not agree: see
the finding below.

Simplifications. Time passes only inside `next_packet`; the code between two
calls takes none, so `DrainDeadline` bounds what the loop adds, not the cost of
a flush (which runs in the other thread). Packets dropped by the kernel's
buffer were never returned and are not in the model. Killing the process is not
modelled: everything is in memory and there is nothing to recover. The drain is
blocked at `MaxBacklog` queued maps, where the code's channel goes on growing;
the proofs hold for every `MaxBacklog`, and Backlog says how far it grows.

The read timeout (`timeout(150)`, `capture.rs:63`) is libpcap's, which returns
at its end what waits in the kernel's buffer, but promises no return where
nothing does: on Linux with TPACKET_V3 it waits on. So when the timeout expires
`next_packet` may return `TimeoutExpired`, and if there is nothing to return it
may also start the timeout over. `quiet` remembers that this has happened in
the current call. The drain of what is in the table is then put off until the
next packet, and for ever if none comes; `DrainDeadline` and
`EverythingSettles` except exactly this case, and without the exception TLC
finds it.

### Encoder

One call of `build_datagrams` as a state machine: `Call` (partition by family),
then per datagram `OpenMessage`, `PackSet("v4")`, `PackSet("v6")`,
`CloseMessage`, and at last `Return`. Records are named by their position in
the two lists, so a datagram is two slices; the bytes of a record are
represented by their number. `TakeRecords` is `take_records` with its
saturating subtractions and its cap at `u16::MAX`. There is no concurrency
here; what is hard is the arithmetic at the boundaries.

### Ledger and AgentLedger

`Ledger` is what the agent promises without threads, maps, channel and
datagrams: packets are logged, stay pending, and meet one fate each, in the
order of their flow; when capturing ends early the newest are lost.
`AgentLedger` instantiates it over Agent: `log` is `captured`, `closed` is the
end of the capture thread, and a pending packet is one that is in the table, in
the channel or in hand. The agent's own datagrams, which Agent calls `Echo`,
are taken out of every set. Which keys are withheld is stated once more, as
`flow.rs:39-41` words it (`CollectorTraffic`), so that the refinement checks the
filter in both directions: nothing for the collector is exported and nothing
else is held back. `SkipDrain`, `SendDrained`, `Recv`, `Tick` and the
like are stutters of the ledger, `NextPacket` is `Capture`, `SendDatagram(S)`
is `Export(S)`, `Prepare` is `Withhold`, and `CapturePanics` is `Close`.

### Packing, EncoderContract and Wire

`Packing` is the contract between `build_datagrams` and its caller:
a batch is cut into consecutive, non-empty stretches, numbered from the start,
the templates in the first. `EncoderContract` views the result of Encoder
through it (`PackingAsPromised`), and `Exporter` is built on the contract alone.

`Wire` runs Encoder with the words it writes: the message header,
`write_template_set` from the two tables of `template.rs`, the set headers, and
each record in the order of `write_record` and `write_common_tail`. A word is a
value and a width. Its properties read the words back as a collector does, with
the template in hand. Encoder is free to choose the five lengths; Wire fixes
them to those of `mod.rs` and `template.rs` (`WireAssumption`), and says of a
flow only which fields it has and which may be missing. The split of a word
into big-endian bytes is left out.

### Exporter

`Exporter` follows `flush` through many calls, the datagrams through the
network, and a collector that reads them.

| Action | Code |
|---|---|
| `FlushNothing` | `flush(&[])`: the early return |
| `Flush(count, c)` | template decision, `build_datagrams` cut at `c`, the new sequence number, and the refresh, all before a datagram is sent |
| `Send`, `SendFails` | one turn of the loop over the datagrams |
| `Return` | the end of the loop: `last_err` decides the result |
| `Tick` | time; clocks stop at `REFRESH`, as nothing distinguishes later times |
| `Lose`, `Reorder`, `Duplicate` | UDP |
| `Receive`, `Restart` | the collector of `exporter.rs:45-46`: it compares the number in a datagram with the one it expects, remembers templates, and may be restarted. It is no code of this repository |

Records are numbered in the order in which they are handed over, so a datagram
is an interval `lo`, `hi`. `calm` and `steady` are history: the time since the
last disturbance, and whether a datagram was flushed after a whole refresh
period without one.

### FlowTable

The numbers of `FlowTable::record` and `drain`, with `decode_packet` and the
timestamp of `run`. `Record(p)` merges (`Merge`) or creates an entry,
`Ignore(p)` is a packet that does not decode, `Drain` is `mem::take`. `window`
keeps the packets of each key since the last drain and `sum` their bytes
without a limit, so that the properties compare an entry with the packets and
not with another copy of the merge. `U64MAX`, `SEC` and `MSEC` are constants so
that saturation and rounding happen within a few packets. `ether_type`, which
is determined by the key, and `direction`, which is set later, are left out.

### Direction

`get_direction` and `interface_addresses`, and the delay before they are used.
`Record(k)` and `Drain` are the capture thread, `Recv` takes a map and the one
snapshot of the addresses (or none, if listing fails), `Label(k)` is the filter
and `with_direction` for a flow of the map, in any order, and
`Reconfigure(list)` changes what `Device::list` returns. The device lists there
have been are kept, and each flow carries the index of the list at its first
packet; so "no older than the flow" can be said.

### Startup

From `Args::parse` to the spawned thread. `ParseArgs` runs clap's value
parsers, `ResolveInterface`, `AnswerMenu`, `ResolveCollector`, `AnswerAddress`
and `ReadFails` are `resolve` and the two prompts with their loops, `Launch` is
`connect`, `open` and `spawn`, each of which may fail; `Plug` changes the
devices at any time. Exit codes are 2 for what clap and `require_tty` refuse,
0 for `--help` and `--version`, and 1 for the rest. What clap refuses besides a
bad interface or collector, an unknown option or an `--odid` that is no u32, is
`well_formed`. A line typed is a number that may be a choice, a
collector's address, or neither.

### Backlog

The length of the channel alone: `Check` and `Polled` are the capture thread,
`Recv(work)` takes a map, `Tick` is time. It answers what Agent cannot, because
Agent blocks the drain at `MaxBacklog`. Nothing in `main.rs:54-62` bounds the
time for a map: flows, `Device::list` and sends take what they take, and the
main thread may be ready to receive and not be scheduled. So a map may need any
`work`, and a tick may pass with a map waiting and nothing done. `behind` is
history, it adds this up: what a map needs beyond the interval, and the time
spent waiting; a map that needs less makes up for it. `BacklogIsTimeBehind`
says that the channel holds no more than that accounts for. How far it grows is
therefore a matter of the load: the code sets no limit, and the model none but
its bounds.

### Proof and MC modules

`EncoderProofs`, `WireProofs`, `AgentProofs`, `ExporterProofs`,
`FlowTableProofs`, `DirectionProofs`, `StartupProofs` and `BacklogProofs`
extend the modules they are named after; `AgentProofs` also holds the proofs
about `AgentLedger`, and `EncoderProofs` those about `EncoderContract`. `MCAgent`, `MCEncoder` and so on give
the constants their values for TLC.

## The runs

| Run | Shows | Bounds |
|---|---|---|
| `encoder` | types, `FitsMTU`, `LengthHonest`, `SequenceIsCumulative`, `RecordsPartitioned`, `EveryMessageProgresses`, `TemplateFirstOnly`, `V4BeforeV6`, `NoEarlySplit`, `PackingAsPromised` | the code's own MTU and sizes; 0-2, 12-20 and 37-39 records per family, that is, on both sides of where one, two and three datagrams fill up (19 v4 or 13 v6 records fill one; 17 or 12 next to the template); sequence numbers modulo 64, started at 0 and 5 before the wrap |
| `agent` | types, `Accounted`, `WindowsInOrder`, `NoSelfExport`, `DrainDeadline`, `OnlyTailLost`, `NothingLeftBehind` | three packets of two flows, one to the collector's host but another port, the other of another host's exporter to the same collector; drain every 3 ticks, read timeout 2; two queued maps, one own datagram in the kernel's buffer |
| `agent_live` | `EverythingSettles`, `QuietWhenIdle` | three packets: one to a server, one of another host's exporter to the same collector, one that does not decode; drain every 2 ticks, timeout 1 |
| `agent_mapped` | `NoSelfExport` is violated for an IPv4-mapped collector address | as `agent`, drain every 2 ticks |
| `agent_ledger` | `ImplementsLedger`: Agent refines Ledger | as `agent`, drain every 2 ticks, timeout 1 |
| `exporter` | types, `LossVisible`, `DecodableAfterCalm`, `ResultHonest` | flushes of 0, 1 and 3 records in every cut, 5 records in all; sequence numbers modulo 3; a refresh every 2 ticks; three datagrams in flight |
| `exporter_sent` | `CountsRecordsSent` is violated by a refused datagram | as `exporter` |
| `flow_table` | types, `CountersExact`, `SeenTimesExtreme`, `FirstKnownKept` | six packets, of two flows and one that does not decode; five packets in a window; counters saturate at 4 |
| `direction` | types, `LabelNotStale`, `NeverAGuess`, `OneViewPerMap` | both ways of a conversation, a loopback flow, a DHCP request and the agent's own export, three at a time; five device lists, one change; Ethernet and the "any" device |
| `wire` | `LengthsMeasured`, `RecordsReadBack` | the code's sizes; 0, 1, 3, 13 and 18 records per family, each field of each record with a value of its own or missing; elements by their IANA numbers |
| `startup` | types, `MenuIsWhatYouGet`, `UnattendedStartEnds` | two interfaces that come, go and change places, one name that never exists, one collector; a command line clap takes, refuses or answers with help |
| `backlog` | types, `BacklogIsTimeBehind` | 6 ticks between drains, a drain up to 2 ticks late, a map of up to 20 ticks of work, up to 20 ticks behind |

Why the bounds are enough: two packets of one flow and one of another are what
it takes for two windows of one flow to exist at once, to be reordered, or to
be split by a failing datagram; two queued maps and a third in hand are the
least that a receiver could take in the wrong order while the table fills
again. The second flow is the collector's, so the filter has something real to
withhold. `MaxEcho` bounds the own datagrams
waiting to be captured, an excess is dropped as the kernel's buffer would.

In `exporter` three records span the whole sequence space, so numbers wrap and
a lost datagram may be a whole turn (which no collector can see, and the
property says so); three datagrams in flight are enough for one without
templates to overtake, lose or outlive the one with them, and a second flush
happens before and after a refresh. In `flow_table` five packets reach the
limit of the counters and go beyond it, and hold every order of an early, a
late and an equal timestamp. In `direction` one change of the device list is
enough for a snapshot to be older than a flow, or between the two ways of a
conversation; a second one adds no relation between the two. In `startup` two
interfaces are the least whose order can change under the menu. In `wire` 13
v6 or 18 v4 records, with and without the templates, lie on both sides of a
full datagram. In `backlog` a map that takes three intervals, or a stall as long,
lets maps pile up, and quicker ones work them off.

Apart from liveness, every property is also proved without bounds.

Fairness. `WF(SkipDrain \/ SendDrained \/ NextEcho)` and `WF(MainStep)`: the
operating system schedules both threads, and `next_packet` returns what waits
in the kernel's buffer. `SF(Tick)`: the clock advances however busy the
interface is; weak fairness would not do, for the thread leaves `next_packet`
between any two ticks. Nothing is assumed of arriving packets, of errors, of
panics, nor that `next_packet` ever returns at a silent interface. `Stopped` is the end of the process,
so TLC's deadlock check stays on. `Startup` has `WF(Proceed)`: the process goes
on by itself where it does not wait for a user, and no user owes it an answer;
so `UnattendedStartEnds` is claimed without a terminal only, and there rests on
`require_tty`.

`QuietWhenIdle` is the absence of feedback: there are finitely many packets of
other programs, so if the agent's own datagrams do not keep it busy, flushes
stop.

## Proofs

All theorems are about every value of the constants that satisfies the modules'
`ASSUME`s. For the encoder that assumption is the compile-time assertion of
`encode.rs:27`, positive record sizes with the v4 record no larger than the v6
one, and that the sizes are u16 values; for the agent it says only that the
agent's own datagram is not a packet of another program, and that intervals
and bounds are numbers; for the flow table that packets have the fields the
parser gives them, lengths fit a u64 and the kernel's clock is not corrupt; for
directions that a loopback address is not the unspecified one; for start-up
that a menu is a list of names; for the backlog nothing but that intervals and
bounds are numbers; for the bytes of a message the five lengths and the fields of a flow.
So the bounds of the runs play no part.

Encoder (`EncoderProofs`), one invariant on top of the other:

1. `TypeOK /\ Consumed`: indices stay within their lists, so `flows.len() - *idx` cannot underflow.
2. `Layout`: at every point of the loop `msg_len` is the number of bytes written, and at most the MTU. `FitsMTU` and `LengthHonest` follow. It rests on `TakeRecordsBounds`, what the division in `take_records` guarantees.
3. `Ordered`: needed because `EveryMessageProgresses`, `V4BeforeV6` and `NoEarlySplit` speak of finished datagrams only. It says what is known between the two sets: if a v4 record was owed one went in, and if one is still owed there is less room left than a v4 record needs, hence none for a v6 set either. This is where `RECORD_SIZE_V4 <= RECORD_SIZE_V6` is used.
4. `Streamed`: `lo` of the message is where the last datagram ended, and `seq` is the start plus that many records. `ModAdd` (wrapping addition is associative) carries it through `CloseMessage`. `SequenceIsCumulative`, `RecordsPartitioned` and `TemplateFirstOnly` follow.

`FewestDatagrams` says that greedy packing is optimal: whatever cut of the batch
keeps its order and the MTU, `build_datagrams` does with as few datagrams.
`NoCutIsAhead` is the argument: after k datagrams no other cut has sent more,
by induction on k, because a datagram that ends early cannot take the next
record (`NoEarlySplit`) and one with more records is longer (`BytesMono`). It
keeps the order of the list; mixing the families, a batch with few v4 and very
many v6 records could be packed a little tighter. `Reached` carries the order
of the list through the loop. The theorem ranges over all cuts and is not a
property of a run.

Agent (`AgentProofs`):

1. `TypeOK`, with every packet filed under its own key in every map.
2. `InTime`: inside `next_packet`, `elapsed < INTERVAL + polled` unless `quiet`; gives `DrainDeadline`.
3. `ReceiverOutlivesSender`, inductive as it stands, is a lemma: `send` never fails.
4. `FilterInv`: what was exported or failed belongs to a key the filter does not match, what was withheld to one it does. `NoSelfExport` follows *if* the filter matches the key of the agent's own datagrams, and that hypothesis is part of the theorem `SelfExportFiltered`.
5. `Located`: `Accounted` written out pairwise, with "the map in hand is empty whenever the main thread waits".
6. `OrderInv`: for any two recorded packets, if the earlier one is still in the table so is the later; if they are of one flow the earlier is never behind the later in the pipeline. `WindowsInOrder` and `OnlyTailLost` follow.
7. `Emptied`: a thread that has ended has left nothing where it worked. With `Located` and `ReceiverOutlivesSender` it gives `NothingLeftBehind`, the safe half of `EverythingSettles`.

One result has no run of its own. `EachFateOnce` is an action property: no step
changes what became of a packet; it follows from `Located` and from fates that
only grow.

Agent implements Ledger (`AgentImplementsLedger`): `PendingIs` says where the
pending packets of the ledger are, from `Located`. The initial states map, and
each action maps to the ledger's action of the table above or to a stutter:
that `SendDatagram` and `Prepare` overtake nothing is `OrderInv`, that
`CapturePanics` loses the newest only is `OrderInv` again (what is in the table
is behind everything else of its flow, and no earlier packet is in it), that
nothing withheld is exported is `FilterInv`, and that the filter withholds what
the ledger does is `FilterIsLedgers`.

Encoder's contract (`KeepsPackingContract`): adds the two families up, from the
invariants above. It is what `Exporter` takes `build_datagrams` for.

Wire (`WireProofs`): `WireImplementsEncoder` says that what is written refines
what is counted, so the theorems above hold of it. `Written` is inductive with
`Layout`: the sets written so far are those of the account `buf` (`SetsOf`),
and each finished message is its account written out (`Finished`). Then
`LengthsMeasured` and `RecordsReadBack` are facts about `SetsOf`, without steps:

1. `Sum` is a recursive function. What it gives for every sequence needs induction on the length, and `Induction` proves that principle for sets of numbers from the library's `WFMin` (a set of naturals has a least element); so no theorem with an operator parameter is instantiated.
2. `WidthOfRecord`: every record of a family is as wide as its constant says, whatever is in it; `SizeOfTemplateSet`, `SizeOfDataSet`, `SizeOfSets` add up from there, and meet `Bytes` of Encoder.
3. `WordOfField` and `RecordReadsBack`: each of the fourteen fields has its element in one place of the template, and the word written there is the value of the field. `HoldingSetsOf`: a message has one set of a family if the account has records of it, else none.

Exporter (`ExporterProofs`), by the invariant `IInv`:

1. `TypeOK /\ NoneEmpty`; `FlushBuilds` unfolds what `Packed` makes of a cut.
2. `Numbered`: every datagram carries `lo` modulo the sequence space, and `expected` is `top` modulo it. `WrapAdd` and `WrapSub` (wrapping addition and subtraction of the numbers agree with those of what they count) carry it through every step.
3. `Chained`: what is on the line (in the network, then still to be sent) follows what was received and is in order, until the network reorders or duplicates. `LineSteps` says what each action does to the line: nothing, take the first away, drop one, or add at the end. `LossVisible` follows at `Receive`.
4. `Honest`: `last_err` is set exactly when records were refused in this flush; with `Idle`, `ResultHonest` follows.
5. `OnTheWay`: if the templates went out since the last disturbance they are on the line or at the collector, and a steady datagram has them in front of it. `DecodableAfterCalm` alone is not inductive, because it does not speak of datagrams that are not yet sent, nor of templates due later.

FlowTable (`FlowTableProofs`): `Counted` and `Observed` are inductive with the
types. Besides the properties they say that a window without packets has no
bytes. `SatAddCapped` shows that saturating packet by packet is saturating the
total, `Timestamp` and `QuotientMono` that the extremes of the milliseconds are
those of the microseconds, `AdoptFirst` that adopting one by one keeps the
first known.

Direction (`DirectionProofs`): `Fresh` (the snapshot is no older than any flow of
the map in hand) and `OneSnapshot` (every label follows from the snapshot now
held) are what `LabelNotStale` and `OneViewPerMap` need; `NeverAGuess` follows
from `LabelNotStale`.

Startup (`StartupProofs`): `Origin` and `Resolved` say where the interface came
from at each stage. `PromptsJustified` (`AsksOnlyWhomItMay`), `StartsAsTold` (when the
threads run, `Config` is complete and as given) and `StartMovesForward` are
proved and not run. The last is an action property: no step goes back a stage,
and without a terminal each step of the process leads to a later one; given
fairness that is `UnattendedStartEnds`, whose other half, that some step is
always enabled, stays with TLC.

Backlog (`BacklogProofs`): `BacklogIsTimeBehind` is inductive with the types,
each queued map standing for one interval of delay. `KeepsUp` is what it comes
to for a main thread that is less than an interval behind: one map waits at
most, and none while another is worked on if it is not behind at all.

Only model-checked: the liveness properties `EverythingSettles`,
`QuietWhenIdle` and `UnattendedStartEnds`, as fairness is out of the prover's
reach.

## Findings

`agent_mapped`: `flow.rs:39-41` says that flows to the collector's address and
port are filtered out "so they don't appear in the exported stream". The filter
compares the captured destination with `collector.ip()` as `IpAddr` values. For
a collector given as `[::ffff:a.b.c.d]:port` the socket of `Exporter::connect`
is a dual-stack IPv6 socket, the kernel sends IPv4 packets, and these are
captured with an `IpAddr::V4` destination, which never equals the configured
`IpAddr::V6`. The agent then exports its own export, and since every datagram
that reports the previous one is captured in turn, it does so for ever.

`exporter_sent`: `encode.rs:13-14` says the sequence number is the "cumulative
count of Data Records sent on the stream". It counts the records handed to
`build_datagrams`, those of datagrams the socket refused included, as
`exporter.rs:45-47` says it should: "Advance the sequence number
unconditionally". The behaviour is the better one, `LossVisible` rests on it;
it is the sentence in `encode.rs` that does not hold.

## Not modelled

- The logger: output only, nothing depends on it. Build, packaging and CI.
- The packet parser and libpcap beyond the outcomes `run` and `decode_packet` distinguish.
- The bytes inside a word, and `unix_seconds` in the message header.
- `ether_type` in FlowTable (it goes with the key) and the text of prompts and messages.
- A timestamp before 1970. `capture.rs:45` overflows on it: in a debug build that is a panic, which is `CapturePanics`; what a release build makes of it is excluded by the assumption of FlowTable.
- Devices that fail for ever: the loop then spins (`capture.rs:52`). Agent allows it and drains go on; that it should stop is promised nowhere.
- Killing the process: everything is in memory and there is nothing to recover.

## What is left

1. A collector that withdraws templates by itself after a time, as a further disturbance of Exporter.
2. One composition of Agent and Exporter, in which a batch in hand is the batch of a flush; now they share the contract only.
