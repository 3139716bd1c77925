---------------------------- MODULE AgentProofs ----------------------------
(***************************************************************************)
(* Proofs about the two threads and the channel, for every set of packets, *)
(* every assignment of keys, every collector and every pair of intervals.  *)
(***************************************************************************)
EXTENDS AgentLedger, TLAPS

-----------------------------------------------------------------------------
(* Flow maps.                                                              *)

(* Keys are those of packets that decode, and the agent's own.             *)
LEMMA KeyFacts ==
  /\ WireKey \in Key
  /\ \A p \in Packet : Decodes(p) => KeyOf[p] \in Key
  /\ \A k \in Key : Of(k) \subseteq AnyPacket
  /\ Echo \in Of(WireKey)
  /\ \A p \in Packet : p \in Of(KeyOf[p])
  BY DEF Key, Decodes, Of, AnyPacket

(* FlowTable::new is a flow map.                                           *)
LEMMA NoFlowsIsFlowMap == IsFlowMap(NoFlows)
  BY DEF IsFlowMap, NoFlows

(* Recording a packet under its own key keeps a flow map.                  *)
LEMMA RecordIsFlowMap ==
  ASSUME NEW m, IsFlowMap(m), NEW k \in Key, NEW p \in Of(k)
  PROVE  IsFlowMap(Record(m, k, p))
  BY KeyFacts DEF IsFlowMap, Record

(* Taking flows out of a map, whichever ones, leaves a flow map.           *)
LEMMA ReducedIsFlowMap ==
  ASSUME NEW m, IsFlowMap(m), NEW S
  PROVE  IsFlowMap([k \in Key |-> IF k \in S THEN {} ELSE m[k]])
  BY DEF IsFlowMap

(* So does the self-export filter.                                         *)
LEMMA FilteredIsFlowMap ==
  ASSUME NEW m, IsFlowMap(m)
  PROVE  IsFlowMap(Filtered(m))
  BY DEF IsFlowMap, Filtered

(* A flow map holds packets.                                               *)
LEMMA WithinType ==
  ASSUME NEW m, IsFlowMap(m)
  PROVE  Within(m) \subseteq AnyPacket
  BY DEF IsFlowMap, Within

(* The union of some flows of a flow map.                                  *)
LEMMA PartType ==
  ASSUME NEW m, IsFlowMap(m), NEW S, S \subseteq Key
  PROVE  UNION {m[k] : k \in S} \subseteq AnyPacket
  BY DEF IsFlowMap

(* The flows of a map are keys.                                            *)
LEMMA FlowsInKey == \A m : Flows(m) \subseteq Key
  BY DEF Flows

-----------------------------------------------------------------------------
(* Types.                                                                  *)

(* The types hold when the threads start.                                  *)
LEMMA TypesInit == Init => TypeOK
<1> SUFFICES ASSUME Init PROVE TypeOK
  OBVIOUS
<1>1. IsFlowMap(table) /\ IsFlowMap(batch)
  BY NoFlowsIsFlowMap DEF Init
<1>2. chan \in Seq([Key -> SUBSET AnyPacket]) /\ captured \in Seq(Packet) /\ Len(chan) = 0
  BY DEF Init
<1>3. 0 \in 0 .. TIMEOUT /\ 0 \in 0 .. INTERVAL + TIMEOUT /\ 0 \in 0 .. MaxEcho
  BY AgentAssumption
<1>4. capPc = "check" /\ mainPc = "recv" /\ elapsed = 0 /\ polled = 0 /\ quiet \in BOOLEAN /\ echo = 0
  BY DEF Init
<1>5. exported = {} /\ failed = {} /\ withheld = {} /\ lost = {}
  BY DEF Init
<1> QED BY <1>1, <1>2, <1>3, <1>4, <1>5 DEF TypeOK

(* The capture thread's steps preserve the types.                          *)
LEMMA TypesCapture ==
  ASSUME TypeOK, CaptureStep \/ CapturePanics \/ Tick
  PROVE  TypeOK'
<1> USE DEF TypeOK
<1>0. Within(table) \subseteq AnyPacket
  BY WithinType
<1>1. CASE SkipDrain
  <2>1. 0 \in 0 .. TIMEOUT
    BY AgentAssumption
  <2> QED BY <1>1, <2>1 DEF SkipDrain, mainVars, fates
<1>2. CASE SendDrained
  <2>1. Drain(table).out = table /\ Drain(table).left = NoFlows
    BY DEF Drain
  <2>2. IsFlowMap(table')
    BY <1>2, <2>1, NoFlowsIsFlowMap DEF SendDrained
  <2>3. CASE mainPc = "exited"
    BY <1>0, <1>2, <2>1, <2>2, <2>3 DEF SendDrained, mainVars
  <2>4. CASE mainPc # "exited"
    <3>1. chan' = Append(chan, table) /\ table \in [Key -> SUBSET AnyPacket]
      BY <1>2, <2>1, <2>4 DEF SendDrained, IsFlowMap
    <3>2. chan' \in Seq([Key -> SUBSET AnyPacket])
      BY <3>1
    <3>3. \A i \in 1 .. Len(chan') : IsFlowMap(chan'[i])
      <4> TAKE i \in 1 .. Len(chan')
      <4>1. (i \in 1 .. Len(chan) /\ chan'[i] = chan[i]) \/ chan'[i] = table
        BY <3>1
      <4> QED BY <4>1
    <3>4. 0 \in 0 .. TIMEOUT /\ 0 \in 0 .. INTERVAL + TIMEOUT
      BY AgentAssumption
    <3> QED BY <1>2, <2>2, <2>4, <3>2, <3>3, <3>4 DEF SendDrained, mainVars
  <2> QED BY <2>3, <2>4
<1>3. ASSUME NEW p \in Packet, NextPacket(p) PROVE TypeOK'
  <2>1. IsFlowMap(table')
    BY <1>3, KeyFacts, RecordIsFlowMap DEF NextPacket
  <2> QED BY <1>3, <2>1 DEF NextPacket, mainVars, fates
<1>4. CASE NextEcho
  <2>1. IsFlowMap(table')
    BY <1>4, KeyFacts, RecordIsFlowMap DEF NextEcho
  <2>2. echo' \in 0 .. MaxEcho
    BY <1>4, AgentAssumption DEF NextEcho
  <2> QED BY <1>4, <2>1, <2>2 DEF NextEcho, mainVars, fates
<1>5. CASE NextTimeout
  BY <1>5 DEF NextTimeout, mainVars, fates
<1>6. CASE NextError
  BY <1>6 DEF NextError, mainVars, fates
<1>7. CASE CapturePanics
  BY <1>0, <1>7, NoFlowsIsFlowMap DEF CapturePanics, mainVars
<1>8. CASE Tick
  <2>1. elapsed' \in 0 .. INTERVAL + TIMEOUT
    BY <1>8, AgentAssumption DEF Tick
  <2>2. polled' \in 0 .. TIMEOUT
    BY <1>8, AgentAssumption DEF Tick
  <2>3. quiet' \in BOOLEAN
    BY <1>8 DEF Tick
  <2> QED BY <1>8, <2>1, <2>2, <2>3 DEF Tick, mainVars, fates
<1> QED BY <1>1, <1>2, <1>3, <1>4, <1>5, <1>6, <1>7, <1>8 DEF CaptureStep

(* The main thread's steps preserve the types.                             *)
LEMMA TypesMain ==
  ASSUME TypeOK, MainStep
  PROVE  TypeOK'
<1> USE DEF TypeOK
<1>1. CASE Recv
  <2>1. chan # <<>> /\ batch' = Head(chan) /\ chan' = Tail(chan)
    BY <1>1 DEF Recv
  <2>2. IsFlowMap(batch')
    BY <2>1
  <2>3. chan' \in Seq([Key -> SUBSET AnyPacket])
    BY <2>1
  <2>4. \A i \in 1 .. Len(chan') : IsFlowMap(chan'[i])
    <3> TAKE i \in 1 .. Len(chan')
    <3>1. i + 1 \in 1 .. Len(chan) /\ chan'[i] = chan[i + 1]
      BY <2>1
    <3> QED BY <3>1
  <2> QED BY <1>1, <2>2, <2>3, <2>4 DEF Recv, capVars, fates
<1>2. CASE Prepare
  <2>1. IsFlowMap(batch')
    BY <1>2, FilteredIsFlowMap DEF Prepare
  <2>2. withheld' \subseteq AnyPacket
    <3>1. UNION {batch[k] : k \in {x \in Key : IsSelfExport(x)}} \subseteq AnyPacket
      BY PartType
    <3> QED BY <1>2, <3>1 DEF Prepare
  <2> QED BY <1>2, <2>1, <2>2 DEF Prepare, capVars
<1>3. CASE MainExits
  BY <1>3 DEF MainExits, capVars, fates
<1>4. ASSUME NEW S \in (SUBSET Flows(batch)) \ {{}}, SendDatagram(S) PROVE TypeOK'
  <2>1. IsFlowMap(batch')
    BY <1>4, ReducedIsFlowMap DEF SendDatagram
  <2>2. UNION {batch[k] : k \in S} \subseteq AnyPacket
    BY FlowsInKey, PartType
  <2>3. echo' \in 0 .. MaxEcho
    BY <1>4, AgentAssumption DEF SendDatagram
  <2> QED BY <1>4, <2>1, <2>2, <2>3 DEF SendDatagram, capVars
<1> QED BY <1>1, <1>2, <1>3, <1>4 DEF MainStep

(* Every step of either thread preserves the types.                        *)
LEMMA TypesNext == TypeOK /\ [Next]_vars => TypeOK'
<1> SUFFICES ASSUME TypeOK, [Next]_vars PROVE TypeOK'
  OBVIOUS
<1>1. CASE CaptureStep \/ CapturePanics \/ Tick
  BY <1>1, TypesCapture
<1>2. CASE MainStep
  BY <1>2, TypesMain
<1>3. CASE UNCHANGED vars
  BY <1>3 DEF vars, capVars, mainVars, fates, TypeOK, IsFlowMap
<1> QED BY <1>1, <1>2, <1>3 DEF Next, Stopped

(* Variables keep their types, and in every map, in the table, queued or   *)
(* being exported, each packet is filed under its own key.                 *)
THEOREM TypeCorrect == Spec => []TypeOK
  BY TypesInit, TypesNext, PTL DEF Spec

-----------------------------------------------------------------------------
(* Time.                                                                   *)

(* Inside next_packet at most polled ticks have passed since the drain was *)
(* found not to be due, while the interface has not been silent.           *)
InTime ==
  /\ capPc = "poll" /\ ~quiet => elapsed < INTERVAL + polled
  /\ capPc = "check" /\ ~quiet => elapsed < INTERVAL + TIMEOUT

(* Every step preserves the bound on the time since the last drain.        *)
LEMMA InTimeNext == TypeOK /\ InTime /\ [Next]_vars => InTime'
<1> SUFFICES ASSUME TypeOK, InTime, [Next]_vars PROVE InTime'
  OBVIOUS
<1> USE AgentAssumption DEF InTime
<1>0. elapsed \in Nat /\ polled \in 0 .. TIMEOUT /\ quiet \in BOOLEAN
  BY DEF TypeOK
<1>1. CASE SkipDrain
  BY <1>0, <1>1 DEF SkipDrain, DrainDue
<1>2. CASE SendDrained
  BY <1>0, <1>2 DEF SendDrained
<1>3. ASSUME NEW p \in Packet, NextPacket(p) PROVE InTime'
  BY <1>0, <1>3 DEF NextPacket
<1>4. CASE NextEcho
  BY <1>0, <1>4 DEF NextEcho
<1>5. CASE NextTimeout \/ NextError
  BY <1>0, <1>5 DEF NextTimeout, NextError
<1>6. CASE CapturePanics
  BY <1>6 DEF CapturePanics
<1>7. CASE Tick
  BY <1>0, <1>7 DEF Tick
<1>8. CASE MainStep
  BY <1>8 DEF MainStep, Recv, Prepare, MainExits, SendDatagram, capVars
<1>9. CASE UNCHANGED vars
  BY <1>9 DEF vars, capVars
<1> QED BY <1>1, <1>2, <1>3, <1>4, <1>5, <1>6, <1>7, <1>8, <1>9 DEF Next, CaptureStep, Stopped

(* A drain is late by less than one read timeout, however packets,         *)
(* timeouts and errors interleave, but for an interface that has been      *)
(* silent for as long; so too if libpcap never lets the timeout end a call *)
(* (capture.rs:30, 34-39, 63).                                             *)
THEOREM DrainsInTime == Spec => []DrainDeadline
<1>1. Init => InTime
  BY AgentAssumption DEF Init, InTime
<1>2. TypeOK /\ InTime => DrainDeadline
  BY AgentAssumption DEF TypeOK, InTime, DrainDeadline
<1> QED BY <1>1, <1>2, InTimeNext, TypeCorrect, PTL DEF Spec

-----------------------------------------------------------------------------
(* The end of the channel.                                                 *)

(* The main thread's loop goes on for as long as there is a sender.        *)
ReceiverOutlivesSender == mainPc = "exited" => capPc = "done"

(* No step ends the main thread's loop while the capture thread lives.     *)
LEMMA ReceiverNext == TypeOK /\ ReceiverOutlivesSender /\ [Next]_vars => ReceiverOutlivesSender'
<1> SUFFICES ASSUME ReceiverOutlivesSender, [Next]_vars PROVE ReceiverOutlivesSender'
  OBVIOUS
<1> USE DEF ReceiverOutlivesSender
<1>1. CASE CaptureStep \/ CapturePanics \/ Tick
  BY <1>1 DEF CaptureStep, SkipDrain, SendDrained, NextPacket, NextEcho, NextTimeout, NextError,
              CapturePanics, Tick, mainVars
<1>2. CASE MainStep
  BY <1>2 DEF MainStep, Recv, Prepare, MainExits, Disconnected, SendDatagram, capVars
<1>3. CASE UNCHANGED vars
  BY <1>3 DEF vars, capVars, mainVars
<1> QED BY <1>1, <1>2, <1>3 DEF Next, Stopped

(* The receiver is dropped only after the sender: tx.send never fails.     *)
LEMMA SendNeverFails == Spec => []ReceiverOutlivesSender
<1>1. Init => ReceiverOutlivesSender
  BY DEF Init, ReceiverOutlivesSender
<1> QED BY <1>1, ReceiverNext, TypeCorrect, PTL DEF Spec

-----------------------------------------------------------------------------
(* The self-export filter.                                                 *)

(* A packet belongs to one flow only.                                      *)
LEMMA OneFlow == \A k1, k2 \in Key : k1 # k2 => Of(k1) \cap Of(k2) = {}
  BY AgentAssumption DEF Of

(* Everything that left the main thread was filed under a key on its side  *)
(* of the filter.                                                          *)
FilterInv ==
  /\ mainPc = "flush" => \A k \in Key : IsSelfExport(k) => batch[k] = {}
  /\ \A x \in exported \cup failed : \E k \in Key : x \in Of(k) /\ ~IsSelfExport(k)
  /\ \A x \in withheld : \E k \in Key : x \in Of(k) /\ IsSelfExport(k)

(* Every step keeps each key's packets on its side of the filter.          *)
LEMMA FilterNext == TypeOK /\ FilterInv /\ [Next]_vars => FilterInv'
<1> SUFFICES ASSUME TypeOK, FilterInv, [Next]_vars PROVE FilterInv'
  OBVIOUS
<1> USE DEF FilterInv
<1>0. IsFlowMap(batch)
  BY DEF TypeOK
<1>1. CASE CaptureStep \/ CapturePanics \/ Tick
  BY <1>1 DEF CaptureStep, SkipDrain, SendDrained, NextPacket, NextEcho, NextTimeout, NextError,
              CapturePanics, Tick, mainVars, fates
<1>2. CASE Recv \/ MainExits
  BY <1>2 DEF Recv, MainExits, fates
<1>3. CASE Prepare
  <2>1. batch' = Filtered(batch) /\ UNCHANGED <<exported, failed>>
        /\ withheld' = withheld \cup UNION {batch[k] : k \in {x \in Key : IsSelfExport(x)}}
    BY <1>3 DEF Prepare
  <2>2. \A x \in withheld' : \E k \in Key : x \in Of(k) /\ IsSelfExport(k)
    BY <1>0, <2>1 DEF IsFlowMap
  <2>3. \A k \in Key : IsSelfExport(k) => batch'[k] = {}
    BY <2>1 DEF Filtered
  <2> QED BY <2>1, <2>2, <2>3
<1>4. ASSUME NEW S \in (SUBSET Flows(batch)) \ {{}}, SendDatagram(S) PROVE FilterInv'
  <2> DEFINE sent == UNION {batch[k] : k \in S}
  <2>1. /\ mainPc = "flush" /\ withheld' = withheld
        /\ batch' = [k \in Key |-> IF k \in S THEN {} ELSE batch[k]]
        /\ exported' \cup failed' = exported \cup failed \cup sent
    BY <1>4 DEF SendDatagram
  <2>2. \A x \in sent : \E k \in Key : x \in Of(k) /\ ~IsSelfExport(k)
    <3>1. \A k \in S : k \in Key /\ batch[k] # {} /\ batch[k] \subseteq Of(k)
      BY <1>0, FlowsInKey DEF IsFlowMap, Flows
    <3> QED BY <2>1, <3>1
  <2> HIDE DEF sent
  <2>3. \A k \in Key : IsSelfExport(k) => batch'[k] = {}
    BY <2>1
  <2> QED BY <2>1, <2>2, <2>3
<1>5. CASE UNCHANGED vars
  BY <1>5 DEF vars, mainVars, fates
<1> QED BY <1>1, <1>2, <1>3, <1>4, <1>5 DEF Next, MainStep, Stopped

(* Packets of the keys the filter matches are withheld, all others are     *)
(* exported or fail.                                                       *)
LEMMA FilterInvariant == Spec => []FilterInv
<1>1. Init => FilterInv
  BY DEF Init, FilterInv
<1> QED BY <1>1, FilterNext, TypeCorrect, PTL DEF Spec

(* If the agent's datagrams are captured under a key the filter recognizes *)
(* they never appear in the exported stream, at whatever time and however  *)
(* often they are captured.  The assumption is what an IPv4-mapped         *)
(* collector address breaks.                                               *)
THEOREM SelfExportFiltered == IsSelfExport(WireKey) => (Spec => []NoSelfExport)
<1> SUFFICES ASSUME IsSelfExport(WireKey) PROVE Spec => []NoSelfExport
  OBVIOUS
<1>1. FilterInv => NoSelfExport
  BY AgentAssumption DEF FilterInv, NoSelfExport, Of
<1> QED BY <1>1, FilterInvariant, PTL

-----------------------------------------------------------------------------
(* Every packet is in one place.                                           *)

(* Accounted, written out pair by pair for seven sets and their union.     *)
Apart(A, B) == A \cap B \subseteq {Echo}

Partition(T, Q, B, E, F, W, Z, All) ==
  /\ Apart(T, Q) /\ Apart(T, B) /\ Apart(T, E) /\ Apart(T, F) /\ Apart(T, W) /\ Apart(T, Z)
  /\ Apart(Q, B) /\ Apart(Q, E) /\ Apart(Q, F) /\ Apart(Q, W) /\ Apart(Q, Z)
  /\ Apart(B, E) /\ Apart(B, F) /\ Apart(B, W) /\ Apart(B, Z)
  /\ Apart(E, F) /\ Apart(E, W) /\ Apart(E, Z)
  /\ Apart(F, W) /\ Apart(F, Z) /\ Apart(W, Z)
  /\ All = (T \cup Q \cup B \cup E \cup F \cup W \cup Z) \ {Echo}

Recorded == {p \in Seen : Decodes(p)}

WindowsApart == \A i, j \in 1 .. Len(chan) : i # j => Apart(Within(chan[i]), Within(chan[j]))

Located ==
  /\ Partition(Within(table), Queued, Within(batch), exported, failed, withheld, lost, Recorded)
  /\ WindowsApart
  /\ mainPc \in {"recv", "exited"} => Within(batch) = {}

(* The pairwise form implies the one that the model checker evaluates.     *)
LEMMA LocatedIsAccounted == Located => Accounted
<1> SUFFICES ASSUME Located PROVE Accounted
  OBVIOUS
<1> DEFINE P == <<Within(table), Queued, Within(batch), exported, failed, withheld, lost>>
<1>1. /\ P[1] = Within(table) /\ P[2] = Queued /\ P[3] = Within(batch) /\ P[4] = exported
      /\ P[5] = failed /\ P[6] = withheld /\ P[7] = lost
  OBVIOUS
<1>2. UNION {P[i] : i \in 1 .. 7} = P[1] \cup P[2] \cup P[3] \cup P[4] \cup P[5] \cup P[6] \cup P[7]
  <2> HIDE DEF P
  <2>1. \A i \in 1 .. 7 : i = 1 \/ i = 2 \/ i = 3 \/ i = 4 \/ i = 5 \/ i = 6 \/ i = 7
    OBVIOUS
  <2> QED BY <2>1
<1>3. {p \in Seen : Decodes(p)} = (UNION {P[i] : i \in 1 .. 7}) \ {Echo}
  <2> HIDE DEF P
  <2> QED BY <1>1, <1>2 DEF Located, Partition, Recorded
<1>4. \A i, j \in 1 .. 7 : i < j => P[i] \cap P[j] \subseteq {Echo}
  <2> HIDE DEF P
  <2> SUFFICES ASSUME NEW i \in 1 .. 7, NEW j \in 1 .. 7, i < j
               PROVE  Apart(P[i], P[j])
    BY DEF Apart
  <2>1. CASE i = 1
    BY <1>1, <2>1 DEF Located, Partition
  <2>2. CASE i = 2
    BY <1>1, <2>2 DEF Located, Partition
  <2>3. CASE i = 3
    BY <1>1, <2>3 DEF Located, Partition
  <2>4. CASE i = 4
    BY <1>1, <2>4 DEF Located, Partition
  <2>5. CASE i = 5
    BY <1>1, <2>5 DEF Located, Partition
  <2>6. CASE i = 6
    BY <1>1, <2>6 DEF Located, Partition
  <2> QED BY <2>1, <2>2, <2>3, <2>4, <2>5, <2>6
<1>5. \A i, j \in 1 .. 7 : i # j => P[i] \cap P[j] \subseteq {Echo}
  <2> HIDE DEF P
  <2>1. \A i, j \in 1 .. 7 : i # j => i < j \/ j < i
    OBVIOUS
  <2> QED BY <1>4, <2>1
<1> QED BY <1>3, <1>5 DEF Located, WindowsApart, Accounted, Apart

(* How the contents of the maps change.                                    *)
LEMMA WithinNoFlows == Within(NoFlows) = {}
  BY DEF Within, NoFlows

(* Recording a packet adds just that packet.                               *)
LEMMA WithinRecord ==
  ASSUME NEW m, IsFlowMap(m), NEW k \in Key, NEW p
  PROVE  Within(Record(m, k, p)) = Within(m) \cup {p}
<1> DEFINE r == Record(m, k, p)
<1>1. r[k] = m[k] \cup {p} /\ \A j \in Key \ {k} : r[j] = m[j]
  BY DEF Record, IsFlowMap
<1> HIDE DEF r
<1>2. \A x : x \in Within(r) <=> x \in Within(m) \cup {p}
  BY <1>1 DEF Within
<1> QED BY <1>2 DEF r

(* Taking the flows S out of a map splits what is in it.                   *)
LEMMA WithinSplit ==
  ASSUME NEW m, IsFlowMap(m), NEW S, S \subseteq Key
  PROVE  LET rest == [k \in Key |-> IF k \in S THEN {} ELSE m[k]]
             out  == UNION {m[k] : k \in S}
         IN  Within(rest) \cup out = Within(m) /\ Within(rest) \cap out = {}
<1> DEFINE rest == [k \in Key |-> IF k \in S THEN {} ELSE m[k]]
           out  == UNION {m[k] : k \in S}
<1>1. \A x : x \in out <=> \E k \in S : x \in m[k]
  OBVIOUS
<1>2. \A x : x \in Within(rest) <=> \E k \in Key \ S : x \in m[k]
  BY DEF Within
<1>3. \A x : x \in Within(m) <=> \E k \in Key : x \in m[k]
  BY DEF Within
<1>4. \A k1, k2 \in Key : k1 # k2 => m[k1] \cap m[k2] = {}
  BY OneFlow DEF IsFlowMap
<1> HIDE DEF rest, out
<1>5. \A x : x \in Within(rest) \cup out <=> x \in Within(m)
  BY <1>1, <1>2, <1>3
<1>6. \A x : ~(x \in Within(rest) /\ x \in out)
  <2> SUFFICES ASSUME NEW x, x \in Within(rest), x \in out PROVE FALSE
    OBVIOUS
  <2>1. PICK k1 \in Key \ S : x \in m[k1]
    BY <1>2
  <2>2. PICK k2 \in S : x \in m[k2]
    BY <1>1
  <2> QED BY <1>4, <2>1, <2>2
<1> QED BY <1>5, <1>6 DEF rest, out

(* What is queued is in one of the maps in the channel, before and after a *)
(* step.                                                                   *)
LEMMA QueuedMember ==
  /\ \A x : x \in Queued <=> \E i \in 1 .. Len(chan) : x \in Within(chan[i])
  /\ \A x : x \in Queued' <=> \E i \in 1 .. Len(chan') : x \in Within(chan'[i])
  BY DEF Queued, Within

(* Sending a map queues what is in it.                                     *)
LEMMA QueuedAppend ==
  ASSUME TypeOK, NEW m, IsFlowMap(m), chan' = Append(chan, m)
  PROVE  Queued' = Queued \cup Within(m)
<1>1. /\ Len(chan') = Len(chan) + 1 /\ Len(chan) \in Nat
      /\ \A i \in 1 .. Len(chan) : chan'[i] = chan[i]
      /\ chan'[Len(chan) + 1] = m
  BY DEF TypeOK
<1>2. \A i : i \in 1 .. Len(chan') <=> i \in 1 .. Len(chan) \/ i = Len(chan) + 1
  BY <1>1
<1> QED BY <1>1, <1>2, QueuedMember

(* Receiving a map takes its content, and no other, out of the queue.      *)
LEMMA QueuedTail ==
  ASSUME TypeOK, chan # <<>>, chan' = Tail(chan), WindowsApart
  PROVE  Queued = Within(Head(chan)) \cup Queued' /\ Apart(Within(Head(chan)), Queued')
<1>1. /\ Len(chan') = Len(chan) - 1 /\ Len(chan) \in Nat \ {0} /\ Head(chan) = chan[1]
      /\ \A i \in 1 .. Len(chan') : chan'[i] = chan[i + 1]
  BY DEF TypeOK
<1>2. \A x : x \in Queued <=> \E i \in 1 .. Len(chan) : x \in Within(chan[i])
  BY QueuedMember
<1>3. \A x : x \in Queued' <=> \E i \in 2 .. Len(chan) : x \in Within(chan[i])
  <2>1. \A x : x \in Queued' <=> \E i \in 1 .. Len(chan') : x \in Within(chan'[i])
    BY QueuedMember
  <2>2. \A i \in 1 .. Len(chan') : i + 1 \in 2 .. Len(chan) /\ chan'[i] = chan[i + 1]
    BY <1>1
  <2>3. \A i \in 2 .. Len(chan) : i - 1 \in 1 .. Len(chan') /\ chan'[i - 1] = chan[i]
    BY <1>1
  <2> QED BY <2>1, <2>2, <2>3
<1>4. \A i : i \in 1 .. Len(chan) <=> i = 1 \/ i \in 2 .. Len(chan)
  BY <1>1
<1>5. Queued = Within(Head(chan)) \cup Queued'
  BY <1>1, <1>2, <1>3, <1>4
<1>6. \A i \in 2 .. Len(chan) : Apart(Within(chan[1]), Within(chan[i]))
  BY <1>1 DEF WindowsApart
<1>7. Apart(Within(chan[1]), Queued')
  BY <1>3, <1>6 DEF Apart
<1> QED BY <1>1, <1>5, <1>7

(* The capture thread's steps keep every packet in one place.              *)
LEMMA LocatedCapture ==
  ASSUME TypeOK, Located, CaptureStep \/ CapturePanics \/ Tick
  PROVE  Located'
<1>1. /\ Partition(Within(table), Queued, Within(batch), exported, failed, withheld, lost, Recorded)
      /\ WindowsApart
      /\ mainPc \in {"recv", "exited"} => Within(batch) = {}
      /\ IsFlowMap(table)
  BY DEF Located, TypeOK
<1>2. \A x : x \in Queued => \E i \in 1 .. Len(chan) : x \in Within(chan[i])
  BY QueuedMember
<1>3. CASE /\ UNCHANGED <<table, chan, mainVars, captured, fates>>
  BY <1>1, <1>3 DEF mainVars, fates, Located, WindowsApart, Queued, Within, Recorded, Seen
<1>4. CASE SendDrained
  <2>1. table' = NoFlows /\ UNCHANGED <<mainVars, captured, exported, failed, withheld>>
    BY <1>4 DEF SendDrained, Drain
  <2>2. Within(table') = {} /\ batch' = batch /\ mainPc' = mainPc /\ Recorded' = Recorded
    BY <2>1, WithinNoFlows DEF mainVars, Recorded, Seen
  <2>3. CASE mainPc = "exited"
    <3>1. lost' = lost \cup Within(table) /\ chan' = chan
      BY <1>4, <2>3 DEF SendDrained, Drain
    <3>2. Queued' = Queued /\ WindowsApart'
      BY <1>1, <3>1 DEF Queued, Within, WindowsApart
    <3>3. Partition({}, Queued, Within(batch), exported, failed, withheld,
                    lost \cup Within(table), Recorded)
      BY <1>1 DEF Partition, Apart
    <3> QED BY <1>1, <2>1, <2>2, <3>1, <3>2, <3>3 DEF Located
  <2>4. CASE mainPc # "exited"
    <3>1. chan' = Append(chan, table) /\ lost' = lost
      BY <1>4, <2>4 DEF SendDrained, Drain
    <3>2. Queued' = Queued \cup Within(table)
      BY <1>1, <3>1, QueuedAppend
    <3>3. Partition({}, Queued \cup Within(table), Within(batch), exported, failed, withheld,
                    lost, Recorded)
      BY <1>1 DEF Partition, Apart
    <3>4. \A i \in 1 .. Len(chan) : Apart(Within(chan[i]), Within(table))
      <4>1. Apart(Within(table), Queued)
        BY <1>1 DEF Partition
      <4> QED BY <4>1, QueuedMember DEF Apart
    <3>5. WindowsApart'
      <4>1. /\ Len(chan') = Len(chan) + 1 /\ Len(chan) \in Nat
            /\ \A i \in 1 .. Len(chan) : chan'[i] = chan[i]
            /\ chan'[Len(chan) + 1] = table
        BY <3>1 DEF TypeOK
      <4>2. \A i \in 1 .. Len(chan') : i \in 1 .. Len(chan) \/ i = Len(chan) + 1
        BY <4>1
      <4>3. \A i, j \in 1 .. Len(chan') : i # j => Apart(Within(chan'[i]), Within(chan'[j]))
        BY <1>1, <3>4, <4>1, <4>2 DEF WindowsApart, Apart
      <4> QED BY <4>3 DEF WindowsApart, Within
    <3> QED BY <1>1, <2>1, <2>2, <3>1, <3>2, <3>3, <3>5 DEF Located
  <2> QED BY <2>3, <2>4
<1>5. ASSUME NEW p \in Packet, NextPacket(p) PROVE Located'
  <2>1. /\ p \notin Seen /\ captured' = Append(captured, p)
        /\ table' = (IF Decodes(p) THEN Record(table, KeyOf[p], p) ELSE table)
        /\ UNCHANGED <<chan, mainVars, fates>>
    BY <1>5 DEF NextPacket
  <2>2. Seen' = Seen \cup {p}
    <3>1. captured \in Seq(Packet)
      BY DEF TypeOK
    <3>2. /\ Len(captured') = Len(captured) + 1 /\ Len(captured) \in Nat
          /\ \A i \in 1 .. Len(captured) : captured'[i] = captured[i]
          /\ captured'[Len(captured) + 1] = p
      BY <2>1, <3>1
    <3>3. \A i : i \in 1 .. Len(captured') <=> i \in 1 .. Len(captured) \/ i = Len(captured) + 1
      BY <3>2
    <3>4. \A x : x \in Seen <=> \E i \in 1 .. Len(captured) : x = captured[i]
      BY DEF Seen
    <3>5. \A x : x \in Seen' <=> \E i \in 1 .. Len(captured') : x = captured'[i]
      BY DEF Seen
    <3>6. \A x : x \in Seen' <=> x \in Seen \cup {p}
      BY <3>2, <3>3, <3>4, <3>5
    <3> QED BY <3>6
  <2>3. Recorded' = Recorded \cup (IF Decodes(p) THEN {p} ELSE {})
    BY <2>2 DEF Recorded, Decodes
  <2>4. Within(table') = Within(table) \cup (IF Decodes(p) THEN {p} ELSE {})
    BY <1>1, <2>1, KeyFacts, WithinRecord
  <2>5. Queued' = Queued /\ WindowsApart'
    BY <1>1, <2>1 DEF Queued, Within, WindowsApart
  <2>6. p # Echo /\ p \notin Recorded
    BY <2>1, AgentAssumption DEF Recorded
  <2> DEFINE new == IF Decodes(p) THEN {p} ELSE {}
  <2>7. new \subseteq {p}
    OBVIOUS
  <2> HIDE DEF new
  <2>8. Partition(Within(table) \cup new, Queued, Within(batch), exported, failed, withheld, lost,
                  Recorded \cup new)
    BY <1>1, <2>6, <2>7 DEF Partition, Apart
  <2> QED BY <1>1, <2>1, <2>3, <2>4, <2>5, <2>8 DEF Located, mainVars, fates, new
<1>6. CASE NextEcho
  <2>1. table' = Record(table, WireKey, Echo) /\ UNCHANGED <<chan, mainVars, captured, fates>>
    BY <1>6 DEF NextEcho
  <2>2. Within(table') = Within(table) \cup {Echo}
    BY <1>1, <2>1, KeyFacts, WithinRecord
  <2>3. Queued' = Queued /\ WindowsApart' /\ Recorded' = Recorded
    BY <1>1, <2>1 DEF Queued, Within, WindowsApart, Recorded, Seen
  <2>4. Partition(Within(table) \cup {Echo}, Queued, Within(batch), exported, failed, withheld,
                  lost, Recorded)
    BY <1>1 DEF Partition, Apart
  <2> QED BY <1>1, <2>1, <2>2, <2>3, <2>4 DEF Located, mainVars, fates
<1>7. CASE CapturePanics
  <2>1. /\ table' = NoFlows /\ lost' = lost \cup Within(table)
        /\ UNCHANGED <<chan, mainVars, captured, exported, failed, withheld>>
    BY <1>7 DEF CapturePanics
  <2>2. Within(table') = {} /\ Queued' = Queued /\ WindowsApart' /\ Recorded' = Recorded
    BY <1>1, <2>1, WithinNoFlows DEF Queued, Within, WindowsApart, Recorded, Seen
  <2>3. Partition({}, Queued, Within(batch), exported, failed, withheld,
                  lost \cup Within(table), Recorded)
    BY <1>1 DEF Partition, Apart
  <2> QED BY <1>1, <2>1, <2>2, <2>3 DEF Located, mainVars
<1> QED BY <1>3, <1>4, <1>5, <1>6, <1>7
        DEF CaptureStep, SkipDrain, NextTimeout, NextError, Tick

(* The main thread's steps keep every packet in one place.                 *)
LEMMA LocatedMain ==
  ASSUME TypeOK, Located, MainStep
  PROVE  Located'
<1>1. /\ Partition(Within(table), Queued, Within(batch), exported, failed, withheld, lost, Recorded)
      /\ WindowsApart
      /\ mainPc \in {"recv", "exited"} => Within(batch) = {}
      /\ IsFlowMap(batch)
  BY DEF Located, TypeOK
<1>2. CASE Recv
  <2>1. /\ mainPc = "recv" /\ mainPc' = "prepare" /\ chan # <<>>
        /\ batch' = Head(chan) /\ chan' = Tail(chan) /\ UNCHANGED <<capVars, captured, fates>>
    BY <1>2 DEF Recv
  <2>2. Queued = Within(Head(chan)) \cup Queued' /\ Apart(Within(Head(chan)), Queued')
    BY <1>1, <2>1, QueuedTail
  <2>3. WindowsApart'
    <3>1. /\ Len(chan) \in Nat \ {0} /\ Len(chan') = Len(chan) - 1
          /\ \A i \in 1 .. Len(chan') : chan'[i] = chan[i + 1]
      BY <2>1 DEF TypeOK
    <3>2. \A i, j \in 1 .. Len(chan') :
            i # j => i + 1 \in 1 .. Len(chan) /\ j + 1 \in 1 .. Len(chan) /\ i + 1 # j + 1
      BY <3>1
    <3>3. \A i, j \in 1 .. Len(chan') : i # j => Apart(Within(chan'[i]), Within(chan'[j]))
      BY <1>1, <3>1, <3>2 DEF WindowsApart
    <3> QED BY <3>3 DEF WindowsApart, Within
  <2> DEFINE H == Within(Head(chan))
             Q == Queued'
  <2>4. Queued = H \cup Q /\ Apart(H, Q) /\ Within(batch) = {}
    BY <1>1, <2>1, <2>2
  <2> HIDE DEF H, Q
  <2>5. Partition(Within(table), Q, H, exported, failed, withheld, lost, Recorded)
    BY <1>1, <2>4 DEF Partition, Apart
  <2>6. Recorded' = Recorded /\ table' = table
    BY <2>1 DEF Recorded, Seen, capVars
  <2> QED BY <2>1, <2>3, <2>5, <2>6 DEF Located, fates, H, Q
<1>3. CASE Prepare
  <2> DEFINE S == {k \in Key : IsSelfExport(k)}
             out == UNION {batch[k] : k \in S}
             rest == [k \in Key |-> IF k \in S THEN {} ELSE batch[k]]
  <2>1. /\ batch' = Filtered(batch) /\ withheld' = withheld \cup out
        /\ mainPc' = (IF NothingToFlush(Filtered(batch)) THEN "recv" ELSE "flush")
        /\ UNCHANGED <<capVars, chan, captured, exported, failed, lost>>
    BY <1>3 DEF Prepare
  <2>2. Filtered(batch) = rest
    BY DEF Filtered
  <2>3. Within(rest) \cup out = Within(batch) /\ Within(rest) \cap out = {}
    BY <1>1, WithinSplit
  <2>4. mainPc' \in {"recv", "exited"} => Within(batch') = {}
    BY <2>1 DEF NothingToFlush, Flows, Within
  <2>5. Recorded' = Recorded /\ table' = table /\ Queued' = Queued /\ WindowsApart'
    <3>1. UNCHANGED <<table, chan, captured>>
      BY <2>1 DEF capVars
    <3>2. Recorded' = Recorded
      BY <3>1 DEF Recorded, Seen
    <3>3. Queued' = Queued
      BY <3>1 DEF Queued, Within
    <3>4. WindowsApart'
      BY <1>1, <3>1 DEF WindowsApart, Within
    <3> QED BY <3>1, <3>2, <3>3, <3>4
  <2> DEFINE R == Within(rest)
  <2>6. R \cup out = Within(batch) /\ R \cap out = {}
    BY <2>3
  <2> HIDE DEF out, R
  <2>7. Partition(Within(table), Queued, R, exported, failed, withheld \cup out, lost, Recorded)
    BY <1>1, <2>6 DEF Partition, Apart
  <2> QED BY <2>1, <2>2, <2>4, <2>5, <2>7 DEF Located, R
<1>4. CASE MainExits
  BY <1>1, <1>4 DEF MainExits, capVars, fates, Located, WindowsApart, Queued, Within, Recorded, Seen
<1>5. ASSUME NEW S \in (SUBSET Flows(batch)) \ {{}}, SendDatagram(S) PROVE Located'
  <2> DEFINE out == UNION {batch[k] : k \in S}
             rest == [k \in Key |-> IF k \in S THEN {} ELSE batch[k]]
  <2>1. /\ batch' = rest
        /\ mainPc' = (IF Flows(batch) = S THEN "recv" ELSE "flush")
        /\ \/ exported' = exported \cup out /\ failed' = failed
           \/ failed' = failed \cup out /\ exported' = exported
        /\ UNCHANGED <<capVars, chan, captured, withheld, lost>>
    BY <1>5 DEF SendDatagram
  <2>2. Within(rest) \cup out = Within(batch) /\ Within(rest) \cap out = {}
    BY <1>1, FlowsInKey, WithinSplit
  <2>3. mainPc' \in {"recv", "exited"} => Within(batch') = {}
    BY <2>1 DEF Flows, Within
  <2>4. Recorded' = Recorded /\ table' = table /\ Queued' = Queued /\ WindowsApart'
    <3>1. UNCHANGED <<table, chan, captured>>
      BY <2>1 DEF capVars
    <3>2. Recorded' = Recorded
      BY <3>1 DEF Recorded, Seen
    <3>3. Queued' = Queued
      BY <3>1 DEF Queued, Within
    <3>4. WindowsApart'
      BY <1>1, <3>1 DEF WindowsApart, Within
    <3> QED BY <3>1, <3>2, <3>3, <3>4
  <2> DEFINE R == Within(rest)
  <2>5. R \cup out = Within(batch) /\ R \cap out = {}
    BY <2>2
  <2> HIDE DEF out, R
  <2>6. /\ Partition(Within(table), Queued, R, exported \cup out, failed, withheld, lost, Recorded)
        /\ Partition(Within(table), Queued, R, exported, failed \cup out, withheld, lost, Recorded)
    BY <1>1, <2>5 DEF Partition, Apart
  <2> QED BY <2>1, <2>3, <2>4, <2>6 DEF Located, R
<1> QED BY <1>2, <1>3, <1>4, <1>5 DEF MainStep

(* Every step moves packets from one place to another and copies none.     *)
LEMMA LocatedNext == TypeOK /\ Located /\ [Next]_vars => Located'
<1> SUFFICES ASSUME TypeOK, Located, [Next]_vars PROVE Located'
  OBVIOUS
<1>1. CASE CaptureStep \/ CapturePanics \/ Tick
  BY <1>1, LocatedCapture
<1>2. CASE MainStep
  BY <1>2, LocatedMain
<1>3. CASE UNCHANGED vars
  BY <1>3 DEF vars, capVars, mainVars, fates, Located, WindowsApart, Queued, Within, Recorded, Seen
<1> QED BY <1>1, <1>2, <1>3 DEF Next, Stopped

(* No packet is anywhere when the threads start.                           *)
LEMMA LocatedInit == Init => Located
<1> SUFFICES ASSUME Init PROVE Located
  OBVIOUS
<1>1. Within(table) = {} /\ Within(batch) = {}
  BY WithinNoFlows DEF Init
<1>2. Queued = {} /\ Recorded = {} /\ WindowsApart
  BY DEF Init, Queued, Recorded, Seen, WindowsApart
<1>3. exported = {} /\ failed = {} /\ withheld = {} /\ lost = {}
  BY DEF Init
<1>4. Partition({}, {}, {}, {}, {}, {}, {}, {})
  BY DEF Partition, Apart
<1> QED BY <1>1, <1>2, <1>3, <1>4 DEF Located

(* Every recorded packet is always in one place.                           *)
THEOREM LocatedInvariant == Spec => []Located
  BY LocatedInit, LocatedNext, TypeCorrect, PTL DEF Spec

(* Every recorded packet is in exactly one place: none is dropped, counted *)
(* twice or exported twice, whatever the threads' interleaving and         *)
(* whichever datagrams fail.                                               *)
THEOREM EveryPacketAccounted == Spec => []Accounted
  BY LocatedInvariant, LocatedIsAccounted, PTL

-----------------------------------------------------------------------------
(* The order in which packets go through.                                  *)

(* Of two packets of one flow, a captured before b: a is never behind b.   *)
NotBehind(a, b) ==
  /\ b \in Processed => a \in Processed
  /\ b \in Within(batch) => a \in Within(batch) \cup Processed
  /\ \A c \in 1 .. Len(chan) :
       b \in Within(chan[c]) =>
         a \in Within(batch) \cup Processed \/ \E d \in 1 .. c : a \in Within(chan[d])

(* What holds of any two recorded packets, a captured before b.            *)
Follows(a, b) ==
  /\ a \in lost => b \in lost
  /\ a \in Within(table) => b \in Within(table)
  /\ KeyOf[a] = KeyOf[b] => NotBehind(a, b)

Before(a, b) == \E i, j \in 1 .. Len(captured) : i < j /\ a = captured[i] /\ b = captured[j]

InOrder ==
  \A a, b \in Packet : Before(a, b) /\ Decodes(a) /\ Decodes(b) => Follows(a, b)

(* Packets are lost only as the capture thread ends.                       *)
LostAtEnd == capPc # "done" => lost = {}

OrderInv == InOrder /\ LostAtEnd

(* A packet can only be under its own key.                                 *)
LEMMA OwnKey ==
  ASSUME NEW m, IsFlowMap(m), NEW p \in Packet, Decodes(p)
  PROVE  p \in Within(m) <=> p \in m[KeyOf[p]]
<1>1. KeyOf[p] \in Key /\ p # Echo
  BY KeyFacts, AgentAssumption
<1>2. \A k \in Key : p \in m[k] => k = KeyOf[p]
  BY <1>1 DEF IsFlowMap, Of
<1> QED BY <1>1, <1>2 DEF Within

(* Taking flows out of a map takes a packet out exactly with its flow.     *)
LEMMA OwnKeySplit ==
  ASSUME NEW m, IsFlowMap(m), NEW p \in Packet, Decodes(p), NEW S, S \subseteq Key
  PROVE  /\ p \in Within([k \in Key |-> IF k \in S THEN {} ELSE m[k]])
              <=> KeyOf[p] \notin S /\ p \in Within(m)
         /\ p \in UNION {m[k] : k \in S} <=> KeyOf[p] \in S /\ p \in Within(m)
<1> DEFINE rest == [k \in Key |-> IF k \in S THEN {} ELSE m[k]]
<1>1. KeyOf[p] \in Key /\ p # Echo
  BY KeyFacts, AgentAssumption
<1>2. \A k \in Key : p \in m[k] => k = KeyOf[p]
  BY <1>1 DEF IsFlowMap, Of
<1>3. p \in Within(m) <=> p \in m[KeyOf[p]]
  BY OwnKey
<1>4. p \in Within(rest) <=> p \in rest[KeyOf[p]]
  BY ReducedIsFlowMap, OwnKey
<1>5. p \in rest[KeyOf[p]] <=> KeyOf[p] \notin S /\ p \in m[KeyOf[p]]
  BY <1>1
<1>6. p \in UNION {m[k] : k \in S} <=> KeyOf[p] \in S /\ p \in m[KeyOf[p]]
  BY <1>2
<1> QED BY <1>3, <1>4, <1>5, <1>6

(* Every step but a capture keeps two recorded packets in order.           *)
LEMMA FollowsStep ==
  ASSUME TypeOK, Located, LostAtEnd, [Next]_vars, captured' = captured,
         NEW a \in Recorded, NEW b \in Recorded, Follows(a, b)
  PROVE  Follows(a, b)'
<1>1. a \in Packet /\ b \in Packet /\ Decodes(a) /\ Decodes(b) /\ a # Echo /\ b # Echo
  BY AgentAssumption DEF Recorded, Seen, TypeOK
<1>2. /\ Partition(Within(table), Queued, Within(batch), exported, failed, withheld, lost, Recorded)
      /\ mainPc \in {"recv", "exited"} => Within(batch) = {}
      /\ IsFlowMap(table) /\ IsFlowMap(batch)
  BY DEF Located, TypeOK
<1>3. CASE UNCHANGED <<table, chan, mainVars, fates>>
  BY <1>3 DEF mainVars, fates, Follows, NotBehind, Within, Processed
<1>4. CASE SendDrained
  <2>1. table' = NoFlows /\ UNCHANGED <<mainVars, exported, failed, withheld>> /\ lost = {}
    BY <1>4 DEF SendDrained, Drain, LostAtEnd
  <2>2. Within(table') = {} /\ batch' = batch /\ Processed' = Processed
    BY <2>1, WithinNoFlows DEF mainVars, Processed
  <2>3. CASE mainPc = "exited"
    <3>1. lost' = lost \cup Within(table) /\ chan' = chan
      BY <1>4, <2>3 DEF SendDrained, Drain
    <3> QED BY <2>1, <2>2, <3>1 DEF Follows, NotBehind, Within
  <2>4. CASE mainPc # "exited"
    <3>1. chan' = Append(chan, table) /\ lost' = lost
      BY <1>4, <2>4 DEF SendDrained, Drain
    <3>2. /\ Len(chan') = Len(chan) + 1 /\ Len(chan) \in Nat
          /\ \A i \in 1 .. Len(chan) : chan'[i] = chan[i]
          /\ chan'[Len(chan) + 1] = table
      BY <3>1 DEF TypeOK
    <3>3. ASSUME KeyOf[a] = KeyOf[b], NEW c \in 1 .. Len(chan'), b \in Within(chan'[c])
          PROVE  a \in Within(batch') \cup Processed'
                   \/ \E d \in 1 .. c : a \in Within(chan'[d])
      <4>1. CASE c \in 1 .. Len(chan)
        <5>1. a \in Within(batch) \cup Processed \/ \E d \in 1 .. c : a \in Within(chan[d])
          BY <3>2, <3>3, <4>1 DEF Follows, NotBehind
        <5>2. \A d \in 1 .. c : d \in 1 .. Len(chan)
          BY <3>2, <4>1
        <5> QED BY <2>2, <3>2, <5>1, <5>2
      <4>2. CASE c = Len(chan) + 1
        <5>1. a \in Within(table) \cup Queued \cup Within(batch) \cup Processed
          BY <1>1, <1>2, <2>1 DEF Partition, Processed
        <5>2. CASE a \in Within(table)
          <6>1. c \in 1 .. c /\ a \in Within(chan'[c])
            BY <3>2, <4>2, <5>2
          <6> QED BY <6>1
        <5>3. CASE a \in Queued
          <6>1. PICK d \in 1 .. Len(chan) : a \in Within(chan[d])
            BY <5>3, QueuedMember
          <6>2. d \in 1 .. c /\ a \in Within(chan'[d])
            BY <3>2, <4>2, <6>1
          <6> QED BY <6>2
        <5> QED BY <2>2, <5>1, <5>2, <5>3
      <4> QED BY <3>2, <4>1, <4>2
    <3>4. KeyOf[a] = KeyOf[b] => NotBehind(a, b)'
      BY <2>2, <3>3 DEF Follows, NotBehind, Within
    <3> QED BY <2>1, <2>2, <3>1, <3>4 DEF Follows, Within
  <2> QED BY <2>3, <2>4
<1>5. ASSUME NEW p \in Packet, NextPacket(p) PROVE FALSE
  <2>1. captured' = Append(captured, p) /\ captured \in Seq(Packet)
    BY <1>5 DEF NextPacket, TypeOK
  <2>2. Len(captured') = Len(captured) + 1 /\ Len(captured) \in Nat
    BY <2>1
  <2> QED BY <2>2
<1>6. CASE NextEcho
  <2>1. table' = Record(table, WireKey, Echo) /\ UNCHANGED <<chan, mainVars, fates>>
    BY <1>6 DEF NextEcho
  <2>2. Within(table') = Within(table) \cup {Echo}
    BY <1>2, <2>1, KeyFacts, WithinRecord
  <2>3. /\ a \in Within(table') <=> a \in Within(table)
        /\ b \in Within(table') <=> b \in Within(table)
    BY <1>1, <2>2
  <2>4. NotBehind(a, b) => NotBehind(a, b)'
    BY <2>1 DEF NotBehind, Within, mainVars, fates, Processed
  <2> QED BY <2>1, <2>3, <2>4 DEF Follows, Within, fates
<1>7. CASE CapturePanics
  <2>1. /\ table' = NoFlows /\ lost' = lost \cup Within(table) /\ lost = {}
        /\ UNCHANGED <<chan, mainVars, exported, failed, withheld>>
    BY <1>7 DEF CapturePanics, LostAtEnd
  <2>2. Within(table') = {}
    BY <2>1, WithinNoFlows
  <2> QED BY <2>1, <2>2 DEF Follows, NotBehind, Within, mainVars, Processed
<1>8. CASE Recv
  <2>1. /\ chan # <<>> /\ batch' = Head(chan) /\ chan' = Tail(chan)
        /\ UNCHANGED <<capVars, fates>> /\ Within(batch) = {}
    BY <1>2, <1>8 DEF Recv
  <2>2. /\ Len(chan) \in Nat \ {0} /\ Len(chan') = Len(chan) - 1 /\ batch' = chan[1]
        /\ \A i \in 1 .. Len(chan') : chan'[i] = chan[i + 1]
    BY <2>1 DEF TypeOK
  <2>3. Processed' = Processed /\ table' = table /\ lost' = lost
    BY <2>1 DEF Processed, fates, capVars
  <2>4. ASSUME KeyOf[a] = KeyOf[b], b \in Within(batch')
        PROVE  a \in Within(batch') \cup Processed
    <3>1. 1 \in 1 .. Len(chan) /\ \A d \in 1 .. 1 : d = 1
      BY <2>2
    <3>2. a \in Within(batch) \cup Processed \/ \E d \in 1 .. 1 : a \in Within(chan[d])
      BY <2>2, <2>4, <3>1 DEF Follows, NotBehind
    <3> QED BY <2>1, <2>2, <3>1, <3>2
  <2>5. ASSUME KeyOf[a] = KeyOf[b], NEW c \in 1 .. Len(chan'), b \in Within(chan'[c])
        PROVE  a \in Within(batch') \cup Processed
                 \/ \E d \in 1 .. c : a \in Within(chan'[d])
    <3>1. c + 1 \in 1 .. Len(chan) /\ b \in Within(chan[c + 1])
      BY <2>2, <2>5
    <3>2. a \in Within(batch) \cup Processed \/ \E d \in 1 .. c + 1 : a \in Within(chan[d])
      BY <2>5, <3>1 DEF Follows, NotBehind
    <3>3. CASE a \in Within(batch) \cup Processed
      BY <2>1, <3>3
    <3>4. ASSUME NEW d \in 1 .. c + 1, a \in Within(chan[d])
          PROVE  a \in Within(batch') \/ \E e \in 1 .. c : a \in Within(chan'[e])
      <4>1. CASE d = 1
        BY <2>2, <3>4, <4>1
      <4>2. CASE d # 1
        <5>1. d - 1 \in 1 .. c /\ d - 1 \in 1 .. Len(chan') /\ chan'[d - 1] = chan[d]
          BY <2>2, <2>5, <4>2
        <5> QED BY <3>4, <5>1
      <4> QED BY <4>1, <4>2
    <3> QED BY <3>2, <3>3, <3>4
  <2>6. KeyOf[a] = KeyOf[b] => NotBehind(a, b)'
    BY <2>3, <2>4, <2>5 DEF Follows, NotBehind, Within
  <2> QED BY <2>3, <2>6 DEF Follows, Within
<1>9. ASSUME NEW S, S \subseteq Key, UNCHANGED <<table, chan, lost>>,
             batch' = [k \in Key |-> IF k \in S THEN {} ELSE batch[k]],
             Processed' = Processed \cup UNION {batch[k] : k \in S}
      PROVE  Follows(a, b)'
  <2> DEFINE out == UNION {batch[k] : k \in S}
  <2>0. batch' = [k \in Key |-> IF k \in S THEN {} ELSE batch[k]]
    BY <1>9
  <2>1. /\ a \in Within(batch') <=> KeyOf[a] \notin S /\ a \in Within(batch)
        /\ b \in Within(batch') <=> KeyOf[b] \notin S /\ b \in Within(batch)
    <3> DEFINE rest == [k \in Key |-> IF k \in S THEN {} ELSE batch[k]]
    <3>1. /\ a \in Within(rest) <=> KeyOf[a] \notin S /\ a \in Within(batch)
          /\ b \in Within(rest) <=> KeyOf[b] \notin S /\ b \in Within(batch)
      BY ONLY <1>1, <1>2, <1>9, OwnKeySplit
    <3> HIDE DEF rest
    <3>2. batch' = rest
      BY <2>0 DEF rest
    <3> QED BY <3>1, <3>2
  <2>2. /\ a \in out <=> KeyOf[a] \in S /\ a \in Within(batch)
        /\ b \in out <=> KeyOf[b] \in S /\ b \in Within(batch)
    BY <1>1, <1>2, <1>9, OwnKeySplit
  <2>3. Processed' = Processed \cup out
    BY <1>9
  <2> HIDE DEF out
  <2>4. a \in Within(batch) \cup Processed => a \in Within(batch') \cup Processed'
    BY <2>1, <2>2, <2>3
  <2>5. KeyOf[a] = KeyOf[b] => NotBehind(a, b)'
    <3> SUFFICES ASSUME KeyOf[a] = KeyOf[b], NotBehind(a, b) PROVE NotBehind(a, b)'
      BY DEF Follows
    <3>1. b \in Processed' => a \in Processed'
      BY <2>1, <2>2, <2>3 DEF NotBehind
    <3>2. b \in Within(batch') => a \in Within(batch') \cup Processed'
      BY <2>1, <2>2, <2>3 DEF NotBehind
    <3>3. \A c \in 1 .. Len(chan) :
            b \in Within(chan[c]) =>
              a \in Within(batch') \cup Processed' \/ \E d \in 1 .. c : a \in Within(chan[d])
      BY <2>4 DEF NotBehind
    <3> QED BY <1>9, <3>1, <3>2, <3>3 DEF NotBehind, Within
  <2> QED BY <1>9, <2>5 DEF Follows, Within
<1>10. CASE Prepare
  <2>1. batch' = [k \in Key |-> IF k \in {x \in Key : IsSelfExport(x)} THEN {} ELSE batch[k]]
    BY <1>10 DEF Prepare, Filtered
  <2> QED BY <1>9, <1>10, <2>1 DEF Prepare, capVars, Processed
<1>11. ASSUME NEW S \in (SUBSET Flows(batch)) \ {{}}, SendDatagram(S) PROVE Follows(a, b)'
  <2>1. Processed' = Processed \cup UNION {batch[k] : k \in S}
    BY <1>11 DEF SendDatagram, Processed
  <2> QED BY <1>9, <1>11, <2>1, FlowsInKey DEF SendDatagram, capVars
<1>12. CASE MainExits
  BY <1>12 DEF MainExits, capVars, fates, Follows, NotBehind, Within, Processed
<1> QED BY <1>3, <1>4, <1>5, <1>6, <1>7, <1>8, <1>10, <1>11, <1>12
        DEF Next, CaptureStep, MainStep, SkipDrain, NextTimeout, NextError, Tick, Stopped, vars, capVars

(* A packet just captured is behind every packet recorded before it.       *)
LEMMA FollowsNew ==
  ASSUME TypeOK, Located, LostAtEnd, NEW p \in Packet, NextPacket(p), Decodes(p),
         NEW a \in Recorded
  PROVE  Follows(a, p)'
<1>1. /\ capPc = "poll" /\ p \notin Seen /\ table' = Record(table, KeyOf[p], p)
      /\ UNCHANGED <<chan, mainVars, fates>>
  BY DEF NextPacket
<1>2. p \notin Recorded /\ p # Echo /\ lost = {}
  BY <1>1, AgentAssumption DEF Recorded, LostAtEnd
<1>3. /\ p \notin Queued \cup Within(batch) \cup Processed
  BY <1>2 DEF Located, Partition, Processed
<1>4. p \in Within(table')
  <2>1. IsFlowMap(table) /\ KeyOf[p] \in Key
    BY KeyFacts DEF TypeOK
  <2> QED BY <1>1, <2>1, WithinRecord
<1>5. \A c \in 1 .. Len(chan) : p \notin Within(chan[c])
  BY <1>3, QueuedMember
<1>6. NotBehind(a, p)'
  BY <1>1, <1>3, <1>5 DEF NotBehind, Within, mainVars, fates, Processed
<1> QED BY <1>1, <1>2, <1>4, <1>6 DEF Follows, Within, fates

(* Two packets recorded before another is captured stay in order.          *)
LEMMA FollowsOld ==
  ASSUME TypeOK, Located, NEW p \in Packet, NextPacket(p),
         NEW a \in Recorded, NEW b \in Recorded, Follows(a, b)
  PROVE  Follows(a, b)'
<1>1. /\ p \notin Seen
      /\ table' = (IF Decodes(p) THEN Record(table, KeyOf[p], p) ELSE table)
      /\ UNCHANGED <<chan, mainVars, fates>>
  BY DEF NextPacket
<1>2. a # p /\ b # p
  BY <1>1 DEF Recorded
<1>3. Within(table') = Within(table) \cup (IF Decodes(p) THEN {p} ELSE {})
  BY <1>1, KeyFacts, WithinRecord DEF TypeOK
<1>4. /\ a \in Within(table') <=> a \in Within(table)
      /\ b \in Within(table') <=> b \in Within(table)
  BY <1>2, <1>3
<1>5. NotBehind(a, b) => NotBehind(a, b)'
  BY <1>1 DEF NotBehind, Within, mainVars, fates, Processed
<1> QED BY <1>1, <1>4, <1>5 DEF Follows, Within, fates

(* Every step keeps all recorded packets in order.                         *)
LEMMA OrderNext == TypeOK /\ Located /\ OrderInv /\ [Next]_vars => OrderInv'
<1> SUFFICES ASSUME TypeOK, Located, OrderInv, [Next]_vars PROVE OrderInv'
  OBVIOUS
<1>0. InOrder /\ LostAtEnd /\ captured \in Seq(Packet)
  BY DEF OrderInv, TypeOK
<1>1. LostAtEnd'
  BY <1>0 DEF LostAtEnd, Next, CaptureStep, MainStep, SkipDrain, SendDrained, NextPacket, NextEcho,
              NextTimeout, NextError, CapturePanics, Tick, Recv, Prepare, MainExits, SendDatagram,
              Stopped, vars, capVars, fates
<1>2. \A a, b : Before(a, b) /\ Decodes(a) /\ Decodes(b) => a \in Recorded /\ b \in Recorded
  BY DEF Before, Recorded, Seen
<1>3. ASSUME NEW p \in Packet, NextPacket(p) PROVE InOrder'
  <2> SUFFICES ASSUME NEW a \in Packet, NEW b \in Packet, Before(a, b)', Decodes(a), Decodes(b)
               PROVE  Follows(a, b)'
    BY DEF InOrder, Decodes
  <2>1. captured' = Append(captured, p)
    BY <1>3 DEF NextPacket
  <2>2. /\ Len(captured') = Len(captured) + 1 /\ Len(captured) \in Nat
        /\ \A i \in 1 .. Len(captured) : captured'[i] = captured[i]
        /\ captured'[Len(captured) + 1] = p
    BY <1>0, <2>1
  <2>3. PICK i \in 1 .. Len(captured'), j \in 1 .. Len(captured') :
          i < j /\ a = captured'[i] /\ b = captured'[j]
    BY DEF Before
  <2>4. i \in 1 .. Len(captured) /\ a = captured[i] /\ a \in Recorded
    BY <2>2, <2>3 DEF Recorded, Seen
  <2>5. CASE j \in 1 .. Len(captured)
    <3>1. Before(a, b)
      BY <2>2, <2>3, <2>4, <2>5 DEF Before
    <3>2. Follows(a, b) /\ b \in Recorded
      BY <1>0, <1>2, <3>1 DEF InOrder
    <3> QED BY <1>3, <2>4, <3>2, FollowsOld
  <2>6. CASE j = Len(captured) + 1
    <3>1. b = p
      BY <2>2, <2>3, <2>6
    <3> QED BY <1>0, <1>3, <2>4, <3>1, FollowsNew
  <2> QED BY <2>2, <2>5, <2>6
<1>4. ASSUME captured' = captured PROVE InOrder'
  <2> SUFFICES ASSUME NEW a \in Packet, NEW b \in Packet, Before(a, b), Decodes(a), Decodes(b)
               PROVE  Follows(a, b)'
    BY <1>4 DEF InOrder, Decodes, Before
  <2> QED BY <1>0, <1>2, <1>4, FollowsStep DEF InOrder
<1>5. captured' = captured \/ \E p \in Packet : NextPacket(p)
  BY DEF Next, CaptureStep, MainStep, SkipDrain, SendDrained, NextEcho, NextTimeout, NextError,
         CapturePanics, Tick, Recv, Prepare, MainExits, SendDatagram, Stopped, vars
<1> QED BY <1>1, <1>3, <1>4, <1>5 DEF OrderInv

(* Recorded packets go through the agent in the order of capture.          *)
LEMMA OrderInvariant == Spec => []OrderInv
<1>1. Init => OrderInv
  BY DEF Init, OrderInv, InOrder, LostAtEnd, Before
<1> QED BY <1>1, OrderNext, TypeCorrect, LocatedInvariant, PTL DEF Spec

(* Of two packets of one flow the later one is not exported first.         *)
THEOREM ExportInCaptureOrder == Spec => []WindowsInOrder
<1>1. TypeOK /\ Located /\ OrderInv => WindowsInOrder
  <2> SUFFICES ASSUME TypeOK, Located, OrderInv,
                      NEW i \in 1 .. Len(captured), NEW j \in 1 .. Len(captured), i < j,
                      Decodes(captured[i]), KeyOf[captured[i]] = KeyOf[captured[j]],
                      captured[j] \in Processed
               PROVE  captured[i] \in Processed
    BY DEF WindowsInOrder
  <2>1. captured[i] \in Packet /\ captured[j] \in Packet /\ Decodes(captured[j])
    BY DEF TypeOK, Decodes
  <2>2. Before(captured[i], captured[j])
    BY DEF Before
  <2> QED BY <2>1, <2>2 DEF OrderInv, InOrder, Follows, NotBehind
<1> QED BY <1>1, TypeCorrect, LocatedInvariant, OrderInvariant, PTL

(* What is lost when the capture thread dies is the tail of the capture.   *)
THEOREM LossIsATail == Spec => []OnlyTailLost
<1>1. TypeOK /\ Located /\ OrderInv => OnlyTailLost
  <2> SUFFICES ASSUME TypeOK, Located, OrderInv,
                      NEW i \in 1 .. Len(captured), NEW j \in 1 .. Len(captured), i < j,
                      captured[i] \in lost, Decodes(captured[j])
               PROVE  captured[j] \in lost
    BY DEF OnlyTailLost
  <2>1. captured[i] \in Packet /\ captured[j] \in Packet /\ captured[i] # Echo
    BY AgentAssumption DEF TypeOK
  <2>2. captured[i] \in Recorded
    BY <2>1 DEF Located, Partition
  <2>3. Before(captured[i], captured[j]) /\ Decodes(captured[i])
    BY <2>2 DEF Before, Recorded
  <2> QED BY <2>1, <2>3 DEF OrderInv, InOrder, Follows
<1> QED BY <1>1, TypeCorrect, LocatedInvariant, OrderInvariant, PTL

-----------------------------------------------------------------------------
(* The end of a packet, and the end of the process.                        *)

(* A packet meets one fate, once: what was exported is not exported again, *)
(* nor found lost later; no step of either thread, whatever it races with, *)
(* changes what became of a packet (flow.rs:138-140, main.rs:54-62).       *)
FateIsFinal ==
  [][\A p \in Settled \ {Echo} : /\ p \in exported' <=> p \in exported
                                 /\ p \in failed'   <=> p \in failed
                                 /\ p \in withheld' <=> p \in withheld
                                 /\ p \in lost'     <=> p \in lost]_vars

(* Fates only grow.                                                        *)
LEMMA FatesGrow ==
  [Next]_vars => /\ exported \subseteq exported' /\ failed \subseteq failed'
                 /\ withheld \subseteq withheld' /\ lost \subseteq lost'
<1> SUFFICES ASSUME [Next]_vars
             PROVE  /\ exported \subseteq exported' /\ failed \subseteq failed'
                    /\ withheld \subseteq withheld' /\ lost \subseteq lost'
  OBVIOUS
<1>1. CASE SkipDrain \/ (\E p \in Packet : NextPacket(p)) \/ NextEcho \/ NextTimeout \/ NextError \/ Tick
  BY <1>1 DEF SkipDrain, NextPacket, NextEcho, NextTimeout, NextError, Tick, fates
<1>2. CASE SendDrained \/ CapturePanics
  BY <1>2 DEF SendDrained, CapturePanics
<1>3. CASE Recv \/ MainExits \/ UNCHANGED vars
  BY <1>3 DEF Recv, MainExits, vars, fates
<1>4. CASE Prepare
  BY <1>4 DEF Prepare
<1>5. ASSUME NEW S \in (SUBSET Flows(batch)) \ {{}}, SendDatagram(S)
      PROVE  /\ exported \subseteq exported' /\ failed \subseteq failed'
             /\ withheld \subseteq withheld' /\ lost \subseteq lost'
  BY <1>5 DEF SendDatagram
<1> QED BY <1>1, <1>2, <1>3, <1>4, <1>5 DEF Next, CaptureStep, MainStep, Stopped

(* No packet that has met its fate meets another: it is nowhere else.      *)
THEOREM EachFateOnce == Spec => FateIsFinal
<1> DEFINE Kept ==
      \A p \in Settled \ {Echo} : /\ p \in exported' <=> p \in exported
                                  /\ p \in failed'   <=> p \in failed
                                  /\ p \in withheld' <=> p \in withheld
                                  /\ p \in lost'     <=> p \in lost
<1>1. Located' /\ [Next]_vars => Kept
  <2> SUFFICES ASSUME Located', [Next]_vars, NEW p \in Settled \ {Echo}
               PROVE  /\ p \in exported' <=> p \in exported
                      /\ p \in failed'   <=> p \in failed
                      /\ p \in withheld' <=> p \in withheld
                      /\ p \in lost'     <=> p \in lost
    OBVIOUS
  <2>1. /\ exported \subseteq exported' /\ failed \subseteq failed'
        /\ withheld \subseteq withheld' /\ lost \subseteq lost'
    BY FatesGrow
  <2>2. /\ Apart(exported', failed') /\ Apart(exported', withheld') /\ Apart(exported', lost')
        /\ Apart(failed', withheld') /\ Apart(failed', lost') /\ Apart(withheld', lost')
    BY DEF Located, Partition, Apart
  <2> QED BY <2>1, <2>2 DEF Apart, Settled, Processed
<1>2. Located' /\ [Next]_vars => [Kept]_vars
  BY <1>1
<1> HIDE DEF Kept
<1>3. Spec => [][Kept]_vars
  BY <1>2, LocatedInvariant, PTL DEF Spec
<1> QED BY <1>3 DEF FateIsFinal, Kept

(* A thread that has ended has left nothing where it worked.               *)
Emptied ==
  /\ capPc = "done" => Within(table) = {}
  /\ mainPc = "exited" => chan = <<>>

(* Every step of either thread leaves it so.                               *)
LEMMA EmptiedNext == ReceiverOutlivesSender /\ Emptied /\ [Next]_vars => Emptied'
<1> SUFFICES ASSUME ReceiverOutlivesSender, Emptied, [Next]_vars PROVE Emptied'
  OBVIOUS
<1>1. CASE SkipDrain \/ (\E p \in Packet : NextPacket(p)) \/ NextEcho \/ NextTimeout \/ NextError \/ Tick
  <2>1. capPc' # "done" /\ UNCHANGED <<chan, mainPc>>
    BY <1>1 DEF SkipDrain, NextPacket, NextEcho, NextTimeout, NextError, Tick, mainVars
  <2> QED BY <2>1 DEF Emptied
<1>2. CASE SendDrained
  <2>1. capPc # "done" /\ mainPc' = mainPc /\ table' = NoFlows
    BY <1>2 DEF SendDrained, Drain, mainVars
  <2>2. mainPc # "exited" /\ Within(table') = {}
    BY <2>1, WithinNoFlows DEF ReceiverOutlivesSender
  <2> QED BY <2>1, <2>2 DEF Emptied
<1>3. CASE CapturePanics
  <2>1. table' = NoFlows /\ UNCHANGED <<chan, mainPc>>
    BY <1>3 DEF CapturePanics, mainVars
  <2>2. Within(table') = {}
    BY <2>1, WithinNoFlows
  <2> QED BY <2>1, <2>2 DEF Emptied
<1>4. CASE MainStep
  <2>1. UNCHANGED <<capPc, table>> /\ (mainPc' = "exited" => chan' = <<>>)
    BY <1>4 DEF MainStep, Recv, Prepare, MainExits, SendDatagram, capVars
  <2>2. Within(table') = Within(table)
    BY <2>1 DEF Within
  <2> QED BY <2>1, <2>2 DEF Emptied
<1>5. CASE UNCHANGED vars
  <2>1. UNCHANGED <<capPc, table, chan, mainPc>>
    BY <1>5 DEF vars, capVars, mainVars
  <2>2. Within(table') = Within(table)
    BY <2>1 DEF Within
  <2> QED BY <2>1, <2>2 DEF Emptied
<1> QED BY <1>1, <1>2, <1>3, <1>4, <1>5 DEF Next, CaptureStep, Stopped

(* The process ends with every recorded packet accounted for.              *)
THEOREM AllSettledAtExit == Spec => []NothingLeftBehind
<1>1. Init => Emptied
  BY DEF Init, Emptied
<1>2. Spec => []Emptied
  BY <1>1, EmptiedNext, SendNeverFails, PTL DEF Spec
<1>3. Located /\ ReceiverOutlivesSender /\ Emptied => NothingLeftBehind
  <2> SUFFICES ASSUME Located, ReceiverOutlivesSender, Emptied, mainPc = "exited"
               PROVE  Recorded = Settled \ {Echo}
    BY DEF NothingLeftBehind, Recorded
  <2>1. Within(table) = {} /\ Within(batch) = {} /\ chan = <<>>
    BY DEF Emptied, ReceiverOutlivesSender, Located
  <2>2. Queued = {}
    BY <2>1, QueuedMember
  <2> QED BY <2>1, <2>2 DEF Located, Partition, Settled, Processed
<1> QED BY <1>2, <1>3, LocatedInvariant, SendNeverFails, PTL

-----------------------------------------------------------------------------
(* The ledger.                                                             *)

(* What the proof knows of a state.                                        *)
Known == TypeOK /\ Located /\ OrderInv /\ FilterInv /\ ReceiverOutlivesSender

(* The invariants of AgentProofs, taken together.                          *)
LEMMA KnownInvariant == Spec => []Known
  BY TypeCorrect, LocatedInvariant, OrderInvariant, FilterInvariant, SendNeverFails, PTL DEF Known

(* The filter tells apart what the ledger does.                            *)
LEMMA FilterIsLedgers == CollectorTraffic = {k \in Key : IsSelfExport(k)}
  BY DEF CollectorTraffic, IsSelfExport

(* The ledger records what the agent records.                              *)
LEMMA SameRecord == L!Recorded = Recorded /\ \A a, b : L!Before(a, b) <=> Before(a, b)
  BY DEF L!Recorded, L!Logged, Recorded, Seen, Decodes, L!Before, Before

(* What is pending is in the table, in the channel or in hand.             *)
LEMMA PendingIs ==
  ASSUME Known
  PROVE  L!Pending = (Within(table) \cup Queued \cup Within(batch)) \ {Echo}
<1>1. Partition(Within(table), Queued, Within(batch), exported, failed, withheld, lost, Recorded)
  BY DEF Known, Located
<1>2. L!Pending = Recorded \ ((exported \ {Echo}) \cup (failed \ {Echo})
                              \cup (withheld \ {Echo}) \cup (lost \ {Echo}))
  BY SameRecord DEF L!Pending
<1>3. \A x : x \in L!Pending <=> x \in (Within(table) \cup Queued \cup Within(batch)) \ {Echo}
  <2> SUFFICES ASSUME NEW x
               PROVE  x \in L!Pending <=> x \in (Within(table) \cup Queued \cup Within(batch)) \ {Echo}
    OBVIOUS
  <2>1. x # Echo => (x \in L!Pending <=> x \in Recorded
                       /\ x \notin exported /\ x \notin failed /\ x \notin withheld /\ x \notin lost)
    BY <1>2
  <2>2. Echo \notin Recorded
    BY <1>1 DEF Partition
  <2>3. L!Pending \subseteq Recorded
    BY <1>2
  <2>4. CASE x = Echo
    BY <2>2, <2>3, <2>4
  <2>5. CASE x # Echo
    BY <1>1, <2>1, <2>5 DEF Partition, Apart
  <2> QED BY <2>4, <2>5
<1> QED BY <1>3

(* A recorded packet is one of another program, and decodes.               *)
LEMMA RecordedFacts ==
  ASSUME Known, NEW p \in Recorded
  PROVE  p \in Packet /\ Decodes(p) /\ p # Echo
  BY AgentAssumption DEF Known, TypeOK, Recorded, Seen

(* A step that moves no packet to its fate is invisible to the ledger.     *)
LEMMA Hidden ==
  ASSUME UNCHANGED <<captured, exported, failed, withheld, lost>>,
         capPc' = "done" <=> capPc = "done"
  PROVE  UNCHANGED L!vars
<1>1. (capPc = "done")' = (capPc = "done")
  OBVIOUS
<1> QED BY <1>1 DEF L!vars, L!fates

(* Some flows of the map in hand may be settled together.                  *)
LEMMA BatchMaySettle ==
  ASSUME Known, NEW T, T \subseteq Key,
         (UNION {batch[k] : k \in T}) \ {Echo} # {}
  PROVE  L!MaySettle((UNION {batch[k] : k \in T}) \ {Echo})
<1> DEFINE S == (UNION {batch[k] : k \in T}) \ {Echo}
<1>1. IsFlowMap(batch) /\ InOrder
  BY DEF Known, TypeOK, OrderInv
<1>2. S \subseteq Within(batch) \ {Echo}
  BY DEF Within
<1>3. S \subseteq L!Pending
  BY <1>2, PendingIs
<1>4. L!Pending \subseteq Recorded
  BY SameRecord DEF L!Pending
<1>5. ASSUME NEW p \in L!Pending, NEW q \in S, KeyOf[p] = KeyOf[q], L!Before(p, q)
      PROVE  p \in S
  <2>1. /\ p \in Packet /\ Decodes(p) /\ p # Echo
        /\ q \in Packet /\ Decodes(q) /\ q # Echo
    BY <1>3, <1>4, <1>5, RecordedFacts
  <2>2. Follows(p, q)
    BY <1>1, <1>5, <2>1, SameRecord DEF InOrder
  <2>3. p \in Within(batch) \cup Processed
    BY <1>2, <1>5, <2>2 DEF Follows, NotBehind
  <2>4. p \notin Processed
    BY <1>5, <2>1 DEF L!Pending, Processed
  <2>5. KeyOf[q] \in T
    <3>1. q \in UNION {batch[k] : k \in T}
      BY <1>5
    <3>2. IsFlowMap(batch) /\ q \in Packet /\ Decodes(q) /\ T \subseteq Key
      BY <1>1, <2>1
    <3> HIDE DEF S
    <3>3. q \in UNION {batch[k] : k \in T} <=> KeyOf[q] \in T /\ q \in Within(batch)
      BY <3>2, OwnKeySplit
    <3> QED BY <3>1, <3>3
  <2> QED BY <1>1, <1>5, <2>1, <2>3, <2>4, <2>5, OwnKeySplit
<1> HIDE DEF S
<1>6. S # {}
  BY DEF S
<1>7. L!MaySettle(S)
  BY <1>3, <1>5, <1>6 DEF L!MaySettle
<1> QED BY <1>7 DEF S

(* The records of a datagram are exported together, or fail together.      *)
LEMMA SendIsExport ==
  ASSUME Known, NEW T \in (SUBSET Flows(batch)) \ {{}}, SendDatagram(T)
  PROVE  [L!Next]_(L!vars)
<1> DEFINE sent == UNION {batch[k] : k \in T}
           S == sent \ {Echo}
<1>1. /\ mainPc = "flush" /\ UNCHANGED <<capPc, captured, withheld, lost>>
      /\ \/ exported' = exported \cup sent /\ failed' = failed
         \/ failed' = failed \cup sent /\ exported' = exported
  BY DEF SendDatagram, capVars
<1>2. T \subseteq Key
  BY FlowsInKey
<1>3. \/ exported' \ {Echo} = (exported \ {Echo}) \cup S /\ failed' = failed
      \/ failed' \ {Echo} = (failed \ {Echo}) \cup S /\ exported' = exported
  BY <1>1
<1>4. CASE S = {}
  <2>1. /\ exported' \ {Echo} = exported \ {Echo} /\ failed' \ {Echo} = failed \ {Echo}
        /\ withheld' \ {Echo} = withheld \ {Echo} /\ lost' \ {Echo} = lost \ {Echo}
        /\ captured' = captured /\ (capPc = "done")' = (capPc = "done")
    BY <1>1, <1>3, <1>4
  <2> QED BY <2>1 DEF L!vars, L!fates
<1>5. CASE S # {}
  <2>1. L!MaySettle(S)
    BY <1>2, <1>5, BatchMaySettle
  <2>2. \A p \in S : KeyOf[p] \notin CollectorTraffic
    <3> SUFFICES ASSUME NEW p \in S, KeyOf[p] \in Key, IsSelfExport(KeyOf[p]) PROVE FALSE
      BY FilterIsLedgers
    <3>1. S \subseteq L!Pending /\ L!Pending \subseteq Recorded
      BY <2>1, SameRecord DEF L!MaySettle, L!Pending
    <3>2. p \in Packet /\ Decodes(p)
      BY <3>1, RecordedFacts
    <3>3. IsFlowMap(batch) /\ batch[KeyOf[p]] = {}
      BY <1>1 DEF Known, TypeOK, FilterInv
    <3>4. p \in Within(batch)
      BY <1>2 DEF Within
    <3> QED BY <3>2, <3>3, <3>4, OwnKey
  <2>3. S \in SUBSET L!Pending
    BY <2>1 DEF L!MaySettle
  <2> HIDE DEF S, sent
  <2>4. (capPc = "done")' = (capPc = "done")
    BY <1>1
  <2>5. L!Export(S)
    BY <1>1, <1>3, <2>1, <2>2, <2>4 DEF L!Export
  <2> QED BY <2>3, <2>5 DEF L!Next
<1> QED BY <1>4, <1>5

(* The filter withholds what it takes out of a map.                        *)
LEMMA PrepareIsWithhold ==
  ASSUME Known, Prepare
  PROVE  [L!Next]_(L!vars)
<1> DEFINE T == {k \in Key : IsSelfExport(k)}
           S == (UNION {batch[k] : k \in T}) \ {Echo}
<1>1. /\ UNCHANGED <<capPc, captured, exported, failed, lost>>
      /\ withheld' = withheld \cup UNION {batch[k] : k \in T}
  BY DEF Prepare, capVars
<1>2. withheld' \ {Echo} = (withheld \ {Echo}) \cup S /\ (capPc = "done")' = (capPc = "done")
  BY <1>1
<1>3. CASE S = {}
  <2>1. withheld' \ {Echo} = withheld \ {Echo}
    BY <1>2, <1>3
  <2> QED BY <1>1, <1>2, <2>1 DEF L!vars, L!fates
<1>4. CASE S # {}
  <2>1. L!MaySettle(S)
    BY <1>4, BatchMaySettle
  <2>2. \A p \in S : KeyOf[p] \in T
    <3> SUFFICES ASSUME NEW p \in S PROVE KeyOf[p] \in T
      OBVIOUS
    <3>1. p \in Recorded
      BY <2>1, SameRecord DEF L!MaySettle, L!Pending
    <3>2. p \in Packet /\ Decodes(p) /\ IsFlowMap(batch)
      BY <3>1, RecordedFacts DEF Known, TypeOK
    <3> QED BY <3>2, OwnKeySplit
  <2>3. S \in SUBSET L!Pending
    BY <2>1 DEF L!MaySettle
  <2> HIDE DEF S
  <2>4. L!Withhold(S)
    BY <1>1, <1>2, <2>1, <2>2, FilterIsLedgers DEF L!Withhold
  <2> QED BY <2>3, <2>4 DEF L!Next
<1> QED BY <1>3, <1>4

(* The death of the capture thread closes the ledger, and what was in the  *)
(* table is the tail of the record.                                        *)
LEMMA PanicIsClose ==
  ASSUME Known, CapturePanics
  PROVE  [L!Next]_(L!vars)
<1> DEFINE S == Within(table) \ {Echo}
<1>1. /\ capPc = "poll" /\ capPc' = "done" /\ lost' = lost \cup Within(table)
      /\ UNCHANGED <<captured, exported, failed, withheld>>
  BY DEF CapturePanics
<1>2. S \subseteq L!Pending /\ L!Pending \subseteq Recorded
  BY PendingIs, SameRecord DEF L!Pending
<1>3. ASSUME NEW p \in S, NEW q \in L!Recorded, L!Before(p, q)
      PROVE  q \in S
  <2>1. /\ p \in Packet /\ Decodes(p)
        /\ q \in Packet /\ Decodes(q) /\ q # Echo
    BY <1>2, <1>3, SameRecord, RecordedFacts
  <2>2. Follows(p, q)
    BY <1>3, <2>1, SameRecord DEF Known, OrderInv, InOrder
  <2> QED BY <2>1, <2>2 DEF Follows
<1>4. lost' \ {Echo} = (lost \ {Echo}) \cup S
  BY <1>1
<1> HIDE DEF S
<1>5. (capPc = "done")' = TRUE /\ ~(capPc = "done")
  BY <1>1
<1>6. L!Close(S)
  BY <1>1, <1>2, <1>3, <1>4, <1>5 DEF L!Close
<1> QED BY <1>2, <1>6 DEF L!Next

(* A packet returned by next_packet is captured in the ledger.             *)
LEMMA PacketIsCapture ==
  ASSUME Known, NEW p \in Packet, NextPacket(p)
  PROVE  L!Next
<1>1. /\ ~(capPc = "done") /\ p \notin L!Logged
      /\ captured' = Append(captured, p)
      /\ UNCHANGED <<exported, failed, withheld, lost>>
      /\ (capPc = "done")' = (capPc = "done")
  BY DEF NextPacket, fates, L!Logged, Seen
<1>2. L!Capture(p)
  BY <1>1 DEF L!Capture, L!fates
<1> QED BY <1>2 DEF L!Next

(* Every step of the agent is a step of the ledger, or invisible to it.    *)
LEMMA StepRefines == Known /\ [Next]_vars => [L!Next]_(L!vars)
<1> SUFFICES ASSUME Known, [Next]_vars PROVE [L!Next]_(L!vars)
  OBVIOUS
<1>1. CASE SkipDrain \/ NextEcho \/ NextTimeout \/ NextError \/ Tick
  BY <1>1, Hidden DEF SkipDrain, NextEcho, NextTimeout, NextError, Tick, fates
<1>2. CASE SendDrained
  <2>1. mainPc # "exited"
    BY <1>2 DEF SendDrained, Known, ReceiverOutlivesSender
  <2> QED BY <1>2, <2>1, Hidden DEF SendDrained
<1>3. ASSUME NEW p \in Packet, NextPacket(p) PROVE L!Next
  BY <1>3, PacketIsCapture
<1>4. CASE CapturePanics
  BY <1>4, PanicIsClose
<1>5. CASE Recv \/ MainExits \/ UNCHANGED vars
  BY <1>5, Hidden DEF Recv, MainExits, vars, capVars, fates
<1>6. CASE Prepare
  BY <1>6, PrepareIsWithhold
<1>7. ASSUME NEW T \in (SUBSET Flows(batch)) \ {{}}, SendDatagram(T) PROVE [L!Next]_(L!vars)
  BY <1>7, SendIsExport
<1> QED BY <1>1, <1>2, <1>3, <1>4, <1>5, <1>6, <1>7 DEF Next, CaptureStep, MainStep, Stopped

(* The agent implements the ledger (capture.rs:33-54, main.rs:54-62).      *)
THEOREM AgentImplementsLedger == Spec => ImplementsLedger
<1>1. Init => L!Init
  BY DEF Init, L!Init
<1> QED BY <1>1, StepRefines, KnownInvariant, PTL DEF Spec, ImplementsLedger, L!Spec
=============================================================================
