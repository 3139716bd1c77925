-------------------------- MODULE DirectionProofs --------------------------
(***************************************************************************)
(* Directions while the addresses of the interface change, for every set   *)
(* of flows and every device list libpcap may return.                      *)
(***************************************************************************)
EXTENDS Direction, TLAPS

-----------------------------------------------------------------------------
(* Types.                                                                  *)

(* A map of flows on its way from the table to the exporter.               *)
Waiting == UNION {[D -> Nat] : D \in SUBSET Flow}

Maps == table \in Waiting /\ batch \in Waiting /\ chan \in Seq(Waiting)

(* Device lists are only ever added.                                       *)
LEMMA Grows ==
  ASSUME TypeOK, [Next]_vars
  PROVE  /\ link_type' = link_type /\ devices' \in Seq(DeviceLists)
         /\ Len(devices) \in Nat \ {0} /\ Len(devices') \in Nat /\ Len(devices) <= Len(devices')
         /\ \A i \in 1 .. Len(devices) : devices'[i] = devices[i]
<1>0. devices \in Seq(DeviceLists) /\ devices # <<>>
  BY DEF TypeOK
<1>1. link_type' = link_type
  BY DEF Next, Record, Label, Drain, Recv, Reconfigure, vars
<1>2. CASE devices' = devices
  BY <1>0, <1>1, <1>2
<1>3. ASSUME NEW list \in DeviceLists, devices' = Append(devices, list)
      PROVE  /\ devices' \in Seq(DeviceLists)
             /\ Len(devices) \in Nat \ {0} /\ Len(devices') \in Nat /\ Len(devices) <= Len(devices')
             /\ \A i \in 1 .. Len(devices) : devices'[i] = devices[i]
  BY <1>0, <1>3
<1>4. devices' = devices \/ \E list \in DeviceLists : devices' = Append(devices, list)
  BY DEF Next, Record, Label, Drain, Recv, Reconfigure, vars
<1> QED BY <1>1, <1>2, <1>3, <1>4

(* Addresses of the interface are addresses of a device.                   *)
LEMMA AddressTypes ==
  ASSUME NEW d \in DeviceLists, NEW type
  PROVE  InterfaceAddresses(d, type) \subseteq UNION {UNION {e[x] : x \in DOMAIN e} : e \in DeviceLists}
  BY DEF InterfaceAddresses

(* A direction is one of three.                                            *)
LEMMA DirectionTypes ==
  ASSUME NEW k, NEW my
  PROVE  GetDirection(k, my) \in {"in", "out", None}
  BY DEF GetDirection, Guessed

(* What waits goes on waiting, with device lists that were there before.   *)
LEMMA WaitsOn ==
  ASSUME TypeOK, [Next]_vars, NEW m, IsWaiting(m)
  PROVE  IsWaiting(m)'
<1> SUFFICES ASSUME NEW k \in DOMAIN m PROVE m[k] \in 1 .. Len(devices')
  BY DEF IsWaiting
<1>1. m[k] \in 1 .. Len(devices)
  BY DEF IsWaiting
<1> QED BY <1>1, Grows

(* The two parts of TypeOK that change together.                           *)
Waits == IsWaiting(table) /\ IsWaiting(batch) /\ \A i \in 1 .. Len(chan) : IsWaiting(chan[i])
Labels ==
  \A l \in flows : /\ l.key \in Flow \ (SelfExport \cup DOMAIN batch)
                   /\ l.direction \in {"in", "out", None}
                   /\ l.to \in 1 .. Len(devices) /\ l.from \in 1 .. l.to
                   /\ \A m \in flows : m.key = l.key => m = l
AddressesOK == addrs \subseteq UNION {UNION {d[x] : x \in DOMAIN d} : d \in DeviceLists}

(* What was labelled stays so if nothing more is.                          *)
LEMMA LabelsKept ==
  ASSUME TypeOK, [Next]_vars, UNCHANGED <<flows, batch>>
  PROVE  Labels'
<1>1. Labels
  BY DEF TypeOK, Labels
<1>2. \A l \in flows : l.to \in 1 .. Len(devices')
  BY <1>1, Grows DEF Labels
<1> QED BY <1>1, <1>2 DEF Labels

(* Every step keeps the types.                                             *)
LEMMA TypesNext == TypeOK /\ Maps /\ [Next]_vars => TypeOK' /\ Maps'
<1> SUFFICES ASSUME TypeOK, Maps, [Next]_vars PROVE TypeOK' /\ Maps'
  OBVIOUS
<1>1. link_type' \in LinkTypes /\ devices' \in Seq(DeviceLists) /\ devices' # <<>>
  <2>1. link_type' = link_type /\ devices' \in Seq(DeviceLists) /\ Len(devices') # 0
    BY Grows
  <2> QED BY <2>1 DEF TypeOK
<1>2. Waits /\ Labels /\ AddressesOK
  BY DEF TypeOK, Waits, Labels, AddressesOK
<1>3. Waits' /\ Labels' /\ AddressesOK' /\ Maps' => TypeOK' /\ Maps'
  BY <1>1 DEF TypeOK, Waits, Labels, AddressesOK
<1>4. Len(devices) \in Nat \ {0}
  BY Grows
<1>5. \A m : IsWaiting(m) => IsWaiting(m)'
  BY WaitsOn
<1>6. chan \in Seq(Waiting) /\ table \in Waiting /\ batch \in Waiting
  BY DEF Maps
<1>7. UNCHANGED <<table, batch, chan>> => Waits' /\ Maps'
  BY <1>2, <1>5 DEF Waits, Maps
<1>8. ASSUME NEW k \in Flow, Record(k) PROVE Waits' /\ Labels' /\ AddressesOK' /\ Maps'
  <2>1. /\ table' = [j \in DOMAIN table \cup {k} |-> IF j = k THEN Len(devices) ELSE table[j]]
        /\ UNCHANGED <<link_type, devices, chan, batch, addrs, flows>>
    BY <1>8 DEF Record
  <2>2. DOMAIN table \subseteq Flow /\ \A j \in DOMAIN table : table[j] \in 1 .. Len(devices)
    BY <1>2 DEF Waits, IsWaiting
  <2>3. PICK t : t = table'
    OBVIOUS
  <2>4. DOMAIN t \subseteq Flow /\ \A j \in DOMAIN t : t[j] \in 1 .. Len(devices)
    BY <1>4, <2>1, <2>2, <2>3
  <2>5. t \in [DOMAIN table \cup {k} -> Nat]
    BY <1>4, <2>1, <2>2, <2>3
  <2>6. t \in Waiting
    BY <2>2, <2>5 DEF Waiting
  <2>7. IsWaiting(t)
    BY <2>4 DEF IsWaiting
  <2> QED BY <1>2, <1>5, <1>6, <2>1, <2>3, <2>6, <2>7, LabelsKept DEF Waits, Maps, AddressesOK
<1>9. ASSUME NEW k \in Flow, Label(k) PROVE Waits' /\ Labels' /\ AddressesOK' /\ Maps'
  <2>1. /\ k \in DOMAIN batch /\ batch' = [j \in DOMAIN batch \ {k} |-> batch[j]]
        /\ UNCHANGED <<link_type, devices, table, chan, addrs>>
    BY <1>9 DEF Label
  <2>2. DOMAIN batch \subseteq Flow /\ \A j \in DOMAIN batch : batch[j] \in 1 .. Len(devices)
    BY <1>2 DEF Waits, IsWaiting
  <2>3. PICK b : b = batch'
    OBVIOUS
  <2>4. b \in [DOMAIN batch \ {k} -> Nat] /\ DOMAIN b = DOMAIN batch \ {k}
    BY <1>4, <2>1, <2>2, <2>3
  <2>5. b \in Waiting
    BY <2>2, <2>4 DEF Waiting
  <2>6. IsWaiting(b)
    BY <2>1, <2>2, <2>3, <2>4 DEF IsWaiting
  <2>7. Waits' /\ AddressesOK' /\ Maps'
    BY <1>2, <1>5, <1>6, <2>1, <2>3, <2>5, <2>6 DEF Waits, Maps, AddressesOK
  <2>8. Labels'
    <3>1. DOMAIN batch' = DOMAIN batch \ {k}
      BY <2>3, <2>4
    <3>2. CASE flows' = flows
      BY <1>2, <2>1, <3>1, <3>2 DEF Labels
    <3>3. CASE flows' # flows
      <4> DEFINE e == [key |-> k, direction |-> GetDirection(k, MyAddresses),
                       from |-> batch[k], to |-> Len(devices)]
      <4>1. flows' = flows \cup {e} /\ k \notin SelfExport
        BY <1>9, <3>3 DEF Label, Withheld
      <4>2. /\ e.key = k /\ e.direction \in {"in", "out", None}
            /\ e.to = Len(devices) /\ e.from = batch[k]
        BY DirectionTypes
      <4> HIDE DEF e
      <4>3. /\ e.key \in Flow \ (SelfExport \cup DOMAIN batch')
            /\ e.to \in 1 .. Len(devices) /\ e.from \in 1 .. e.to
        BY <1>4, <2>1, <2>2, <3>1, <4>1, <4>2
      <4>4. \A l \in flows : l.key # k
        BY <1>2, <2>1 DEF Labels
      <4>5. \A l \in flows' : \A m \in flows' : m.key = l.key => m = l
        BY <1>2, <4>1, <4>2, <4>4 DEF Labels
      <4>6. \A l \in flows' : /\ l.key \in Flow \ (SelfExport \cup DOMAIN batch')
                              /\ l.direction \in {"in", "out", None}
                              /\ l.to \in 1 .. Len(devices) /\ l.from \in 1 .. l.to
        BY <1>2, <3>1, <4>1, <4>2, <4>3 DEF Labels
      <4> QED BY <2>1, <4>5, <4>6 DEF Labels
    <3> QED BY <3>2, <3>3
  <2> QED BY <2>7, <2>8
<1>10. CASE Drain
  <2>1. /\ chan' = Append(chan, table) /\ table' = NoFlows
        /\ UNCHANGED <<link_type, devices, batch, addrs, flows>>
    BY <1>10 DEF Drain
  <2>2. NoFlows \in Waiting /\ IsWaiting(NoFlows)
    <3>1. NoFlows \in [{} -> Nat] /\ {} \in SUBSET Flow /\ DOMAIN NoFlows = {}
      BY DEF NoFlows
    <3> QED BY <3>1 DEF Waiting, IsWaiting
  <2>3. PICK c : c = chan'
    OBVIOUS
  <2>4. /\ c \in Seq(Waiting) /\ Len(c) = Len(chan) + 1 /\ Len(chan) \in Nat
        /\ \A i \in 1 .. Len(chan) : c[i] = chan[i]
        /\ c[Len(chan) + 1] = table
    BY <1>6, <2>1, <2>3
  <2>5. ASSUME NEW i \in 1 .. Len(c) PROVE IsWaiting(c[i])
    <3>1. i \in 1 .. Len(chan) \/ i = Len(chan) + 1
      BY <2>4
    <3> QED BY <1>2, <2>4, <3>1 DEF Waits
  <2>6. Waits'
    BY <1>2, <1>5, <2>1, <2>2, <2>3, <2>5 DEF Waits
  <2>7. Maps'
    BY <1>6, <2>1, <2>2, <2>3, <2>4 DEF Maps
  <2>8. Labels'
    BY <2>1, LabelsKept
  <2>9. AddressesOK'
    BY <1>2, <2>1 DEF AddressesOK
  <2> QED BY <1>3, <2>6, <2>7, <2>8, <2>9
<1>11. CASE Recv
  <2>1. /\ chan # <<>> /\ batch' = Head(chan) /\ chan' = Tail(chan)
        /\ addrs' \in {InterfaceAddresses(Current, link_type), {}} /\ flows' = {}
        /\ UNCHANGED <<link_type, devices, table>>
    BY <1>11 DEF Recv, Snapshot
  <2>2. /\ Tail(chan) \in Seq(Waiting) /\ Len(Tail(chan)) = Len(chan) - 1
        /\ \A i \in 1 .. Len(chan) - 1 : Tail(chan)[i] = chan[i+1] /\ i+1 \in 1 .. Len(chan)
        /\ Head(chan) = chan[1] /\ 1 \in 1 .. Len(chan) /\ chan[1] \in Waiting
    BY <1>6, <2>1
  <2>3. \A i \in 1 .. Len(Tail(chan)) : IsWaiting(Tail(chan)[i])
    BY <1>2, <2>2 DEF Waits
  <2>4. IsWaiting(Head(chan))
    BY <1>2, <2>2 DEF Waits
  <2>5. Waits'
    BY <1>2, <1>5, <2>1, <2>3, <2>4 DEF Waits
  <2>6. Current \in DeviceLists
    BY <1>4 DEF TypeOK, Current
  <2>7. AddressesOK'
    BY <2>1, <2>6, AddressTypes DEF AddressesOK
  <2>8. Maps'
    BY <1>6, <2>1, <2>2 DEF Maps
  <2>9. Labels'
    BY <2>1 DEF Labels
  <2> QED BY <1>3, <2>5, <2>7, <2>8, <2>9
<1>12. ASSUME NEW list \in DeviceLists, Reconfigure(list)
       PROVE  Waits' /\ Labels' /\ AddressesOK' /\ Maps'
  BY <1>2, <1>7, <1>12, LabelsKept DEF Reconfigure, AddressesOK
<1>13. CASE UNCHANGED vars
  <2>1. UNCHANGED <<table, chan, batch, addrs, flows>>
    BY <1>13 DEF vars
  <2>2. Waits' /\ Maps'
    BY <1>7, <2>1
  <2>3. Labels'
    BY <2>1, LabelsKept
  <2>4. AddressesOK'
    BY <1>2, <2>1 DEF AddressesOK
  <2> QED BY <1>3, <2>2, <2>3, <2>4
<1> QED BY <1>3, <1>8, <1>9, <1>10, <1>11, <1>12, <1>13 DEF Next

(* Nothing has been recorded yet.                                          *)
LEMMA TypesInit == Init => TypeOK /\ Maps
<1> SUFFICES ASSUME Init PROVE TypeOK /\ Maps
  OBVIOUS
<1>1. NoFlows \in Waiting /\ IsWaiting(NoFlows)
  <2>1. NoFlows \in [{} -> Nat] /\ {} \in SUBSET Flow /\ DOMAIN NoFlows = {}
    BY DEF NoFlows
  <2> QED BY <2>1 DEF Waiting, IsWaiting
<1>2. PICK d \in DeviceLists : devices = <<d>>
  BY DEF Init
<1>3. devices \in Seq(DeviceLists) /\ devices # <<>>
  BY <1>2
<1>4. chan = <<>> /\ chan \in Seq(Waiting)
  BY DEF Init
<1> QED BY <1>1, <1>3, <1>4 DEF Init, TypeOK, Maps

(* Types are kept, and no map labels a flow twice.                         *)
THEOREM TypeCorrect == Spec => [](TypeOK /\ Maps)
  BY TypesInit, TypesNext, PTL DEF Spec

-----------------------------------------------------------------------------
(* Directions.                                                             *)

(* The addresses the interface had while device list i and those up to j   *)
(* were current, or none if they could not be listed.                      *)
Known(i, j) == {InterfaceAddresses(devices[q], link_type) : q \in i .. j} \cup {{}}

(* The snapshot is no older than any flow of the map.                      *)
Fresh == \A k \in DOMAIN batch : addrs \in Known(batch[k], Len(devices))

(* Every flow of the map was judged by the same snapshot, which is of one  *)
(* device list.                                                            *)
OneSnapshot ==
  /\ \A l \in flows : l.direction = GetDirection(l.key, addrs)
  /\ addrs \in {InterfaceAddresses(d, link_type) : d \in DeviceLists} \cup {{}}

(* The device lists there have been stay what they were.                   *)
LEMMA KnownStays ==
  ASSUME TypeOK, [Next]_vars, NEW i \in 1 .. Len(devices), NEW j \in 1 .. Len(devices)
  PROVE  Known(i, j)' = Known(i, j)
<1>1. \A q \in i .. j : devices'[q] = devices[q]
  <2> SUFFICES ASSUME NEW q \in i .. j PROVE devices'[q] = devices[q]
    OBVIOUS
  <2>1. Len(devices) \in Nat
    BY Grows
  <2>2. q \in 1 .. Len(devices)
    BY <2>1
  <2> QED BY <2>2, Grows
<1>2. link_type' = link_type
  BY Grows
<1> QED BY <1>1, <1>2 DEF Known

(* The snapshot stays fresh as device lists are added.                     *)
LEMMA KnownGrows ==
  ASSUME TypeOK, [Next]_vars, NEW i \in 1 .. Len(devices)
  PROVE  Known(i, Len(devices)) \subseteq Known(i, Len(devices))'
<1>1. PICK n, n1 : n = Len(devices) /\ n1 = Len(devices')
  OBVIOUS
<1>2. n \in Nat \ {0} /\ n1 \in Nat /\ n <= n1
  BY <1>1, Grows
<1>3. \A q \in i .. n : devices'[q] = devices[q] /\ q \in i .. n1
  <2> SUFFICES ASSUME NEW q \in i .. n PROVE devices'[q] = devices[q] /\ q \in i .. n1
    OBVIOUS
  <2>1. q \in 1 .. Len(devices) /\ q \in i .. n1
    BY <1>1, <1>2
  <2> QED BY <2>1, Grows
<1>4. link_type' = link_type
  BY Grows
<1> QED BY <1>1, <1>3, <1>4 DEF Known

(* Every step keeps directions true to a fresh snapshot.                   *)
Labelled == TypeOK /\ Maps /\ Fresh /\ OneSnapshot /\ LabelNotStale

LEMMA LabelledNext == Labelled /\ [Next]_vars => Labelled'
<1> SUFFICES ASSUME Labelled, [Next]_vars PROVE Fresh' /\ OneSnapshot' /\ LabelNotStale'
  BY TypesNext DEF Labelled
<1>1. /\ TypeOK /\ Maps /\ Fresh /\ OneSnapshot /\ LabelNotStale
      /\ link_type' = link_type /\ Len(devices) \in Nat \ {0}
  BY Grows DEF Labelled
<1>2. \A k \in DOMAIN batch : batch[k] \in 1 .. Len(devices)
  BY <1>1 DEF TypeOK, IsWaiting
<1>3. \A l : l.from \in 1 .. l.to /\ l.to \in 1 .. Len(devices)
             => Since(l)' = Since(l)
  <2> SUFFICES ASSUME NEW l, l.from \in 1 .. l.to, l.to \in 1 .. Len(devices)
               PROVE  Since(l)' = Since(l)
    OBVIOUS
  <2>1. \A q \in l.from .. l.to : q \in 1 .. Len(devices)
    BY <1>1
  <2>2. \A q \in l.from .. l.to : devices'[q] = devices[q]
    BY <1>1, <2>1, Grows
  <2> QED BY <1>1, <2>2 DEF Since
<1>4. \A l \in flows : Since(l)' = Since(l)
  BY <1>1, <1>3 DEF TypeOK
<1>5. ASSUME UNCHANGED <<batch, addrs, flows>> PROVE Fresh' /\ OneSnapshot' /\ LabelNotStale'
  <2>1. Fresh'
    <3> SUFFICES ASSUME NEW k \in DOMAIN batch PROVE addrs \in Known(batch[k], Len(devices))'
      BY <1>5 DEF Fresh
    <3>1. addrs \in Known(batch[k], Len(devices))
      BY <1>1 DEF Fresh
    <3>2. PICK i \in 1 .. Len(devices) : i = batch[k]
      BY <1>2
    <3>3. Known(i, Len(devices)) \subseteq Known(i, Len(devices))'
      BY <1>1, KnownGrows
    <3>4. batch'[k] = i
      BY <1>5, <3>2
    <3> QED BY <3>1, <3>2, <3>3, <3>4
  <2>2. OneSnapshot'
    BY <1>1, <1>5 DEF OneSnapshot
  <2>3. LabelNotStale'
    BY <1>1, <1>4, <1>5 DEF LabelNotStale
  <2> QED BY <2>1, <2>2, <2>3
<1>6. ASSUME NEW k \in Flow, Label(k) PROVE Fresh' /\ OneSnapshot' /\ LabelNotStale'
  <2>1. /\ k \in DOMAIN batch /\ batch' = [j \in DOMAIN batch \ {k} |-> batch[j]]
        /\ UNCHANGED <<link_type, devices, table, chan, addrs>>
    BY <1>6 DEF Label
  <2> DEFINE e == [key |-> k, direction |-> GetDirection(k, addrs),
                   from |-> batch[k], to |-> Len(devices)]
  <2>2. flows' = flows \/ flows' = flows \cup {e}
    BY <1>6 DEF Label, MyAddresses
  <2>3. e.key = k /\ e.direction = GetDirection(k, addrs) /\ e.from = batch[k] /\ e.to = Len(devices)
    OBVIOUS
  <2> HIDE DEF e
  <2>4. Fresh'
    BY <1>1, <2>1 DEF Fresh, Known
  <2>5. OneSnapshot'
    BY <1>1, <2>1, <2>2, <2>3 DEF OneSnapshot
  <2>6. Since(e) \cup {{}} = Known(batch[k], Len(devices))
    BY <2>3 DEF Since, Known
  <2>7. e.direction \in {GetDirection(e.key, my) : my \in Since(e) \cup {{}}}
    BY <1>1, <2>1, <2>3, <2>6 DEF Fresh
  <2>8. \A l : Since(l)' = Since(l)
    BY <2>1 DEF Since
  <2>9. LabelNotStale'
    BY <1>1, <2>2, <2>7, <2>8 DEF LabelNotStale
  <2> QED BY <2>4, <2>5, <2>9
<1>7. CASE Recv
  <2>1. /\ chan # <<>> /\ batch' = Head(chan)
        /\ addrs' \in {InterfaceAddresses(Current, link_type), {}} /\ flows' = {}
        /\ UNCHANGED <<link_type, devices>>
    BY <1>7 DEF Recv, Snapshot
  <2>2. IsWaiting(Head(chan))
    BY <1>1, <2>1 DEF TypeOK, Maps
  <2>3. Fresh'
    <3> SUFFICES ASSUME NEW k \in DOMAIN Head(chan)
                 PROVE  addrs' \in Known(Head(chan)[k], Len(devices))
      BY <2>1 DEF Fresh, Known
    <3>1. Head(chan)[k] \in 1 .. Len(devices)
      BY <2>2 DEF IsWaiting
    <3>2. Len(devices) \in Head(chan)[k] .. Len(devices)
      BY <1>1, <3>1
    <3> QED BY <2>1, <3>2 DEF Known, Current
  <2>4. Current \in DeviceLists
    BY <1>1 DEF TypeOK, Current
  <2>5. OneSnapshot' /\ LabelNotStale'
    BY <2>1, <2>4 DEF OneSnapshot, LabelNotStale
  <2> QED BY <2>3, <2>5
<1>8. CASE Drain \/ UNCHANGED vars
  BY <1>5, <1>8 DEF Drain, vars
<1>9. ASSUME NEW k \in Flow, Record(k) PROVE Fresh' /\ OneSnapshot' /\ LabelNotStale'
  BY <1>5, <1>9 DEF Record
<1>10. ASSUME NEW list \in DeviceLists, Reconfigure(list)
       PROVE  Fresh' /\ OneSnapshot' /\ LabelNotStale'
  BY <1>5, <1>10 DEF Reconfigure
<1> QED BY <1>6, <1>7, <1>8, <1>9, <1>10 DEF Next

(* Nothing has been judged yet.                                            *)
LEMMA LabelledInit == Init => Labelled
<1> SUFFICES ASSUME Init PROVE Labelled
  OBVIOUS
<1>1. flows = {} /\ addrs = {} /\ DOMAIN batch = {}
  BY DEF Init, NoFlows
<1> QED BY <1>1, TypesInit DEF Labelled, Fresh, OneSnapshot, LabelNotStale

(* The inductive invariant of the directions.                              *)
LEMMA Invariance == Spec => []Labelled
  BY LabelledInit, LabelledNext, PTL DEF Spec

(* A direction follows from addresses the interface had at some moment     *)
(* since the first packet of the window (main.rs:55, flow.rs:74).          *)
THEOREM DirectionsAreFresh == Spec => []LabelNotStale
<1>1. Labelled => LabelNotStale
  BY DEF Labelled
<1> QED BY <1>1, Invariance, PTL

(* The ports decide alone between two ends of the loopback, and a flow     *)
(* nothing is known about has no direction (direction.rs:13-43).           *)
THEOREM DirectionsHaveEvidence == Spec => []NeverAGuess
<1>1. LabelNotStale => NeverAGuess
  <2> SUFFICES ASSUME LabelNotStale, NEW l \in flows
               PROVE  IF ByPort(l.key) THEN l.direction = "out" <=> l.key.src_port > l.key.dst_port
                      ELSE Since(l) = {{}} => l.direction = None
    BY DEF NeverAGuess
  <2>1. PICK my \in Since(l) \cup {{}} : l.direction = GetDirection(l.key, my)
    BY DEF LabelNotStale
  <2>2. CASE ByPort(l.key)
    <3>1. l.direction = IF l.key.src_port > l.key.dst_port THEN "out" ELSE "in"
      BY <2>1, <2>2 DEF GetDirection
    <3> QED BY <2>2, <3>1
  <2>3. CASE ~ByPort(l.key)
    <3>1. Since(l) = {{}} => my = {}
      BY <2>1
    <3> QED BY <2>1, <2>3, <3>1 DEF GetDirection
  <2> QED BY <2>2, <2>3
<1> QED BY <1>1, DirectionsAreFresh, PTL

(* The two ways of a conversation are judged alike (main.rs:55-60).        *)
LEMMA OneView == Labelled => OneViewPerMap
<1> SUFFICES ASSUME Labelled, NEW l \in flows, NEW m \in flows, m.key = Reverse(l.key)
             PROVE  /\ l.direction = None <=> m.direction = None
                    /\ NeverBothLocal(l.key) /\ {l.key.src, l.key.dst} \cap Unspecified = {}
                         => ~ (l.direction = "out" /\ m.direction = "out")
  BY DEF OneViewPerMap
<1> DEFINE a == l.key
           b == m.key
<1>1. /\ a \in Flow /\ b \in Flow
      /\ l.direction = GetDirection(a, addrs) /\ m.direction = GetDirection(b, addrs)
  BY DEF Labelled, TypeOK, OneSnapshot
<1>2. /\ b.src = a.dst /\ b.dst = a.src /\ b.src_port = a.dst_port /\ b.dst_port = a.src_port
  <2>1. {"src", "dst", "src_port", "dst_port"} \subseteq DOMAIN a
    BY <1>1, DirectionAssumption
  <2>2. b = [[[[a EXCEPT !.src = a.dst] EXCEPT !.dst = a.src]
                EXCEPT !.src_port = a.dst_port] EXCEPT !.dst_port = a.src_port]
    BY DEF Reverse
  <2> HIDE DEF a, b
  <2> QED BY <2>1, <2>2
<1>3. {a.src_port, a.dst_port} \subseteq Nat \cup {NoPort}
  BY <1>1, DirectionAssumption
<1> HIDE DEF a, b
<1>4. ByPort(b) <=> ByPort(a)
  BY <1>2 DEF ByPort
<1>5. CASE ByPort(a)
  <2>1. a.src_port \in Nat /\ a.dst_port \in Nat
    BY <1>3, <1>5 DEF ByPort
  <2>2. /\ l.direction = IF a.src_port > a.dst_port THEN "out" ELSE "in"
        /\ m.direction = IF a.dst_port > a.src_port THEN "out" ELSE "in"
    BY <1>1, <1>2, <1>4, <1>5 DEF GetDirection
  <2> QED BY <2>1, <2>2 DEF None
<1>6. CASE ~ByPort(a)
  <2>1. /\ l.direction = IF addrs = {} THEN None ELSE Guessed(a, addrs)
        /\ m.direction = IF addrs = {} THEN None ELSE Guessed(b, addrs)
    BY <1>1, <1>4, <1>6 DEF GetDirection
  <2>2. Guessed(a, addrs) # None /\ Guessed(b, addrs) # None
    BY DEF Guessed, None
  <2>3. ASSUME NeverBothLocal(a), {a.src, a.dst} \cap Unspecified = {},
               l.direction = "out", m.direction = "out"
        PROVE  FALSE
    <3>1. addrs # {}
      BY <2>1, <2>3 DEF None
    <3>2. a.src \in addrs /\ a.dst \in addrs
      BY <1>2, <2>1, <2>3, <3>1 DEF Guessed
    <3>3. PICK d \in DeviceLists : addrs = InterfaceAddresses(d, link_type)
      BY <3>1 DEF Labelled, OneSnapshot
    <3> QED BY <2>3, <3>2, <3>3 DEF NeverBothLocal
  <2> QED BY <2>1, <2>2, <2>3 DEF a
<1> QED BY <1>5, <1>6 DEF a

(* One snapshot of the addresses serves a whole map (main.rs:55-60).       *)
THEOREM ConversationsAgree == Spec => []OneViewPerMap
  BY OneView, Invariance, PTL
=============================================================================
