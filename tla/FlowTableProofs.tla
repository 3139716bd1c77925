-------------------------- MODULE FlowTableProofs --------------------------
(***************************************************************************)
(* The flow table, for every set of packets, every width of the counters   *)
(* and windows of every length.                                            *)
(***************************************************************************)
EXTENDS FlowTable, TLAPS

-----------------------------------------------------------------------------
(* Timestamps.                                                             *)

(* The quotient of a division of naturals, bounded from both sides.        *)
LEMMA Quotient ==
  ASSUME NEW a \in Nat, NEW m \in Nat \ {0}
  PROVE  /\ a \div m \in Nat
         /\ m * (a \div m) <= a
         /\ a < m * (a \div m) + m
  BY SMT

(* There is only one such quotient.                                        *)
LEMMA QuotientUnique ==
  ASSUME NEW a \in Nat, NEW m \in Nat \ {0}, NEW q \in Nat,
         m * q <= a, a < m * q + m
  PROVE  a \div m = q
<1> DEFINE d == a \div m
<1>1. d \in Nat /\ m * d <= a /\ a < m * d + m
  BY Quotient
<1> HIDE DEF d
<1>2. m * d \in Nat /\ m * q \in Nat
  BY <1>1
<1>3. CASE d >= q + 1
  <2>1. m * d >= m * (q + 1) /\ m * (q + 1) = m * q + m
    BY <1>1, <1>3
  <2> QED BY <1>1, <1>2, <2>1
<1>4. CASE q >= d + 1
  <2>1. m * q >= m * (d + 1) /\ m * (d + 1) = m * d + m
    BY <1>1, <1>4
  <2> QED BY <1>1, <1>2, <2>1
<1>5. d = q
  BY <1>1, <1>3, <1>4
<1> QED BY <1>5 DEF d

(* Division keeps the order.                                               *)
LEMMA QuotientMono ==
  ASSUME NEW a \in Nat, NEW b \in Nat, NEW m \in Nat \ {0}, a <= b
  PROVE  a \div m <= b \div m
<1> DEFINE x == a \div m
           y == b \div m
<1>1. /\ x \in Nat /\ m * x <= a /\ a < m * x + m
      /\ y \in Nat /\ m * y <= b /\ b < m * y + m
  BY Quotient
<1> HIDE DEF x, y
<1>2. CASE x >= y + 1
  <2>1. m * x >= m * (y + 1) /\ m * (y + 1) = m * y + m /\ m * x \in Nat /\ m * y \in Nat
    BY <1>1, <1>2
  <2> QED BY <1>1, <2>1
<1>3. x <= y
  BY <1>1, <1>2
<1> QED BY <1>3 DEF x, y

(* A packet's timestamp is the kernel's clock rounded down, and a u64.     *)
LEMMA Timestamp ==
  ASSUME NEW p \in Parsed
  PROVE  /\ TsMs(p) = Usecs(p) \div MSEC
         /\ TsMs(p) \in 0 .. U64MAX
         /\ Usecs(p) \in Nat
<1> DEFINE s == p.sec * SEC
           u == p.usec
           d == u \div MSEC
<1>1. /\ s \in Nat /\ u \in Nat /\ u <= SEC * MSEC - 1 /\ s + SEC <= U64MAX
      /\ SEC \in Nat \ {0} /\ MSEC \in Nat \ {0} /\ U64MAX \in Nat /\ SEC * MSEC \in Nat
  BY FlowTableAssumption
<1>2. TsMs(p) = s + d /\ Usecs(p) = s * MSEC + u
  BY DEF TsMs, Usecs
<1> HIDE DEF s, u
<1>3. d \in Nat /\ MSEC * d <= u /\ u < MSEC * d + MSEC
  BY <1>1, Quotient
<1> HIDE DEF d
<1>4. MSEC * (s + d) = s * MSEC + MSEC * d /\ s * MSEC \in Nat /\ MSEC * d \in Nat
  BY <1>1, <1>3
<1>5. /\ s * MSEC + u \in Nat /\ s + d \in Nat
      /\ MSEC * (s + d) <= s * MSEC + u
      /\ s * MSEC + u < MSEC * (s + d) + MSEC
  BY <1>1, <1>3, <1>4
<1>6. (s * MSEC + u) \div MSEC = s + d
  BY <1>1, <1>5, QuotientUnique
<1>7. d < SEC
  <2> SUFFICES ASSUME d >= SEC PROVE FALSE
    BY <1>1, <1>3
  <2>1. MSEC * d >= SEC * MSEC
    BY <1>1, <1>3
  <2> QED BY <1>1, <1>3, <1>4, <2>1
<1> QED BY <1>1, <1>2, <1>3, <1>5, <1>6, <1>7

-----------------------------------------------------------------------------
(* What a step does to the table and to the windows.                       *)

(* What the assumption says of a packet.                                   *)
LEMMA PacketFacts ==
  ASSUME NEW p \in Parsed
  PROVE  /\ p.length \in 0 .. U64MAX /\ p.length \in Nat
         /\ p.src_mac \in Value /\ p.dst_mac \in Value /\ p.vlan_id \in Value
         /\ U64MAX \in Nat
         /\ Decodes(p) => KeyOf(p) \in Key
  BY FlowTableAssumption DEF Key

(* The entry of the packet's key is merged or created; no other changes.   *)
LEMMA RecordStep ==
  ASSUME TypeOK, NEW p \in Parsed, Record(p)
  PROVE  LET k == KeyOf(p)
         IN  /\ k \in Key
             /\ DOMAIN inner' = DOMAIN inner \cup {k}
             /\ \A j \in DOMAIN inner \ {k} : inner'[j] = inner[j]
             /\ k \in DOMAIN inner => inner'[k] = Merge(inner[k], ValOf(p))
             /\ k \notin DOMAIN inner => inner'[k] = ValOf(p)
             /\ window' = [window EXCEPT ![k] = Append(@, p)]
             /\ window'[k] = Append(window[k], p) /\ \A j \in Key \ {k} : window'[j] = window[j]
             /\ sum' = [sum EXCEPT ![k] = @ + p.length]
             /\ sum'[k] = sum[k] + p.length /\ \A j \in Key \ {k} : sum'[j] = sum[j]
<1> DEFINE k == KeyOf(p)
<1>1. k \in Key
  BY PacketFacts DEF Record
<1>2. inner' = [j \in DOMAIN inner \cup {k} |->
                  IF j # k THEN inner[j]
                  ELSE IF k \in DOMAIN inner THEN Merge(inner[k], ValOf(p)) ELSE ValOf(p)]
  BY DEF Record
<1>3. window' = [window EXCEPT ![k] = Append(@, p)] /\ sum' = [sum EXCEPT ![k] = @ + p.length]
  BY DEF Record
<1> HIDE DEF k
<1>4. window'[k] = Append(window[k], p) /\ \A j \in Key \ {k} : window'[j] = window[j]
  BY <1>1, <1>3 DEF TypeOK
<1>5. sum'[k] = sum[k] + p.length /\ \A j \in Key \ {k} : sum'[j] = sum[j]
  BY <1>1, <1>3 DEF TypeOK
<1> QED BY <1>1, <1>2, <1>3, <1>4, <1>5 DEF k

(* A window longer by one packet.                                          *)
LEMMA Longer ==
  ASSUME NEW w \in Seq(Parsed), NEW p \in Parsed
  PROVE  /\ Len(w) \in Nat /\ Len(Append(w, p)) = Len(w) + 1
         /\ \A i \in 1 .. Len(w) : Append(w, p)[i] = w[i]
         /\ Append(w, p)[Len(w) + 1] = p
         /\ \A i \in 1 .. Len(Append(w, p)) : i \in 1 .. Len(w) \/ i = Len(w) + 1
         /\ \A i \in 1 .. Len(w) : w[i] \in Parsed
         /\ Append(w, p) # <<>>
<1>1. Len(w) \in Nat /\ Len(Append(w, p)) = Len(w) + 1
  OBVIOUS
<1>2. /\ \A i \in 1 .. Len(w) : Append(w, p)[i] = w[i] /\ w[i] \in Parsed
      /\ Append(w, p)[Len(w) + 1] = p
  OBVIOUS
<1>3. \A i \in 1 .. Len(Append(w, p)) : i \in 1 .. Len(w) \/ i = Len(w) + 1
  BY <1>1
<1>4. Append(w, p) # <<>>
  BY <1>1
<1> QED BY <1>1, <1>2, <1>3, <1>4

-----------------------------------------------------------------------------
(* Types.                                                                  *)

(* A new packet's value is an entry.                                       *)
LEMMA ValOfType == \A p \in Parsed : U64MAX > 0 => ValOf(p) \in Entry
  BY PacketFacts, Timestamp DEF ValOf, Entry

(* No clock of a packet is read without room for it in the counters.       *)
LEMMA RoomForOne == Parsed # {} => U64MAX > 0
<1> SUFFICES ASSUME NEW p \in Parsed PROVE U64MAX > 0
  OBVIOUS
<1>1. p.sec * SEC \in Nat /\ p.sec * SEC + SEC <= U64MAX /\ SEC \in Nat \ {0} /\ U64MAX \in Nat
  BY FlowTableAssumption
<1> QED BY <1>1

(* Merging two entries gives an entry.                                     *)
LEMMA MergeType == \A v, x \in Entry : Merge(v, x) \in Entry
<1> SUFFICES ASSUME NEW v \in Entry, NEW x \in Entry PROVE Merge(v, x) \in Entry
  OBVIOUS
<1>1. U64MAX \in Nat
  BY FlowTableAssumption
<1>2. SatAdd(v.bytes, x.bytes) \in 0 .. U64MAX /\ SatAdd(v.packets, x.packets) \in 0 .. U64MAX
  BY <1>1 DEF SatAdd, Entry
<1>3. \A a, b \in Value : Adopt(a, b) \in Value
  BY DEF Adopt
<1>4. \A a, b \in 0 .. U64MAX : Later(a, b) \in 0 .. U64MAX /\ Earlier(a, b) \in 0 .. U64MAX
  BY DEF Later, Earlier
<1> QED BY <1>2, <1>3, <1>4 DEF Merge, Entry

(* Every step keeps every field within its width.                          *)
LEMMA TypesNext == TypeOK /\ [Next]_vars => TypeOK'
<1> SUFFICES ASSUME TypeOK, [Next]_vars PROVE TypeOK'
  OBVIOUS
<1>1. ASSUME NEW p \in Parsed, Record(p) PROVE TypeOK'
  <2> DEFINE k == KeyOf(p)
  <2>1. /\ k \in Key /\ DOMAIN inner' = DOMAIN inner \cup {k}
        /\ \A j \in DOMAIN inner \ {k} : inner'[j] = inner[j]
        /\ k \in DOMAIN inner => inner'[k] = Merge(inner[k], ValOf(p))
        /\ k \notin DOMAIN inner => inner'[k] = ValOf(p)
        /\ window' = [window EXCEPT ![k] = Append(@, p)]
        /\ sum' = [sum EXCEPT ![k] = @ + p.length]
    BY <1>1, RecordStep
  <2> HIDE DEF k
  <2>2. ValOf(p) \in Entry
    BY ValOfType, RoomForOne
  <2>3. inner'[k] \in Entry
    BY <2>1, <2>2, MergeType DEF TypeOK
  <2>4. \A j \in DOMAIN inner' : inner'[j] \in Entry
    BY <2>1, <2>3 DEF TypeOK
  <2>5. window' \in [Key -> Seq(Parsed)]
    BY <2>1 DEF TypeOK
  <2>6. sum' \in [Key -> Nat]
    BY <2>1, PacketFacts DEF TypeOK
  <2> QED BY <2>1, <2>4, <2>5, <2>6 DEF TypeOK
<1>2. CASE Drain
  BY <1>2 DEF Drain, Empty, TypeOK
<1>3. CASE UNCHANGED vars
  BY <1>3 DEF vars, TypeOK
<1> QED BY <1>1, <1>2, <1>3 DEF Next, Ignore

(* An empty table has no entry to go wrong.                                *)
LEMMA TypesInit == Init => TypeOK
  BY DEF Init, Empty, TypeOK

(* Every field of an entry keeps to its width, whatever the packets.       *)
THEOREM TypeCorrect == Spec => []TypeOK
  BY TypesInit, TypesNext, PTL DEF Spec

-----------------------------------------------------------------------------
(* Counters.                                                               *)

(* Saturating at every step or once at the end is the same.                *)
LEMMA SatAddCapped ==
  ASSUME NEW a \in Nat, NEW b \in Nat, b <= U64MAX
  PROVE  SatAdd(Capped(a), b) = Capped(a + b)
  BY FlowTableAssumption DEF SatAdd, Capped

(* A window without packets has no bytes.                                  *)
NoBytes == \A k \in Key : window[k] = <<>> => sum[k] = 0

Counted == CountersExact /\ NoBytes

(* Every step keeps entries and counters those of the window.              *)
LEMMA CountersNext == TypeOK /\ Counted /\ [Next]_vars => Counted'
<1> SUFFICES ASSUME TypeOK, CountersExact, NoBytes, [Next]_vars PROVE Counted'
  BY DEF Counted
<1>1. ASSUME NEW p \in Parsed, Record(p) PROVE Counted'
  <2> DEFINE k == KeyOf(p)
  <2>1. /\ k \in Key /\ DOMAIN inner' = DOMAIN inner \cup {k}
        /\ \A j \in DOMAIN inner \ {k} : inner'[j] = inner[j]
        /\ k \in DOMAIN inner => inner'[k] = Merge(inner[k], ValOf(p))
        /\ k \notin DOMAIN inner => inner'[k] = ValOf(p)
        /\ window'[k] = Append(window[k], p) /\ \A j \in Key \ {k} : window'[j] = window[j]
        /\ sum'[k] = sum[k] + p.length /\ \A j \in Key \ {k} : sum'[j] = sum[j]
    BY <1>1, RecordStep
  <2> HIDE DEF k
  <2>2. /\ window[k] \in Seq(Parsed) /\ sum[k] \in Nat
        /\ p.length \in Nat /\ p.length <= U64MAX /\ 1 <= U64MAX /\ U64MAX \in Nat
    BY <2>1, PacketFacts, RoomForOne DEF TypeOK
  <2>3. Len(window'[k]) = Len(window[k]) + 1 /\ Len(window[k]) \in Nat /\ window'[k] # <<>>
    BY <2>1, <2>2, Longer
  <2>4. DOMAIN inner' = {j \in Key : window'[j] # <<>>}
    BY <2>1, <2>3 DEF CountersExact, TypeOK
  <2>5. inner'[k].bytes = Capped(sum'[k]) /\ inner'[k].packets = Capped(Len(window'[k]))
    <3>1. CASE k \in DOMAIN inner
      <4>1. inner[k].bytes = Capped(sum[k]) /\ inner[k].packets = Capped(Len(window[k]))
        BY <3>1 DEF CountersExact
      <4>2. /\ inner'[k].bytes = SatAdd(inner[k].bytes, p.length)
            /\ inner'[k].packets = SatAdd(inner[k].packets, 1)
        BY <2>1, <3>1 DEF Merge, ValOf
      <4>3. inner'[k].bytes = Capped(sum[k] + p.length)
        BY <2>2, <4>1, <4>2, SatAddCapped
      <4>4. inner'[k].packets = Capped(Len(window[k]) + 1)
        BY <2>2, <2>3, <4>1, <4>2, SatAddCapped
      <4> QED BY <2>1, <2>3, <4>3, <4>4
    <3>2. CASE k \notin DOMAIN inner
      <4>1. window[k] = <<>>
        BY <2>1, <3>2 DEF CountersExact
      <4>2. sum[k] = 0
        BY <2>1, <4>1 DEF NoBytes
      <4>3. inner'[k].bytes = p.length /\ inner'[k].packets = 1
        BY <2>1, <3>2 DEF ValOf
      <4> QED BY <2>1, <2>2, <2>3, <4>1, <4>2, <4>3 DEF Capped
    <3> QED BY <3>1, <3>2
  <2>6. NoBytes'
    BY <2>1, <2>3 DEF NoBytes
  <2> QED BY <2>1, <2>4, <2>5, <2>6 DEF Counted, CountersExact, TypeOK
<1>2. CASE Drain
  BY <1>2 DEF Drain, Empty, Counted, CountersExact, NoBytes
<1>3. CASE UNCHANGED vars
  BY <1>3 DEF vars, Counted, CountersExact, NoBytes
<1> QED BY <1>1, <1>2, <1>3 DEF Next, Ignore
(* Initially there are neither entries nor packets.                        *)
LEMMA CountersInit == Init => Counted
  BY DEF Init, Empty, Counted, CountersExact, NoBytes

(* Bytes and packets are those of the window, exact up to the limit and    *)
(* stuck there beyond it.                                                  *)
THEOREM CountersAreExact == Spec => []CountersExact
<1>1. Spec => []Counted
  BY TypeCorrect, CountersInit, CountersNext, PTL DEF Spec
<1> QED BY <1>1, PTL DEF Counted

-----------------------------------------------------------------------------
(* First and last seen.                                                    *)

(* The entry v has seen the window w: SeenTimesExtreme for one entry.      *)
Saw(v, w) ==
  \E i, j \in 1 .. Len(w) :
    /\ v.first_seen_ms = Usecs(w[i]) \div MSEC
    /\ v.last_seen_ms = Usecs(w[j]) \div MSEC
    /\ \A q \in 1 .. Len(w) : Usecs(w[q]) \in Usecs(w[i]) .. Usecs(w[j])

(* A packet can be early or late by the millisecond only if it is so by    *)
(* the microsecond.                                                        *)
LEMMA EarlierInMs ==
  ASSUME NEW p \in Parsed, NEW q \in Parsed
  PROVE  TsMs(p) < TsMs(q) => Usecs(p) < Usecs(q)
<1> SUFFICES ASSUME Usecs(q) <= Usecs(p) PROVE TsMs(q) <= TsMs(p)
  BY Timestamp
<1>1. MSEC \in Nat \ {0}
  BY FlowTableAssumption
<1>2. Usecs(q) \div MSEC <= Usecs(p) \div MSEC
  BY <1>1, Timestamp, QuotientMono
<1> QED BY <1>2, Timestamp

(* Merging a packet moves the extremes if, and only if, it is one.         *)
LEMMA SawMore ==
  ASSUME NEW w \in Seq(Parsed), NEW v, Saw(v, w), NEW p \in Parsed
  PROVE  Saw(Merge(v, ValOf(p)), Append(w, p))
<1> DEFINE x == Append(w, p)
           m == Merge(v, ValOf(p))
           e == Len(w) + 1
<1>1. /\ Len(w) \in Nat /\ Len(x) = e /\ x[e] = p
      /\ \A i \in 1 .. Len(w) : x[i] = w[i] /\ w[i] \in Parsed
      /\ \A i \in 1 .. Len(x) : i \in 1 .. Len(w) \/ i = e
  BY Longer
<1>2. PICK i \in 1 .. Len(w), j \in 1 .. Len(w) :
        /\ v.first_seen_ms = Usecs(w[i]) \div MSEC
        /\ v.last_seen_ms = Usecs(w[j]) \div MSEC
        /\ \A q \in 1 .. Len(w) : Usecs(w[q]) \in Usecs(w[i]) .. Usecs(w[j])
  BY DEF Saw
<1>3. /\ m.first_seen_ms = Earlier(v.first_seen_ms, TsMs(p))
      /\ m.last_seen_ms = Later(v.last_seen_ms, TsMs(p))
  BY DEF Merge, ValOf
<1>4. /\ v.first_seen_ms = TsMs(w[i]) /\ v.last_seen_ms = TsMs(w[j])
      /\ w[i] \in Parsed /\ w[j] \in Parsed
  BY <1>1, <1>2, Timestamp
<1> HIDE DEF x, m
<1>5. /\ Usecs(p) \in Nat /\ \A q \in 1 .. Len(w) : Usecs(w[q]) \in Nat
      /\ TsMs(p) \in Nat /\ TsMs(w[i]) \in Nat /\ TsMs(w[j]) \in Nat
  BY <1>1, Timestamp
<1>6. PICK f \in {i, e} : /\ m.first_seen_ms = TsMs(x[f]) /\ Usecs(x[f]) <= Usecs(p)
                          /\ Usecs(x[f]) <= Usecs(w[i])
  <2>1. CASE Usecs(p) < Usecs(w[i])
    <3>1. TsMs(p) <= TsMs(w[i])
      BY <1>4, <1>5, <2>1, EarlierInMs
    <3>2. m.first_seen_ms = TsMs(p)
      BY <1>3, <1>4, <1>5, <3>1 DEF Earlier
    <3> QED BY <1>1, <1>5, <2>1, <3>2
  <2>2. CASE Usecs(w[i]) <= Usecs(p)
    <3>1. ~(TsMs(p) < TsMs(w[i]))
      BY <1>4, <1>5, <2>2, EarlierInMs
    <3>2. m.first_seen_ms = TsMs(w[i])
      BY <1>3, <1>4, <3>1 DEF Earlier
    <3> QED BY <1>1, <1>5, <2>2, <3>2
  <2> QED BY <1>5, <2>1, <2>2
<1>7. PICK l \in {j, e} : /\ m.last_seen_ms = TsMs(x[l]) /\ Usecs(p) <= Usecs(x[l])
                          /\ Usecs(w[j]) <= Usecs(x[l])
  <2>1. CASE Usecs(p) > Usecs(w[j])
    <3>1. TsMs(w[j]) <= TsMs(p)
      BY <1>4, <1>5, <2>1, EarlierInMs
    <3>2. m.last_seen_ms = TsMs(p)
      BY <1>3, <1>4, <1>5, <3>1 DEF Later
    <3> QED BY <1>1, <1>5, <2>1, <3>2
  <2>2. CASE Usecs(p) <= Usecs(w[j])
    <3>1. ~(TsMs(p) > TsMs(w[j]))
      BY <1>4, <1>5, <2>2, EarlierInMs
    <3>2. m.last_seen_ms = TsMs(w[j])
      BY <1>3, <1>4, <3>1 DEF Later
    <3> QED BY <1>1, <1>5, <2>2, <3>2
  <2> QED BY <1>5, <2>1, <2>2
<1>8. f \in 1 .. Len(x) /\ l \in 1 .. Len(x) /\ x[f] \in Parsed /\ x[l] \in Parsed
  BY <1>1
<1>9. m.first_seen_ms = Usecs(x[f]) \div MSEC /\ m.last_seen_ms = Usecs(x[l]) \div MSEC
  BY <1>6, <1>7, <1>8, Timestamp
<1>10. ASSUME NEW q \in 1 .. Len(x) PROVE Usecs(x[q]) \in Usecs(x[f]) .. Usecs(x[l])
  <2>1. Usecs(x[f]) \in Nat /\ Usecs(x[l]) \in Nat
    BY <1>8, Timestamp
  <2>2. CASE q = e
    BY <1>1, <1>5, <1>6, <1>7, <2>1, <2>2
  <2>3. CASE q \in 1 .. Len(w)
    <3>1. x[q] = w[q] /\ Usecs(w[q]) \in Usecs(w[i]) .. Usecs(w[j])
      BY <1>1, <1>2, <2>3
    <3>2. Usecs(w[i]) \in Nat /\ Usecs(w[j]) \in Nat /\ Usecs(w[q]) \in Nat
      BY <1>5, <2>3
    <3>3. Usecs(x[f]) <= Usecs(w[i]) /\ Usecs(w[j]) <= Usecs(x[l])
      BY <1>6, <1>7
    <3> QED BY <2>1, <3>1, <3>2, <3>3
  <2> QED BY <1>1, <2>2, <2>3
<1>11. Saw(m, x)
  BY <1>8, <1>9, <1>10 DEF Saw
<1> QED BY <1>11 DEF m, x

(* A new entry has seen its one packet.                                    *)
LEMMA SawOne ==
  ASSUME NEW w \in Seq(Parsed), w = <<>>, NEW p \in Parsed
  PROVE  Saw(ValOf(p), Append(w, p))
<1>1. Len(Append(w, p)) = 1 /\ Append(w, p)[1] = p
  OBVIOUS
<1>2. ValOf(p).first_seen_ms = TsMs(p) /\ ValOf(p).last_seen_ms = TsMs(p)
  BY DEF ValOf
<1>3. Usecs(p) \in Usecs(p) .. Usecs(p) /\ TsMs(p) = Usecs(p) \div MSEC
  BY Timestamp
<1>4. \A q \in 1 .. Len(Append(w, p)) : q = 1
  BY <1>1
<1>5. 1 \in 1 .. Len(Append(w, p))
  BY <1>1
<1> DEFINE x == Append(w, p)
           v == ValOf(p)
<1> HIDE DEF x, v
<1>6. x[1] = p /\ (\A q \in 1 .. Len(x) : q = 1) /\ 1 \in 1 .. Len(x)
      /\ v.first_seen_ms = Usecs(p) \div MSEC /\ v.last_seen_ms = Usecs(p) \div MSEC
  BY <1>1, <1>2, <1>3, <1>4, <1>5 DEF x, v
<1>7. Saw(v, x)
  BY <1>3, <1>6 DEF Saw
<1> QED BY <1>7 DEF x, v

-----------------------------------------------------------------------------
(* First known addresses.                                                  *)

(* Adopting keeps the first known value.                                   *)
LEMMA AdoptFirst ==
  ASSUME NEW w \in Seq(Parsed), NEW p \in Parsed, NEW field, NEW v,
         IsFirstKnown(v, w, field)
  PROVE  IsFirstKnown(Adopt(v, p[field]), Append(w, p), field)
<1> DEFINE x == Append(w, p)
           e == Len(w) + 1
<1>1. /\ Len(w) \in Nat /\ Len(x) = e /\ x[e] = p
      /\ \A i \in 1 .. Len(w) : x[i] = w[i]
      /\ \A i \in 1 .. Len(x) : i \in 1 .. Len(w) \/ i = e
      /\ 1 .. e-1 = 1 .. Len(w)
  BY Longer
<1> HIDE DEF x
<1>2. CASE v = None /\ \A i \in 1 .. Len(w) : w[i][field] = None
  <2>1. Adopt(v, p[field]) = p[field]
    BY <1>2 DEF Adopt
  <2>2. CASE p[field] = None
    BY <1>1, <1>2, <2>1, <2>2 DEF IsFirstKnown
  <2>3. CASE p[field] # None
    <3>1. e \in 1 .. Len(x) /\ x[e][field] = p[field]
          /\ \A j \in 1 .. e-1 : x[j][field] = None
      BY <1>1, <1>2
    <3> QED BY <2>1, <2>3, <3>1 DEF IsFirstKnown, x
  <2> QED BY <2>2, <2>3
<1>3. ASSUME NEW i \in 1 .. Len(w), v # None, w[i][field] = v,
             \A j \in 1 .. i-1 : w[j][field] = None
      PROVE  IsFirstKnown(Adopt(v, p[field]), x, field)
  <2>1. Adopt(v, p[field]) = v
    BY <1>3 DEF Adopt
  <2>2. i \in 1 .. Len(x) /\ x[i][field] = v /\ \A j \in 1 .. i-1 : x[j][field] = None
    <3>1. \A j \in 1 .. i-1 : j \in 1 .. Len(w)
      BY <1>1
    <3> QED BY <1>1, <1>3, <3>1
  <2> QED BY <1>3, <2>1, <2>2 DEF IsFirstKnown
<1> QED BY <1>2, <1>3 DEF IsFirstKnown, x

-----------------------------------------------------------------------------

Observed == SeenTimesExtreme /\ FirstKnownKept

(* Every step keeps what an entry has observed.                            *)
LEMMA ObservedNext == TypeOK /\ Counted /\ Observed /\ [Next]_vars => Observed'
<1> SUFFICES ASSUME TypeOK, Counted, Observed, [Next]_vars PROVE Observed'
  OBVIOUS
<1>0. /\ \A j \in DOMAIN inner : Saw(inner[j], window[j])
      /\ \A j \in DOMAIN inner : \A field \in {"src_mac", "dst_mac", "vlan_id"} :
           IsFirstKnown(inner[j][field], window[j], field)
  BY DEF Observed, SeenTimesExtreme, FirstKnownKept, Saw
<1>1. ASSUME NEW p \in Parsed, Record(p) PROVE Observed'
  <2> DEFINE k == KeyOf(p)
             IsAt(field) == IsFirstKnown(inner'[k][field], window'[k], field)
  <2>1. /\ k \in Key /\ DOMAIN inner' = DOMAIN inner \cup {k}
        /\ \A j \in DOMAIN inner \ {k} : inner'[j] = inner[j]
        /\ k \in DOMAIN inner => inner'[k] = Merge(inner[k], ValOf(p))
        /\ k \notin DOMAIN inner => inner'[k] = ValOf(p)
        /\ window'[k] = Append(window[k], p) /\ \A j \in Key \ {k} : window'[j] = window[j]
    BY <1>1, RecordStep
  <2> HIDE DEF k
  <2>2. window[k] \in Seq(Parsed) /\ DOMAIN inner \subseteq Key
    BY <2>1 DEF TypeOK
  <2>3. k \notin DOMAIN inner => window[k] = <<>>
    BY <2>1 DEF Counted, CountersExact
  <2>4. Saw(inner'[k], window'[k])
    BY <1>0, <2>1, <2>2, <2>3, SawMore, SawOne
  <2>5. \A field \in {"src_mac", "dst_mac", "vlan_id"} : IsAt(field)
    <3>1. CASE k \in DOMAIN inner
      <4>1. /\ inner'[k].src_mac = Adopt(inner[k].src_mac, p.src_mac)
            /\ inner'[k].dst_mac = Adopt(inner[k].dst_mac, p.dst_mac)
            /\ inner'[k].vlan_id = Adopt(inner[k].vlan_id, p.vlan_id)
        BY <2>1, <3>1 DEF Merge, ValOf
      <4>2. \A field \in {"src_mac", "dst_mac", "vlan_id"} :
              inner'[k][field] = Adopt(inner[k][field], p[field])
        BY <4>1
      <4> QED BY <1>0, <2>1, <2>2, <3>1, <4>2, AdoptFirst
    <3>2. CASE k \notin DOMAIN inner
      <4>1. \A field \in {"src_mac", "dst_mac", "vlan_id"} : inner'[k][field] = p[field]
        BY <2>1, <3>2 DEF ValOf
      <4>2. \A field : IsFirstKnown(None, window[k], field)
        BY <2>3, <3>2 DEF IsFirstKnown
      <4>3. \A y : Adopt(None, y) = y
        BY DEF Adopt
      <4> QED BY <2>1, <2>2, <4>1, <4>2, <4>3, AdoptFirst
    <3> QED BY <3>1, <3>2
  <2>6. /\ \A j \in DOMAIN inner' : Saw(inner'[j], window'[j])
        /\ \A j \in DOMAIN inner' : \A field \in {"src_mac", "dst_mac", "vlan_id"} :
             IsFirstKnown(inner'[j][field], window'[j], field)
    <3> SUFFICES ASSUME NEW j \in DOMAIN inner'
                 PROVE  /\ Saw(inner'[j], window'[j])
                        /\ \A field \in {"src_mac", "dst_mac", "vlan_id"} :
                             IsFirstKnown(inner'[j][field], window'[j], field)
      OBVIOUS
    <3>1. CASE j = k
      BY <2>4, <2>5, <3>1
    <3>2. CASE j # k
      <4>1. j \in DOMAIN inner /\ inner'[j] = inner[j] /\ window'[j] = window[j]
        BY <2>1, <2>2, <3>2
      <4> QED BY <1>0, <4>1
    <3> QED BY <3>1, <3>2
  <2> QED BY <2>6 DEF Observed, SeenTimesExtreme, FirstKnownKept, Saw
<1>2. CASE Drain
  BY <1>2 DEF Drain, Empty, Observed, SeenTimesExtreme, FirstKnownKept
<1>3. CASE UNCHANGED vars
  BY <1>3 DEF vars, Observed, SeenTimesExtreme, FirstKnownKept
<1> QED BY <1>1, <1>2, <1>3 DEF Next, Ignore

(* Entries always show what their packets showed.                          *)
LEMMA ObservedInvariant == Spec => []Observed
<1>1. Init => Observed
  BY DEF Init, Empty, Observed, SeenTimesExtreme, FirstKnownKept
<1>2. Spec => []Counted
  BY TypeCorrect, CountersInit, CountersNext, PTL DEF Spec
<1> QED BY <1>1, <1>2, ObservedNext, TypeCorrect, PTL DEF Spec

(* First and last seen are the extremes of the window in whatever order    *)
(* its packets arrived.                                                    *)
THEOREM ExtremesSeen == Spec => []SeenTimesExtreme
  BY ObservedInvariant, PTL DEF Observed

(* MAC addresses and VLAN are the first ones observed in the window.       *)
THEOREM FirstKnownStays == Spec => []FirstKnownKept
  BY ObservedInvariant, PTL DEF Observed
=============================================================================
