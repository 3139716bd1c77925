----------------------------- MODULE WireProofs -----------------------------
(***************************************************************************)
(* Proofs about the bytes of a message, for every batch, every flow and    *)
(* every sequence number.                                                  *)
(***************************************************************************)
EXTENDS Wire, EncoderProofs, SequenceTheorems

USE DEF Family

-----------------------------------------------------------------------------
(* Sums.                                                                   *)

(* u holds the sums of the first 0, 1, .. m numbers of s.                  *)
Sums(u, s, m) == u = [k \in 0 .. m |-> IF k = 0 THEN 0 ELSE u[k-1] + s[k]]

(* The recursive function of Sum exists, whatever the sequence.            *)
LEMMA SumsExist ==
  ASSUME NEW s
  PROVE  \A m \in Nat : \E u : Sums(u, s, m)
<1> DEFINE S == {m \in Nat : \E u : Sums(u, s, m)}
<1>1. 0 \in S
  <2>1. Sums([k \in 0 .. 0 |-> 0], s, 0)
    BY DEF Sums
  <2> QED BY <2>1
<1>2. ASSUME NEW m \in Nat, m \in S PROVE m + 1 \in S
  <2>1. PICK u : Sums(u, s, m)
    BY <1>2
  <2> DEFINE v == [k \in 0 .. m + 1 |-> IF k = 0 THEN 0 ELSE u[k-1] + s[k]]
  <2>2. \A k \in 0 .. m : v[k] = u[k]
    BY <2>1 DEF Sums
  <2>3. \A k \in 0 .. m + 1 : k # 0 => k - 1 \in 0 .. m
    OBVIOUS
  <2>4. v = [k \in 0 .. m + 1 |-> IF k = 0 THEN 0 ELSE v[k-1] + s[k]]
    BY <2>2, <2>3
  <2>5. Sums(v, s, m + 1)
    BY <2>4 DEF Sums
  <2> QED BY <2>5
<1> HIDE DEF S
<1>3. Nat \subseteq S
  BY <1>1, <1>2, Induction
<1> QED BY <1>3 DEF S

(* Sum adds number after number.                                           *)
LEMMA SumSteps ==
  ASSUME NEW s, Len(s) \in Nat
  PROVE  \E u : /\ u[0] = 0
                /\ \A k \in 1 .. Len(s) : u[k] = u[k-1] + s[k]
                /\ Sum(s) = u[Len(s)]
<1> DEFINE upto[k \in 0 .. Len(s)] == IF k = 0 THEN 0 ELSE upto[k-1] + s[k]
<1>1. Sum(s) = upto[Len(s)]
  BY DEF Sum
<1>2. \E u : u = [k \in 0 .. Len(s) |-> IF k = 0 THEN 0 ELSE u[k-1] + s[k]]
  BY SumsExist DEF Sums
<1>3. upto = [k \in 0 .. Len(s) |-> IF k = 0 THEN 0 ELSE upto[k-1] + s[k]]
  BY <1>2
<1> HIDE DEF upto
<1>4. upto[0] = 0 /\ \A k \in 1 .. Len(s) : upto[k] = upto[k-1] + s[k]
  BY <1>3
<1> QED BY <1>1, <1>4

(* The sum of naturals is a natural.                                       *)
LEMMA SumType ==
  ASSUME NEW s \in Seq(Nat)
  PROVE  Sum(s) \in Nat
<1>1. PICK u : /\ u[0] = 0
               /\ \A k \in 1 .. Len(s) : u[k] = u[k-1] + s[k]
               /\ Sum(s) = u[Len(s)]
  BY SumSteps
<1> DEFINE S == {k \in Nat : k <= Len(s) => u[k] \in Nat}
<1>2. 0 \in S
  BY <1>1
<1>3. ASSUME NEW k \in Nat, k \in S PROVE k + 1 \in S
  <2> SUFFICES ASSUME k + 1 <= Len(s) PROVE u[k + 1] \in Nat
    OBVIOUS
  <2>1. u[k + 1] = u[k] + s[k + 1] /\ s[k + 1] \in Nat /\ u[k] \in Nat
    BY <1>1, <1>3
  <2> QED BY <2>1
<1> HIDE DEF S
<1>4. Nat \subseteq S
  BY <1>2, <1>3, Induction
<1> QED BY <1>1, <1>4 DEF S

(* One more number at the end.                                             *)
LEMMA SumExtend ==
  ASSUME NEW g \in Seq(Nat), NEW h \in Seq(Nat), Len(h) = Len(g) + 1,
         \A i \in 1 .. Len(g) : h[i] = g[i]
  PROVE  Sum(h) = Sum(g) + h[Len(h)]
<1>0. Len(g) \in Nat /\ Len(h) \in Nat
  OBVIOUS
<1>1. PICK u : /\ u[0] = 0
               /\ \A k \in 1 .. Len(g) : u[k] = u[k-1] + g[k]
               /\ Sum(g) = u[Len(g)]
  BY <1>0, SumSteps
<1>2. PICK v : /\ v[0] = 0
               /\ \A k \in 1 .. Len(h) : v[k] = v[k-1] + h[k]
               /\ Sum(h) = v[Len(h)]
  BY <1>0, SumSteps
<1> DEFINE S == {k \in Nat : k <= Len(g) => v[k] = u[k]}
<1>3. 0 \in S
  BY <1>1, <1>2
<1>4. ASSUME NEW k \in Nat, k \in S PROVE k + 1 \in S
  <2> SUFFICES ASSUME k + 1 <= Len(g) PROVE v[k + 1] = u[k + 1]
    OBVIOUS
  <2>1. u[k + 1] = u[k] + g[k + 1] /\ v[k + 1] = v[k] + h[k + 1] /\ v[k] = u[k]
    BY <1>1, <1>2, <1>4
  <2>2. g[k + 1] = h[k + 1]
    OBVIOUS
  <2> QED BY <2>1, <2>2
<1> HIDE DEF S
<1>5. Nat \subseteq S
  BY <1>3, <1>4, Induction
<1>6. v[Len(g)] = u[Len(g)]
  BY <1>0, <1>5 DEF S
<1>7. v[Len(h)] = v[Len(g)] + h[Len(h)]
  BY <1>0, <1>2
<1> QED BY <1>1, <1>2, <1>6, <1>7

(* Equal numbers.                                                          *)
LEMMA SumConstant ==
  ASSUME NEW s \in Seq(Nat), NEW c \in Nat, \A i \in 1 .. Len(s) : s[i] = c
  PROVE  Sum(s) = Len(s) * c
<1>1. PICK u : /\ u[0] = 0
               /\ \A k \in 1 .. Len(s) : u[k] = u[k-1] + s[k]
               /\ Sum(s) = u[Len(s)]
  BY SumSteps
<1> DEFINE S == {k \in Nat : k <= Len(s) => u[k] = k * c}
<1>2. 0 \in S
  BY <1>1
<1>3. ASSUME NEW k \in Nat, k \in S PROVE k + 1 \in S
  <2> SUFFICES ASSUME k + 1 <= Len(s) PROVE u[k + 1] = (k + 1) * c
    OBVIOUS
  <2>1. k + 1 \in 1 .. Len(s) /\ s[k + 1] = c
    OBVIOUS
  <2>2. u[k + 1] = u[k] + c
    BY <1>1, <2>1
  <2>3. u[k] = k * c
    BY <1>3
  <2>4. (k + 1) * c = k * c + c
    OBVIOUS
  <2> QED BY <2>2, <2>3, <2>4
<1> HIDE DEF S
<1>4. Nat \subseteq S
  BY <1>2, <1>3, Induction
<1> QED BY <1>1, <1>4 DEF S

-----------------------------------------------------------------------------
(* Widths.                                                                 *)

(* The widths of words, as numbers to be added.                            *)
LEMMA WidthIsSum ==
  ASSUME NEW words, Len(words) \in Nat, \A i \in 1 .. Len(words) : words[i].width \in Nat
  PROVE  LET ws == [i \in 1 .. Len(words) |-> words[i].width]
         IN  ws \in Seq(Nat) /\ Len(ws) = Len(words) /\ Width(words) = Sum(ws)
  BY DEF Width

(* The head of a set or of a template.                                     *)
LEMMA WidthOfPair ==
  ASSUME NEW a \in Nat, NEW b \in Nat, NEW x, NEW y
  PROVE  Width(<<W(a, x), W(b, y)>>) = a + b
<1> DEFINE words == <<W(a, x), W(b, y)>>
           ws == [i \in 1 .. Len(words) |-> words[i].width]
<1>1. Len(words) = 2 /\ words[1].width = a /\ words[2].width = b
  BY DEF W
<1>2. Len(ws) = 2 /\ ws[1] = a /\ ws[2] = b
  BY <1>1
<1>3. Width(words) = Sum(ws)
  BY DEF Width
<1> HIDE DEF ws
<1>4. PICK u : /\ u[0] = 0
               /\ \A k \in 1 .. Len(ws) : u[k] = u[k-1] + ws[k]
               /\ Sum(ws) = u[Len(ws)]
  BY <1>2, SumSteps
<1>5. u[1] = a /\ u[2] = u[1] + b
  BY <1>2, <1>4
<1> QED BY <1>2, <1>3, <1>4, <1>5

(* The header of a message has the length that msg_len starts with.        *)
LEMMA WidthOfHeader ==
  ASSUME NEW d
  PROVE  Width(MessageHeader(d)) = MSG_HEADER_LEN /\ MessageHeader(d)[2].value = d.length
<1> DEFINE words == MessageHeader(d)
           ws == [i \in 1 .. Len(words) |-> words[i].width]
<1>1. /\ Len(words) = 5
      /\ words[1].width = 2 /\ words[2].width = 2 /\ words[3].width = 4
      /\ words[4].width = 4 /\ words[5].width = 4
      /\ words[2].value = d.length
  BY DEF W, MessageHeader
<1>2. Width(words) = Sum(ws)
  BY DEF Width
<1> HIDE DEF words
<1>3. Len(ws) = 5 /\ ws[1] = 2 /\ ws[2] = 2 /\ ws[3] = 4 /\ ws[4] = 4 /\ ws[5] = 4
  BY <1>1
<1> HIDE DEF ws
<1>31. Len(ws) \in Nat
  BY <1>3
<1>4. PICK u : /\ u[0] = 0
               /\ \A k \in 1 .. Len(ws) : u[k] = u[k-1] + ws[k]
               /\ Sum(ws) = u[Len(ws)]
  BY <1>31, SumSteps
<1>5. u[1] = 2 /\ u[2] = 4 /\ u[3] = 8 /\ u[4] = 12 /\ u[5] = 16
  BY <1>3, <1>4
<1> QED BY <1>1, <1>2, <1>3, <1>4, <1>5, WireAssumption DEF words

(* A record is as long as RECORD_SIZE_V4 or RECORD_SIZE_V6 says.           *)
LEMMA WidthOfRecord ==
  ASSUME NEW f \in Family, NEW flow
  PROVE  Width(Record(f, flow)) = RecordSize(f)
<1> DEFINE words == Record(f, flow)
           ws == [i \in 1 .. Len(words) |-> words[i].width]
           ip == IF f = "v4" THEN 4 ELSE 16
<1>1. /\ Len(words) = 14
      /\ words[1].width = ip /\ words[2].width = ip
      /\ words[3].width = 2 /\ words[4].width = 2 /\ words[5].width = 1
      /\ words[6].width = 6 /\ words[7].width = 6
      /\ words[8].width = 2 /\ words[9].width = 2 /\ words[10].width = 1
      /\ words[11].width = 8 /\ words[12].width = 8
      /\ words[13].width = 8 /\ words[14].width = 8
  BY DEF W, Record
<1>2. Width(words) = Sum(ws)
  BY DEF Width
<1> HIDE DEF words
<1>3. /\ Len(ws) = 14
      /\ ws[1] = ip /\ ws[2] = ip /\ ws[3] = 2 /\ ws[4] = 2 /\ ws[5] = 1
      /\ ws[6] = 6 /\ ws[7] = 6 /\ ws[8] = 2 /\ ws[9] = 2 /\ ws[10] = 1
      /\ ws[11] = 8 /\ ws[12] = 8 /\ ws[13] = 8 /\ ws[14] = 8
  BY <1>1
<1> HIDE DEF ws
<1>31. Len(ws) \in Nat
  BY <1>3
<1>4. PICK u : /\ u[0] = 0
               /\ \A k \in 1 .. Len(ws) : u[k] = u[k-1] + ws[k]
               /\ Sum(ws) = u[Len(ws)]
  BY <1>31, SumSteps
<1>5. ip \in Nat /\ RecordSize(f) = 2 * ip + 54
  BY WireAssumption DEF RecordSize
<1> HIDE DEF ip
<1>6. u[1] = ip /\ u[2] = 2 * ip /\ u[3] = 2 * ip + 2 /\ u[4] = 2 * ip + 4
  BY <1>3, <1>4, <1>5
<1>7. u[5] = 2 * ip + 5 /\ u[6] = 2 * ip + 11 /\ u[7] = 2 * ip + 17 /\ u[8] = 2 * ip + 19
  BY <1>3, <1>4, <1>5, <1>6
<1>8. u[9] = 2 * ip + 21 /\ u[10] = 2 * ip + 22 /\ u[11] = 2 * ip + 30 /\ u[12] = 2 * ip + 38
  BY <1>3, <1>4, <1>5, <1>7
<1>9. u[13] = 2 * ip + 46 /\ u[14] = 2 * ip + 54
  BY <1>3, <1>4, <1>5, <1>8
<1> QED BY <1>2, <1>3, <1>4, <1>5, <1>9 DEF words

(* The fields of a flow in the order of a record.                          *)
InOrder == <<"src", "dst", "src_port", "dst_port", "protocol", "src_mac", "dst_mac", "vlan_id",
             "ether_type", "direction", "bytes", "packets", "first_seen_ms", "last_seen_ms">>

(* The tables announce fourteen different elements, those of the fields of *)
(* a flow.                                                                 *)
LEMMA FieldsFacts ==
  ASSUME NEW f \in Family
  PROVE  /\ Len(Fields(f)) = 14
         /\ \A i \in 1 .. 14 : Len(Fields(f)[i]) = 2 /\ InOrder[i] \in FlowFields
         /\ \A i, j \in 1 .. 14 : Fields(f)[i][1] = Fields(f)[j][1] => i = j
         /\ \A name \in FlowFields :
              \E i \in 1 .. 14 : InOrder[i] = name /\ Fields(f)[i][1] = Element(f)[name]
<1> DEFINE e_(i) == Fields(f)[i][1]
           n_(i) == InOrder[i]
           r_(name) == Element(f)[name]
<1>1. Len(Fields(f)) = 14
  BY DEF Fields
<1>2. /\ n_(1) = "src" /\ n_(2) = "dst" /\ n_(3) = "src_port" /\ n_(4) = "dst_port"
      /\ n_(5) = "protocol" /\ n_(6) = "src_mac" /\ n_(7) = "dst_mac" /\ n_(8) = "vlan_id"
      /\ n_(9) = "ether_type" /\ n_(10) = "direction" /\ n_(11) = "bytes"
      /\ n_(12) = "packets" /\ n_(13) = "first_seen_ms" /\ n_(14) = "last_seen_ms"
  BY DEF InOrder
<1>3. /\ e_(1) = IF f = "v4" THEN 8 ELSE 27
      /\ e_(2) = IF f = "v4" THEN 12 ELSE 28
      /\ e_(3) = 7 /\ e_(4) = 11 /\ e_(5) = 4 /\ e_(6) = 56 /\ e_(7) = 80 /\ e_(8) = 243
      /\ e_(9) = 256 /\ e_(10) = 61 /\ e_(11) = 352 /\ e_(12) = 2 /\ e_(13) = 152
      /\ e_(14) = 153
  BY DEF Fields
<1>4. /\ r_("src") = IF f = "v4" THEN 8 ELSE 27
      /\ r_("dst") = IF f = "v4" THEN 12 ELSE 28
      /\ r_("src_port") = 7 /\ r_("dst_port") = 11 /\ r_("protocol") = 4
      /\ r_("src_mac") = 56 /\ r_("dst_mac") = 80 /\ r_("vlan_id") = 243
      /\ r_("ether_type") = 256 /\ r_("direction") = 61 /\ r_("bytes") = 352
      /\ r_("packets") = 2 /\ r_("first_seen_ms") = 152 /\ r_("last_seen_ms") = 153
  BY DEF Element
<1>5. \A i \in 1 .. 14 : Len(Fields(f)[i]) = 2
  BY DEF Fields
<1> HIDE DEF e_, n_, r_
<1>6. \A i \in 1 .. 14 : n_(i) \in FlowFields
  BY <1>2 DEF FlowFields
<1>7. \A i, j \in 1 .. 14 : e_(i) = e_(j) => i = j
  BY <1>3
<1>8. \A i \in 1 .. 14 : e_(i) = r_(n_(i))
  BY <1>2, <1>3, <1>4
<1>9. \A name \in FlowFields : \E i \in 1 .. 14 : n_(i) = name
  BY <1>2 DEF FlowFields
<1>10. \A name \in FlowFields : \E i \in 1 .. 14 : n_(i) = name /\ e_(i) = r_(name)
  BY <1>8, <1>9
<1> QED BY <1>1, <1>5, <1>6, <1>7, <1>10 DEF e_, n_, r_

(* A template record cut into field specifiers is the table it was written *)
(* from: what a collector learns is what the exporter meant.               *)
LEMMA TemplateRecordFacts ==
  ASSUME NEW f \in Family
  PROVE  /\ Width(TemplateRecord(f)) = 60
         /\ TemplateRecord(f)[1].value = TemplateId(f)
         /\ Announced(TemplateRecord(f)) = Fields(f)
<1> DEFINE head == <<W(2, TemplateId(f)), W(2, Len(Fields(f)))>>
           specs == [k \in 1 .. 2 * Len(Fields(f)) |-> W(2, Fields(f)[(k+1) \div 2][2 - (k % 2)])]
           record == TemplateRecord(f)
           ws == [i \in 1 .. Len(record) |-> record[i].width]
<1>1. Len(Fields(f)) = 14
  BY FieldsFacts
<1>2. /\ Len(head) = 2 /\ head[1] = W(2, TemplateId(f)) /\ head[2] = W(2, 14)
      /\ Len(specs) = 28
      /\ \A k \in 1 .. 28 : specs[k] = W(2, Fields(f)[(k+1) \div 2][2 - (k % 2)])
  BY <1>1
<1>3. record = head \o specs
  BY DEF TemplateRecord
<1> DEFINE V == {head[1], head[2]} \cup {specs[k] : k \in 1 .. 28}
<1>31. specs \in Seq(V)
  <2>1. specs \in [1 .. 28 -> V]
    BY <1>1
  <2> HIDE DEF specs, V
  <2>2. [1 .. 28 -> V] \in {[1 .. k -> V] : k \in Nat}
    OBVIOUS
  <2>3. specs \in UNION {[1 .. k -> V] : k \in Nat}
    BY <2>1, <2>2
  <2> QED BY <2>3, SeqDef
<1>32. head \in Seq(V)
  <2> HIDE DEF specs
  <2> QED BY <1>2
<1> HIDE DEF head, specs, record, V
<1>33. /\ Len(record) = Len(head) + Len(specs)
       /\ \A i \in 1 .. Len(head) + Len(specs) :
            record[i] = IF i <= Len(head) THEN head[i] ELSE specs[i - Len(head)]
  BY <1>3, <1>31, <1>32, ConcatProperties
<1>4. /\ Len(record) = 30 /\ record[1] = head[1] /\ record[2] = head[2]
      /\ \A k \in 1 .. 28 : record[k + 2] = specs[k]
  BY <1>2, <1>33
<1>5. Width(record) = 60
  <2>1. \A i \in 1 .. 30 : record[i].width = 2
    <3> TAKE i \in 1 .. 30
    <3>1. CASE i \in {1, 2}
      BY <1>2, <1>4, <3>1 DEF W
    <3>2. CASE i \notin {1, 2}
      <4>1. i - 2 \in 1 .. 28 /\ (i - 2) + 2 = i
        BY <3>2
      <4>2. record[i] = specs[i - 2]
        BY <1>4, <4>1
      <4> QED BY <1>2, <4>1, <4>2 DEF W
    <3> QED BY <3>1, <3>2
  <2>2. Len(ws) = 30 /\ ws \in Seq(Nat) /\ \A i \in 1 .. Len(ws) : ws[i] = 2
    BY <1>4, <2>1
  <2>3. Width(record) = Sum(ws)
    BY DEF Width
  <2> HIDE DEF ws
  <2>4. Sum(ws) = Len(ws) * 2
    BY <2>2, SumConstant
  <2> QED BY <2>2, <2>3, <2>4
<1>6. Announced(record) = Fields(f)
  <2>1. record[2].value = 14
    BY <1>2, <1>4 DEF W
  <2>2. ASSUME NEW i \in 1 .. 14
        PROVE  /\ record[2*i + 1].value = Fields(f)[i][1]
               /\ record[2*i + 2].value = Fields(f)[i][2]
    <3>1. 2*i - 1 \in 1 .. 28 /\ 2*i \in 1 .. 28 /\ (2*i - 1) + 2 = 2*i + 1
      OBVIOUS
    <3>2. /\ ((2*i - 1) + 1) \div 2 = i /\ 2 - ((2*i - 1) % 2) = 1
          /\ (2*i + 1) \div 2 = i /\ 2 - ((2*i) % 2) = 2
      OBVIOUS
    <3>3. specs[2*i - 1] = W(2, Fields(f)[i][1]) /\ specs[2*i] = W(2, Fields(f)[i][2])
      BY <1>2, <3>1, <3>2
    <3> QED BY <1>4, <3>1, <3>3 DEF W
  <2>3. Announced(record) = [i \in 1 .. 14 |-> <<Fields(f)[i][1], Fields(f)[i][2]>>]
    BY <2>1, <2>2 DEF Announced
  <2>4. Fields(f) = [i \in 1 .. 14 |-> <<Fields(f)[i][1], Fields(f)[i][2]>>]
    BY DEF Fields
  <2> QED BY <2>3, <2>4
<1>7. record[1].value = TemplateId(f)
  BY <1>2, <1>4 DEF W
<1> QED BY <1>5, <1>6, <1>7 DEF record

(* The template set is as long as TEMPLATE_SET_LEN and its header say.     *)
LEMMA SizeOfTemplateSet ==
  /\ Size(TemplateSet) = TEMPLATE_SET_LEN
  /\ TemplateSet.head[1].value = 2 /\ TemplateSet.head[2].value = TEMPLATE_SET_LEN
<1> DEFINE ws == [i \in 1 .. Len(TemplateSet.body) |-> Width(TemplateSet.body[i])]
<1>1. /\ TemplateSet.head = <<W(2, 2), W(2, TEMPLATE_SET_LEN)>>
      /\ TemplateSet.body = <<TemplateRecord("v4"), TemplateRecord("v6")>>
  BY DEF TemplateSet
<1>2. Width(TemplateSet.head) = 4
  BY <1>1, WidthOfPair
<1>3. Width(TemplateRecord("v4")) = 60 /\ Width(TemplateRecord("v6")) = 60
  BY TemplateRecordFacts
<1>4. Len(ws) = 2 /\ ws \in Seq(Nat) /\ \A i \in 1 .. Len(ws) : ws[i] = 60
  BY <1>1, <1>3
<1>5. Size(TemplateSet) = Width(TemplateSet.head) + Sum(ws)
  BY DEF Size
<1> HIDE DEF ws
<1>6. Sum(ws) = 120
  <2>1. 60 \in Nat
    OBVIOUS
  <2>2. Sum(ws) = Len(ws) * 60
    BY <1>4, <2>1, SumConstant
  <2> QED BY <1>4, <2>2
<1>7. TemplateSet.head[1].value = 2 /\ TemplateSet.head[2].value = TEMPLATE_SET_LEN
  BY <1>1 DEF W
<1> QED BY <1>2, <1>4, <1>5, <1>6, <1>7, WireAssumption

(* A set with the records first .. last-1 of a family takes what pack_set  *)
(* adds to msg_len, and its header says so.                                *)
LEMMA SizeOfDataSet ==
  ASSUME NEW f \in Family, NEW first \in Nat, NEW last \in Nat, first < last
  PROVE  /\ Size(DataSet(f, first, last)) = SET_HEADER_LEN + (last - first) * RecordSize(f)
         /\ DataSet(f, first, last).head[1].value = TemplateId(f)
         /\ DataSet(f, first, last).head[2].value = Size(DataSet(f, first, last))
<1> DEFINE set == DataSet(f, first, last)
           ws == [i \in 1 .. Len(set.body) |-> Width(set.body[i])]
           len == SetLength((last - first) * RecordSize(f))
<1>1. /\ set.head = <<W(2, TemplateId(f)), W(2, len)>>
      /\ set.body = [i \in 1 .. last - first |-> Record(f, FlowAt(f, first + i - 1))]
  BY DEF DataSet
<1>2. RecordSize(f) \in Nat /\ last - first \in Nat
  BY RecordSizeType
<1>3. /\ Len(set.body) = last - first
      /\ \A i \in 1 .. Len(set.body) : Width(set.body[i]) = RecordSize(f)
  BY <1>1, <1>2, WidthOfRecord
<1>4. Size(set) = Width(set.head) + Sum(ws)
  BY DEF Size
<1>5. len = SET_HEADER_LEN + (last - first) * RecordSize(f)
  BY DEF SetLength
<1>6. set.head[1].value = TemplateId(f) /\ set.head[2].value = len
  BY <1>1 DEF W
<1>7. Width(set.head) = 4
  BY <1>1, WidthOfPair
<1> HIDE DEF set, len
<1>8. ws \in Seq(Nat) /\ Len(ws) = last - first /\ \A i \in 1 .. Len(ws) : ws[i] = RecordSize(f)
  BY <1>2, <1>3
<1> HIDE DEF ws
<1>9. Sum(ws) = (last - first) * RecordSize(f)
  BY <1>2, <1>8, SumConstant
<1>10. Size(set) = len
  BY <1>4, <1>5, <1>7, <1>9, WireAssumption
<1> QED BY <1>5, <1>6, <1>10 DEF set

-----------------------------------------------------------------------------
(* The sets of a message.                                                  *)

(* What pack_set adds to the sets of message d for family f.               *)
WithSet(ss, d, f) ==
  IF d.lo[f] < d.hi[f] THEN Append(ss, DataSet(f, d.lo[f], d.hi[f])) ELSE ss

(* The sets that go with what Encoder says of a message.                   *)
TemplatePart(d) == IF d.template THEN <<TemplateSet>> ELSE <<>>
SetsOf(d) == WithSet(WithSet(TemplatePart(d), d, "v4"), d, "v6")

(* Both of them or one, besides the templates.                             *)
Held(d) == {f \in Family : d.lo[f] < d.hi[f]}
SetsFor(d) == {TemplateSet} \cup {DataSet(f, d.lo[f], d.hi[f]) : f \in Held(d)}

(* Each set announces its own size.                                        *)
LEMMA SetsForFacts ==
  ASSUME NEW d \in Message
  PROVE  \A s \in SetsFor(d) : Size(s) \in Nat /\ s.head[2].value = Size(s)
<1>1. Size(TemplateSet) \in Nat /\ TemplateSet.head[2].value = Size(TemplateSet)
  BY SizeOfTemplateSet, EncoderAssumption
<1>2. ASSUME NEW f \in Held(d)
      PROVE  LET s == DataSet(f, d.lo[f], d.hi[f])
             IN  Size(s) \in Nat /\ s.head[2].value = Size(s)
  <2>1. f \in Family /\ d.lo[f] \in Nat /\ d.hi[f] \in Nat /\ d.lo[f] < d.hi[f]
    BY DEF Held, Message
  <2>2. (d.hi[f] - d.lo[f]) * RecordSize(f) \in Nat
    BY <2>1, RecordSizeType
  <2> DEFINE s == DataSet(f, d.lo[f], d.hi[f])
  <2>3. /\ Size(s) = SET_HEADER_LEN + (d.hi[f] - d.lo[f]) * RecordSize(f)
        /\ s.head[2].value = Size(s)
    BY <2>1, SizeOfDataSet
  <2> QED BY <2>2, <2>3, EncoderAssumption
<1> QED BY <1>1, <1>2 DEF SetsFor

(* One more set makes a message longer by the size of the set.             *)
LEMMA SizeOfAppend ==
  ASSUME NEW S, NEW ss \in Seq(S), NEW x \in S, \A s \in S : Size(s) \in Nat, NEW head,
         Width(head) \in Nat
  PROVE  /\ MessageSize(head, ss) \in Nat
         /\ MessageSize(head, Append(ss, x)) = MessageSize(head, ss) + Size(x)
<1> DEFINE g == [i \in 1 .. Len(ss) |-> Size(ss[i])]
           longer == Append(ss, x)
           h == [i \in 1 .. Len(longer) |-> Size(longer[i])]
<1>1. g \in Seq(Nat) /\ Len(g) = Len(ss)
  OBVIOUS
<1>2. /\ longer \in Seq(S) /\ Len(longer) = Len(ss) + 1 /\ longer[Len(ss) + 1] = x
      /\ \A i \in 1 .. Len(ss) : longer[i] = ss[i]
  OBVIOUS
<1>3. MessageSize(head, ss) = Width(head) + Sum(g)
  BY DEF MessageSize
<1>4. MessageSize(head, longer) = Width(head) + Sum(h)
  BY DEF MessageSize
<1> HIDE DEF longer
<1>5. h \in Seq(Nat) /\ Len(h) = Len(g) + 1 /\ h[Len(h)] = Size(x)
  BY <1>1, <1>2
<1>6. \A i \in 1 .. Len(g) : h[i] = g[i]
  BY <1>1, <1>2
<1> HIDE DEF g, h
<1>7. Sum(h) = Sum(g) + h[Len(h)]
  BY <1>1, <1>5, <1>6, SumExtend
<1>8. Sum(g) \in Nat /\ Size(x) \in Nat
  BY <1>1, SumType
<1> QED BY <1>3, <1>4, <1>5, <1>7, <1>8 DEF longer

(* The sets of a message are those of SetsFor, and with the header they    *)
(* take as many bytes as Encoder counts.                                   *)
LEMMA SizeOfSets ==
  ASSUME NEW d \in Message, \A f \in Family : d.lo[f] <= d.hi[f], NEW e
  PROVE  SetsOf(d) \in Seq(SetsFor(d)) /\ MessageSize(MessageHeader(e), SetsOf(d)) = Bytes(d)
<1> DEFINE S == SetsFor(d)
           head == MessageHeader(e)
           T == TemplatePart(d)
           A == WithSet(T, d, "v4")
           B == WithSet(A, d, "v6")
<1>1. /\ \A s \in S : Size(s) \in Nat
      /\ Width(head) = MSG_HEADER_LEN /\ MSG_HEADER_LEN \in Nat
  BY SetsForFacts, WidthOfHeader, EncoderAssumption
<1>2. TemplateSet \in S
  BY DEF SetsFor
<1>3. MessageSize(head, <<>>) = MSG_HEADER_LEN
  <2> DEFINE none == [i \in 1 .. Len(<<>>) |-> Size(<<>>[i])]
  <2>1. none \in Seq(Nat) /\ Len(none) = 0
    OBVIOUS
  <2>2. MessageSize(head, <<>>) = Width(head) + Sum(none)
    BY DEF MessageSize
  <2> HIDE DEF none, head
  <2>3. Sum(none) = 0
    <3>1. Len(none) \in Nat
      BY <2>1
    <3> QED BY <2>1, <3>1, SumSteps
  <2> QED BY <1>1, <2>1, <2>2, <2>3
<1>4. /\ T \in Seq(S)
      /\ MessageSize(head, T) = MSG_HEADER_LEN + (IF d.template THEN TEMPLATE_SET_LEN ELSE 0)
  <2>1. <<TemplateSet>> = Append(<<>>, TemplateSet) /\ <<>> \in Seq(S)
    OBVIOUS
  <2> HIDE DEF S, head
  <2>2. MessageSize(head, <<TemplateSet>>) = MSG_HEADER_LEN + TEMPLATE_SET_LEN
    BY <1>1, <1>2, <1>3, <2>1, SizeOfAppend, SizeOfTemplateSet
  <2> QED BY <1>1, <1>2, <1>3, <2>1, <2>2 DEF TemplatePart
<1>5. ASSUME NEW ss \in Seq(S), MessageSize(head, ss) \in Nat, NEW f \in Family
      PROVE  /\ WithSet(ss, d, f) \in Seq(S)
             /\ MessageSize(head, WithSet(ss, d, f)) = MessageSize(head, ss) + SetBytes(d, f)
             /\ MessageSize(head, WithSet(ss, d, f)) \in Nat
  <2>1. d.lo[f] \in Nat /\ d.hi[f] \in Nat /\ RecordSize(f) \in Nat /\ SET_HEADER_LEN \in Nat
    BY RecordSizeType, EncoderAssumption DEF Message
  <2>2. CASE d.lo[f] < d.hi[f]
    <3> DEFINE x == DataSet(f, d.lo[f], d.hi[f])
    <3>1. x \in S /\ WithSet(ss, d, f) = Append(ss, x)
      BY <2>2 DEF SetsFor, Held, WithSet
    <3>2. Size(x) = SET_HEADER_LEN + (d.hi[f] - d.lo[f]) * RecordSize(f)
      BY <2>1, <2>2, SizeOfDataSet
    <3>3. SetBytes(d, f) = SET_HEADER_LEN + (d.hi[f] - d.lo[f]) * RecordSize(f)
      BY <2>2 DEF SetBytes
    <3>4. Size(x) \in Nat
      BY <1>1, <3>1
    <3> HIDE DEF S, head, x
    <3>5. MessageSize(head, Append(ss, x)) = MessageSize(head, ss) + Size(x)
      BY <1>1, <1>5, <3>1, SizeOfAppend
    <3>6. Append(ss, x) \in Seq(S)
      BY <1>5, <3>1
    <3> QED BY <1>5, <3>1, <3>2, <3>3, <3>4, <3>5, <3>6
  <2>3. CASE ~(d.lo[f] < d.hi[f])
    <3>1. d.hi[f] - d.lo[f] = 0
      BY <2>1, <2>3
    <3>2. SetBytes(d, f) = 0
      BY <2>1, <2>3, <3>1 DEF SetBytes
    <3>3. WithSet(ss, d, f) = ss
      BY <2>3 DEF WithSet
    <3> QED BY <1>5, <3>2, <3>3
  <2> QED BY <2>2, <2>3
<1>6. MessageSize(head, T) \in Nat
  BY <1>4, EncoderAssumption
<1> HIDE DEF S, head, T
<1>7. /\ A \in Seq(S) /\ MessageSize(head, A) \in Nat
      /\ MessageSize(head, A) = MessageSize(head, T) + SetBytes(d, "v4")
  BY <1>4, <1>5, <1>6
<1> HIDE DEF A
<1>8. B \in Seq(S) /\ MessageSize(head, B) = MessageSize(head, A) + SetBytes(d, "v6")
  BY <1>5, <1>7
<1>9. SetsOf(d) = B
  BY DEF SetsOf, A, T
<1>10. MessageSize(head, B) = Bytes(d)
  BY <1>4, <1>7, <1>8 DEF Bytes
<1> QED BY <1>8, <1>9, <1>10 DEF S, head

-----------------------------------------------------------------------------
(* Wire implements Encoder.                                                *)

(* Every step of Wire is the step of Encoder it is built on.               *)
LEMMA WireStep == [WireNext]_wireVars => [Next]_vars
<1> SUFFICES ASSUME [WireNext]_wireVars PROVE [Next]_vars
  OBVIOUS
<1>1. ASSUME NEW count \in [Family -> FlowCounts], NEW tmpl \in BOOLEAN,
             NEW start \in SeqStarts, WireCall(count, tmpl, start)
      PROVE  Next
  BY <1>1 DEF WireCall, Next
<1>2. CASE WireOpen
  BY <1>2 DEF WireOpen, Next, Step
<1>3. ASSUME NEW f \in Family, WirePackSet(f) PROVE Next
  BY <1>3 DEF WirePackSet, Next, Step
<1>4. CASE WireClose
  BY <1>4 DEF WireClose, Next, Step
<1>5. CASE WireReturn
  BY <1>5 DEF WireReturn, Next, Step
<1>6. CASE UNCHANGED wireVars
  BY <1>6 DEF wireVars
<1> QED BY <1>1, <1>2, <1>3, <1>4, <1>5, <1>6 DEF WireNext

(* The encoder that writes bytes does what the one that counts them does:  *)
(* all that is proved of build_datagrams holds of the bytes (encode.rs:33- *)
(* 99).                                                                    *)
THEOREM WireImplementsEncoder == WireSpec => Spec
<1>1. WireInit => Init
  BY DEF WireInit
<1> QED BY <1>1, WireStep, PTL DEF WireSpec, Spec

-----------------------------------------------------------------------------
(* What has been written.                                                  *)

Finished(d) == [head |-> MessageHeader(d), sets |-> SetsOf(d)]

(* The bytes are those that Encoder's account of them calls for; and that  *)
(* account never leaves the lists the caller passed.                       *)
Written ==
  /\ InMessage => sets = SetsOf(buf)
  /\ wire = [i \in 1 .. Len(datagrams) |-> Finished(datagrams[i])]
  /\ \A i \in 1 .. Len(datagrams), f \in Family :
       datagrams[i].lo[f] <= datagrams[i].hi[f] /\ datagrams[i].hi[f] <= n[f]
  /\ \A f \in Family : n[f] \in FlowCounts \cup {0}

(* Before the first call nothing is written.                               *)
LEMMA WrittenInit == WireInit => Written
  BY DEF WireInit, Init, Written, InMessage, Zero

(* pack_set writes the set that its account of the message gains.          *)
LEMMA WrittenPackSet ==
  ASSUME Layout, Written, NEW f \in Family, WirePackSet(f)
  PROVE  Written'
<1>1. /\ pc = f /\ InMessage /\ idx'[f] = idx[f] + Take(f)
      /\ buf' = [buf EXCEPT !.hi[f] = idx[f] + Take(f)]
      /\ UNCHANGED <<n, datagrams, wire>>
      /\ sets' = IF idx'[f] = idx[f] THEN sets ELSE Append(sets, DataSet(f, idx[f], idx'[f]))
  <2>1. PackSet(f)
    BY DEF WirePackSet
  <2>2. pc = f /\ InMessage
    BY <2>1 DEF PackSet, InMessage
  <2>3. idx'[f] = idx[f] + Take(f) /\ buf' = [buf EXCEPT !.hi[f] = idx[f] + Take(f)]
    BY <2>1 DEF PackSet, Take, Advance, Layout, TypeOK
  <2> QED BY <2>1, <2>2, <2>3 DEF WirePackSet, PackSet
<1>2. buf \in Message /\ idx[f] \in Nat /\ Take(f) \in Nat
  BY TakeBounds DEF Layout, TypeOK
<1>3. /\ buf'.template = buf.template /\ buf'.lo = buf.lo
      /\ buf'.hi[f] = idx'[f]
      /\ \A g \in Family \ {f} : buf'.hi[g] = buf.hi[g]
  BY <1>1, <1>2 DEF Message
<1>4. buf.hi = idx /\ buf.lo[f] = idx[f] /\ (f = "v4" => buf.lo["v6"] = buf.hi["v6"])
  BY <1>1 DEF Layout, Building, InMessage
<1>5. (idx'[f] = idx[f]) <=> ~(buf.lo[f] < buf'.hi[f])
  BY <1>1, <1>2, <1>3, <1>4
<1>6. sets' = WithSet(sets, buf', f)
  BY <1>1, <1>3, <1>4, <1>5 DEF WithSet
<1>7. sets = SetsOf(buf)
  BY <1>1 DEF Written
<1>8. sets' = SetsOf(buf')
  <2>1. CASE f = "v4"
    <3>1. buf.lo["v6"] \in Nat
      BY <1>2 DEF Message
    <3>2. ~(buf.lo["v6"] < buf.hi["v6"]) /\ ~(buf.lo["v4"] < buf.hi["v4"])
      BY <1>2, <1>4, <2>1, <3>1
    <3>3. SetsOf(buf) = TemplatePart(buf) /\ TemplatePart(buf') = TemplatePart(buf)
      BY <1>3, <3>2 DEF SetsOf, WithSet, TemplatePart
    <3>4. ~(buf'.lo["v6"] < buf'.hi["v6"])
      BY <1>3, <2>1, <3>2
    <3> QED BY <1>6, <1>7, <2>1, <3>3, <3>4 DEF SetsOf, WithSet
  <2>2. CASE f = "v6"
    <3>1. ~(buf.lo["v6"] < buf.hi["v6"])
      BY <1>2, <1>4, <2>2
    <3>2. SetsOf(buf) = WithSet(TemplatePart(buf), buf, "v4")
      BY <3>1 DEF SetsOf, WithSet
    <3>3. WithSet(TemplatePart(buf'), buf', "v4") = WithSet(TemplatePart(buf), buf, "v4")
      BY <1>3, <2>2 DEF WithSet, TemplatePart
    <3> QED BY <1>6, <1>7, <2>2, <3>2, <3>3 DEF SetsOf
  <2> QED BY <2>1, <2>2
<1> QED BY <1>1, <1>8 DEF Written

(* A finished message goes out with its header patched and its sets as     *)
(* they are.                                                               *)
LEMMA WrittenClose ==
  ASSUME Layout, Written, WireClose
  PROVE  Written'
<1> DEFINE dg == [buf EXCEPT !.length = msg_len]
<1>1. /\ InMessage /\ ~InMessage'
      /\ datagrams' = Append(datagrams, dg)
      /\ wire' = Append(wire, [head |-> MessageHeader(dg), sets |-> sets])
      /\ UNCHANGED <<n, idx, sets>>
  BY DEF WireClose, CloseMessage, InMessage
<1>2. buf \in Message /\ datagrams \in Seq(Message) /\ msg_len \in Nat
  BY DEF Layout, TypeOK
<1>3. dg \in Message /\ dg.lo = buf.lo /\ dg.hi = buf.hi /\ dg.template = buf.template
  BY <1>2 DEF Message
<1>4. sets = SetsOf(dg)
  BY <1>1, <1>3 DEF Written, SetsOf, WithSet, TemplatePart
<1>5. \A f \in Family : dg.lo[f] <= dg.hi[f] /\ dg.hi[f] <= n[f]
  BY <1>1, <1>3 DEF Layout, Building, Consumed
<1> HIDE DEF dg
<1>6. wire = [i \in 1 .. Len(datagrams) |-> Finished(datagrams[i])]
  BY DEF Written
<1>7. /\ Len(datagrams') = Len(datagrams) + 1 /\ datagrams'[Len(datagrams) + 1] = dg
      /\ \A i \in 1 .. Len(datagrams) : datagrams'[i] = datagrams[i]
  BY <1>1, <1>2, <1>3
<1>8. wire' = [i \in 1 .. Len(datagrams') |-> Finished(datagrams'[i])]
  <2> DEFINE w == [i \in 1 .. Len(datagrams) |-> Finished(datagrams[i])]
  <2>1. wire' = Append(w, Finished(dg))
    BY <1>1, <1>4, <1>6 DEF Finished
  <2>2. Append(w, Finished(dg))
          = [i \in 1 .. Len(datagrams) + 1 |->
               IF i <= Len(datagrams) THEN Finished(datagrams[i]) ELSE Finished(dg)]
    BY <1>2
  <2>3. \A i \in 1 .. Len(datagrams) + 1 :
          Finished(datagrams'[i])
            = IF i <= Len(datagrams) THEN Finished(datagrams[i]) ELSE Finished(dg)
    BY <1>2, <1>7
  <2> QED BY <1>7, <2>1, <2>2, <2>3
<1>9. \A i \in 1 .. Len(datagrams'), f \in Family :
        datagrams'[i].lo[f] <= datagrams'[i].hi[f] /\ datagrams'[i].hi[f] <= n[f]
  <2> SUFFICES ASSUME NEW i \in 1 .. Len(datagrams'), NEW f \in Family
               PROVE  datagrams'[i].lo[f] <= datagrams'[i].hi[f] /\ datagrams'[i].hi[f] <= n[f]
    OBVIOUS
  <2>1. CASE i \in 1 .. Len(datagrams)
    BY <1>7, <2>1 DEF Written
  <2>2. CASE i = Len(datagrams) + 1
    BY <1>5, <1>7, <2>2
  <2> QED BY <1>2, <1>7, <2>1, <2>2
<1> QED BY <1>1, <1>8, <1>9 DEF Written

(* Every step keeps the bytes and the account of them together.            *)
LEMMA WrittenNext == Layout /\ Written /\ [WireNext]_wireVars => Written'
<1> SUFFICES ASSUME Layout, Written, [WireNext]_wireVars PROVE Written'
  OBVIOUS
<1>1. ASSUME NEW count \in [Family -> FlowCounts], NEW tmpl \in BOOLEAN,
             NEW start \in SeqStarts, WireCall(count, tmpl, start)
      PROVE  Written'
  BY <1>1 DEF WireCall, Call, Written, InMessage
<1>2. CASE WireOpen
  <2>1. /\ buf'.lo = idx /\ buf'.hi = idx /\ buf'.template = include_template_set
        /\ sets' = IF include_template_set THEN <<TemplateSet>> ELSE <<>>
        /\ UNCHANGED <<n, datagrams, wire>>
    BY <1>2 DEF WireOpen, OpenMessage
  <2>2. \A f \in Family : ~(idx[f] < idx[f])
    BY DEF Layout, TypeOK
  <2>3. sets' = SetsOf(buf')
    BY <2>1, <2>2 DEF SetsOf, WithSet, TemplatePart
  <2> QED BY <2>1, <2>3 DEF Written
<1>3. ASSUME NEW f \in Family, WirePackSet(f) PROVE Written'
  BY <1>3, WrittenPackSet
<1>4. CASE WireClose
  BY <1>4, WrittenClose
<1>5. CASE WireReturn
  BY <1>5 DEF WireReturn, Return, Written, InMessage
<1>6. CASE UNCHANGED wireVars
  BY <1>6 DEF wireVars, vars, Written, InMessage
<1> QED BY <1>1, <1>2, <1>3, <1>4, <1>5, <1>6 DEF WireNext

(* What is on the wire is what Encoder says is there.                      *)
THEOREM BytesFollowTheAccount == WireSpec => [](Layout /\ Written)
<1>1. WireSpec => []Layout
  BY WireImplementsEncoder, LayoutInvariant, PTL
<1> QED BY <1>1, WrittenInit, WrittenNext, PTL DEF WireSpec

(* The lengths in the headers of messages and sets, and msg_len, measure   *)
(* the bytes written, for every batch: RECORD_SIZE_V4, RECORD_SIZE_V6,     *)
(* TEMPLATE_SET_LEN and the two header lengths agree with the writers      *)
(* (encode.rs:55-63, 89, 120, 133-136, template.rs:32-34).                 *)
THEOREM BytesMatchCounts == WireSpec => []LengthsMeasured
<1>1. Layout /\ Written => LengthsMeasured
  <2> SUFFICES ASSUME Layout, Written PROVE LengthsMeasured
    OBVIOUS
  <2>1. ASSUME InMessage PROVE msg_len = MessageSize(MessageHeader(buf), sets)
    <3>1. buf \in Message /\ msg_len = Bytes(buf) /\ sets = SetsOf(buf)
      BY <2>1 DEF Layout, TypeOK, Building, Written
    <3>2. \A f \in Family : buf.lo[f] <= buf.hi[f]
      BY <2>1 DEF Layout, Building
    <3> QED BY <3>1, <3>2, SizeOfSets
  <2>2. ASSUME NEW i \in 1 .. Len(wire)
        PROVE  /\ wire[i].head[2].value = MessageSize(wire[i].head, wire[i].sets)
               /\ \A j \in 1 .. Len(wire[i].sets) :
                    wire[i].sets[j].head[2].value = Size(wire[i].sets[j])
    <3> DEFINE d == datagrams[i]
    <3>1. datagrams \in Seq(Message) /\ Len(wire) = Len(datagrams) /\ wire[i] = Finished(d)
      BY DEF Layout, TypeOK, Written
    <3>2. d \in Message /\ d.length = Bytes(d) /\ \A f \in Family : d.lo[f] <= d.hi[f]
      BY <3>1 DEF Layout, LengthHonest, Written
    <3>3. wire[i].head = MessageHeader(d) /\ wire[i].sets = SetsOf(d)
      BY <3>1 DEF Finished
    <3> HIDE DEF d
    <3>4. /\ SetsOf(d) \in Seq(SetsFor(d))
          /\ MessageSize(MessageHeader(d), SetsOf(d)) = Bytes(d)
      BY <3>2, SizeOfSets
    <3>5. MessageHeader(d)[2].value = d.length
      BY WidthOfHeader
    <3>6. \A j \in 1 .. Len(SetsOf(d)) : SetsOf(d)[j] \in SetsFor(d)
      BY <3>4
    <3> QED BY <3>2, <3>3, <3>4, <3>5, <3>6, SetsForFacts
  <2> QED BY <2>1, <2>2 DEF LengthsMeasured, InMessage
<1> QED BY <1>1, BytesFollowTheAccount, PTL

-----------------------------------------------------------------------------
(* What a collector reads.                                                 *)

(* The word of each field of a record.                                     *)
LEMMA WordOfField ==
  ASSUME NEW f \in Family, NEW flow, IsFlow(flow), NEW i \in 1 .. 14
  PROVE  /\ Record(f, flow)[i].width = Fields(f)[i][2]
         /\ Record(f, flow)[i].value = Expected(flow, InOrder[i])
<1>1. /\ flow.src # Unset /\ flow.dst # Unset /\ flow.ether_type # Unset
      /\ flow.bytes # Unset /\ flow.packets # Unset
      /\ flow.first_seen_ms # Unset /\ flow.last_seen_ms # Unset
      /\ flow.direction \in {"in", "out", Unset}
  BY DEF IsFlow, FlowFields, Optional
<1>2. Unset # "in" /\ Unset # "out"
  BY WireAssumption
<1>3. \A name : Expected(flow, name)
                  = IF name = "direction" THEN DirectionByte(flow.direction)
                    ELSE UnwrapOr(flow[name], 0)
  BY <1>1, <1>2 DEF Expected, DirectionByte, UnwrapOr
<1>4. CASE i \in {1, 2, 9}
  BY <1>1, <1>3, <1>4 DEF Record, Fields, InOrder, W, UnwrapOr
<1>5. CASE i \in {3, 4, 5, 6, 7, 8}
  BY <1>3, <1>5 DEF Record, Fields, InOrder, W
<1>6. CASE i = 10
  BY <1>3, <1>6 DEF Record, Fields, InOrder, W
<1>7. CASE i \in {11, 12, 13, 14}
  BY <1>1, <1>3, <1>7 DEF Record, Fields, InOrder, W, UnwrapOr
<1> QED BY <1>4, <1>5, <1>6, <1>7

(* A record read by the table of its family gives the flow back.           *)
LEMMA RecordReadsBack ==
  ASSUME NEW f \in Family, NEW flow, IsFlow(flow)
  PROVE  /\ Fits(Record(f, flow), Fields(f))
         /\ \A name \in FlowFields :
              ReadField(Record(f, flow), Fields(f), Element(f)[name]) = Expected(flow, name)
<1>1. Len(Fields(f)) = 14 /\ Len(Record(f, flow)) = 14
  BY FieldsFacts DEF Record
<1>2. Fits(Record(f, flow), Fields(f))
  BY <1>1, WordOfField DEF Fits
<1>3. ASSUME NEW name \in FlowFields
      PROVE  ReadField(Record(f, flow), Fields(f), Element(f)[name]) = Expected(flow, name)
  <2> DEFINE element == Element(f)[name]
  <2>1. PICK i \in 1 .. 14 : InOrder[i] = name /\ Fields(f)[i][1] = element
    BY FieldsFacts
  <2> HIDE DEF element
  <2>2. (CHOOSE j \in 1 .. Len(Fields(f)) : Fields(f)[j][1] = element) = i
    <3>1. \A j \in 1 .. 14 : Fields(f)[j][1] = element => j = i
      BY <2>1, FieldsFacts
    <3> QED BY <1>1, <2>1, <3>1
  <2>3. ReadField(Record(f, flow), Fields(f), element) = Record(f, flow)[i].value
    BY <2>2 DEF ReadField
  <2> QED BY <2>1, <2>3, WordOfField DEF element
<1> QED BY <1>2, <1>3

(* The sets of family f in a message.                                      *)
Holding(ss, f) == {j \in 1 .. Len(ss) : ss[j].head[1].value = TemplateId(f)}

(* A set of another family leaves them alone; one of this family is the    *)
(* only one.                                                               *)
LEMMA HoldingWithSet ==
  ASSUME NEW d \in Message, NEW S, NEW ss \in Seq(S), NEW f \in Family, NEW g \in Family
  PROVE  LET more == WithSet(ss, d, g)
         IN  /\ \A j \in 1 .. Len(ss) : j \in 1 .. Len(more) /\ more[j] = ss[j]
             /\ f # g => Holding(more, f) = Holding(ss, f)
             /\ Holding(ss, g) = {} =>
                  IF d.lo[g] < d.hi[g]
                  THEN \E j : Holding(more, g) = {j} /\ more[j] = DataSet(g, d.lo[g], d.hi[g])
                  ELSE Holding(more, g) = {}
<1> DEFINE more == WithSet(ss, d, g)
           x == DataSet(g, d.lo[g], d.hi[g])
<1>1. CASE d.lo[g] < d.hi[g]
  <2>1. d.lo[g] \in Nat /\ d.hi[g] \in Nat
    BY DEF Message
  <2>2. more = Append(ss, x)
    BY <1>1 DEF WithSet
  <2>3. x.head[1].value = TemplateId(g)
    BY <1>1, <2>1, SizeOfDataSet
  <2> HIDE DEF more, x
  <2>4. /\ Len(more) = Len(ss) + 1 /\ more[Len(ss) + 1] = x /\ Len(ss) \in Nat
        /\ \A j \in 1 .. Len(ss) : more[j] = ss[j]
    BY <2>2
  <2>5. f # g => TemplateId(f) # TemplateId(g)
    BY DEF TemplateId
  <2>6. f # g => Holding(more, f) = Holding(ss, f)
    BY <2>3, <2>4, <2>5 DEF Holding
  <2>7. Holding(ss, g) = {} => Holding(more, g) = {Len(ss) + 1}
    BY <2>3, <2>4 DEF Holding
  <2> QED BY <1>1, <2>4, <2>6, <2>7 DEF more, x
<1>2. CASE ~(d.lo[g] < d.hi[g])
  BY <1>2 DEF WithSet
<1> QED BY <1>1, <1>2

(* A message has one set of a family, with the records it is said to have, *)
(* or none of it.                                                          *)
LEMMA HoldingSetsOf ==
  ASSUME NEW d \in Message, NEW f \in Family, \A g \in Family : d.lo[g] <= d.hi[g]
  PROVE  IF d.lo[f] < d.hi[f]
         THEN \E j : /\ Holding(SetsOf(d), f) = {j}
                     /\ SetsOf(d)[j] = DataSet(f, d.lo[f], d.hi[f])
         ELSE Holding(SetsOf(d), f) = {}
<1> DEFINE S == SetsFor(d)
           T == TemplatePart(d)
           A == WithSet(T, d, "v4")
           B == WithSet(A, d, "v6")
           x == DataSet(f, d.lo[f], d.hi[f])
<1>1. T \in Seq(S) /\ A \in Seq(S)
  <2>1. \A g \in Family : d.lo[g] < d.hi[g] => DataSet(g, d.lo[g], d.hi[g]) \in S
    BY DEF SetsFor, Held
  <2>2. TemplateSet \in S
    BY DEF SetsFor
  <2> HIDE DEF S
  <2>3. T \in Seq(S)
    BY <2>2 DEF TemplatePart
  <2> HIDE DEF T
  <2> QED BY <2>1, <2>3 DEF WithSet
<1>2. \A g \in Family : Holding(T, g) = {}
  <2>1. \A g \in Family : TemplateId(g) # 2
    BY DEF TemplateId
  <2> QED BY <2>1, SizeOfTemplateSet DEF TemplatePart, Holding
<1>3. SetsOf(d) = B
  BY DEF SetsOf
<1> HIDE DEF S, T, x
<1>4. CASE f = "v4"
  <2>1. IF d.lo[f] < d.hi[f] THEN \E j : Holding(A, f) = {j} /\ A[j] = x ELSE Holding(A, f) = {}
    BY <1>1, <1>2, <1>4, HoldingWithSet DEF x
  <2>2. Holding(B, f) = Holding(A, f) /\ \A j \in 1 .. Len(A) : B[j] = A[j]
    BY <1>1, <1>4, HoldingWithSet
  <2>3. Holding(A, f) \subseteq 1 .. Len(A)
    BY DEF Holding
  <2> HIDE DEF A, B
  <2> QED BY <1>3, <2>1, <2>2, <2>3 DEF x
<1>5. CASE f = "v6"
  <2>1. Holding(A, f) = {}
    BY <1>1, <1>2, <1>5, HoldingWithSet
  <2> HIDE DEF A
  <2>2. IF d.lo[f] < d.hi[f] THEN \E j : Holding(B, f) = {j} /\ B[j] = x ELSE Holding(B, f) = {}
    BY <1>1, <1>5, <2>1, HoldingWithSet DEF x
  <2> QED BY <1>3, <2>2 DEF x
<1> QED BY <1>4, <1>5

(* A collector that knows nothing but the two templates gets every field   *)
(* of every flow back, in whatever batch and datagram it was sent          *)
(* (template.rs:37-69, encode.rs:138-170, flow.rs:49-59).                  *)
THEOREM CollectorReadsEveryFlow == WireSpec => []RecordsReadBack
<1>1. Layout /\ Written => RecordsReadBack
  <2> SUFFICES ASSUME Layout, Written, NEW i \in 1 .. Len(wire), NEW f \in Family
               PROVE  LET d == datagrams[i]
                          ss == wire[i].sets
                          holding == {j \in 1 .. Len(ss) : ss[j].head[1].value = TemplateId(f)}
                          fields == Announced(TemplateRecord(f))
                      IN  IF d.lo[f] = d.hi[f] THEN holding = {}
                          ELSE \E j \in holding :
                                 /\ holding = {j} /\ Len(ss[j].body) = d.hi[f] - d.lo[f]
                                 /\ \A r \in 1 .. Len(ss[j].body) :
                                      /\ Fits(ss[j].body[r], fields)
                                      /\ \A name \in FlowFields :
                                           ReadField(ss[j].body[r], fields, Element(f)[name])
                                             = Expected(FlowAt(f, d.lo[f] + r - 1), name)
    BY DEF RecordsReadBack
  <2> DEFINE d == datagrams[i]
             ss == SetsOf(d)
             x == DataSet(f, d.lo[f], d.hi[f])
  <2>1. datagrams \in Seq(Message) /\ Len(wire) = Len(datagrams) /\ wire[i] = Finished(d)
    BY DEF Layout, TypeOK, Written
  <2>2. d \in Message /\ \A g \in Family : d.lo[g] <= d.hi[g] /\ d.hi[g] <= n[g]
    BY <2>1 DEF Written
  <2>3. wire[i].sets = ss
    BY <2>1 DEF Finished
  <2>4. Announced(TemplateRecord(f)) = Fields(f)
    BY TemplateRecordFacts
  <2>5. d.lo[f] \in Nat /\ d.hi[f] \in Nat /\ n[f] \in Nat
    BY <2>2 DEF Layout, TypeOK, Message
  <2> HIDE DEF d
  <2>6. IF d.lo[f] < d.hi[f] THEN \E j : Holding(ss, f) = {j} /\ ss[j] = x
        ELSE Holding(ss, f) = {}
    BY <2>2, HoldingSetsOf
  <2> HIDE DEF ss
  <2>7. CASE d.lo[f] = d.hi[f]
    BY <2>3, <2>5, <2>6, <2>7 DEF Holding, d
  <2>8. CASE d.lo[f] < d.hi[f]
    <3>1. PICK j : Holding(ss, f) = {j} /\ ss[j] = x
      BY <2>6, <2>8
    <3>2. /\ Len(x.body) = d.hi[f] - d.lo[f]
          /\ \A r \in 1 .. Len(x.body) : x.body[r] = Record(f, FlowAt(f, d.lo[f] + r - 1))
      BY <2>5, <2>8 DEF DataSet
    <3> HIDE DEF x
    <3>3. ASSUME NEW r \in 1 .. Len(x.body)
          PROVE  /\ Fits(x.body[r], Fields(f))
                 /\ \A name \in FlowFields :
                      ReadField(x.body[r], Fields(f), Element(f)[name])
                        = Expected(FlowAt(f, d.lo[f] + r - 1), name)
      <4>1. d.lo[f] + r - 1 \in 0 .. n[f] - 1
        <5>1. r \in 1 .. d.hi[f] - d.lo[f]
          BY <3>2
        <5>2. d.hi[f] <= n[f]
          BY <2>2
        <5> QED BY <2>5, <5>1, <5>2
      <4>2. n[f] \in FlowCounts
        BY <2>2, <2>5, <2>8 DEF Written
      <4>3. IsFlow(FlowAt(f, d.lo[f] + r - 1))
        BY <4>1, <4>2, WireAssumption
      <4> QED BY <3>2, <4>3, RecordReadsBack
    <3>4. /\ Len(ss[j].body) = d.hi[f] - d.lo[f]
          /\ \A r \in 1 .. Len(ss[j].body) :
               /\ Fits(ss[j].body[r], Fields(f))
               /\ \A name \in FlowFields :
                    ReadField(ss[j].body[r], Fields(f), Element(f)[name])
                      = Expected(FlowAt(f, d.lo[f] + r - 1), name)
      BY <3>1, <3>2, <3>3
    <3>5. \E k \in Holding(ss, f) :
            /\ Holding(ss, f) = {k} /\ Len(ss[k].body) = d.hi[f] - d.lo[f]
            /\ \A r \in 1 .. Len(ss[k].body) :
                 /\ Fits(ss[k].body[r], Fields(f))
                 /\ \A name \in FlowFields :
                      ReadField(ss[k].body[r], Fields(f), Element(f)[name])
                        = Expected(FlowAt(f, d.lo[f] + r - 1), name)
      <4>1. j \in Holding(ss, f)
        BY <3>1
      <4> QED BY <3>1, <3>4, <4>1
    <3>6. d.lo[f] # d.hi[f]
      BY <2>5, <2>8
    <3>7. Holding(ss, f) = {k \in 1 .. Len(wire[i].sets) :
                              wire[i].sets[k].head[1].value = TemplateId(f)}
      BY <2>3 DEF Holding
    <3> QED BY <2>3, <2>4, <3>5, <3>6, <3>7 DEF d
  <2>9. d.lo[f] = d.hi[f] \/ d.lo[f] < d.hi[f]
    BY <2>2, <2>5
  <2> QED BY <2>7, <2>8, <2>9
<1> QED BY <1>1, BytesFollowTheAccount, PTL
=============================================================================
