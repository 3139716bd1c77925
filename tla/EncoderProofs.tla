--------------------------- MODULE EncoderProofs ---------------------------
(***************************************************************************)
(* Proofs about the message encoder, for every MTU, record size, batch and *)
(* sequence space that the assumption of Encoder allows.  The invariants   *)
(* are proved one on top of the other: types, then the layout of a         *)
(* message, then what the order of the two sets guarantees.                *)
(***************************************************************************)
EXTENDS EncoderContract, TLAPS, WellFoundedInduction

USE DEF Family

-----------------------------------------------------------------------------
(* take_records.                                                           *)

(* The quotient of a division of naturals, bounded from both sides.        *)
LEMMA DivBounds ==
  ASSUME NEW b \in Nat, NEW r \in Nat \ {0}
  PROVE  /\ b \div r \in Nat
         /\ (b \div r) * r <= b
         /\ b < (b \div r) * r + r
         /\ b \div r <= b
  BY SMT

(* take_records returns at most what is owed; the set it announces fits    *)
(* into the message; and it stops short of what is owed only when one more *)
(* record would not have fitted.                                           *)
LEMMA TakeRecordsBounds ==
  ASSUME NEW remaining \in Nat, NEW len \in Nat, NEW size \in Nat \ {0}
  PROVE  LET take == TakeRecords(remaining, len, size)
         IN  /\ take \in Nat
             /\ take <= remaining
             /\ take > 0 => len + SET_HEADER_LEN + take * size <= MTU
             /\ take < remaining => len + SET_HEADER_LEN + take * size + size > MTU
<1> DEFINE budget == SatSub(SatSub(MTU, len), SET_HEADER_LEN)
           fit == budget \div size
           take == TakeRecords(remaining, len, size)
<1>1. /\ budget \in Nat /\ budget <= MTU
      /\ budget > 0 => budget = MTU - len - SET_HEADER_LEN
      /\ budget = 0 => MTU <= len + SET_HEADER_LEN
  BY EncoderAssumption DEF SatSub
<1>2. /\ fit \in Nat /\ fit <= budget
      /\ fit * size <= budget /\ budget < fit * size + size
  <2> HIDE DEF budget
  <2> QED BY <1>1, DivBounds
<1>3. take = Least(fit, Least(remaining, U16MAX))
  BY DEF TakeRecords
<1> HIDE DEF budget, fit, take
<1>4. /\ take \in Nat /\ take <= remaining /\ take <= fit
      /\ take < remaining => take = fit
  BY <1>1, <1>2, <1>3, EncoderAssumption DEF Least
<1>5. take * size \in Nat /\ take * size <= fit * size
  BY <1>2, <1>4
<1>6. take > 0 => len + SET_HEADER_LEN + take * size <= MTU
  <2> SUFFICES ASSUME take > 0 PROVE len + SET_HEADER_LEN + take * size <= MTU
    OBVIOUS
  <2>1. fit > 0
    BY <1>2, <1>4
  <2>2. fit * size > 0
    BY <2>1, <1>2
  <2>3. budget > 0
    BY <2>2, <1>1, <1>2
  <2> QED BY <2>3, <1>1, <1>2, <1>5, EncoderAssumption
<1>7. take < remaining => len + SET_HEADER_LEN + take * size + size > MTU
  BY <1>1, <1>2, <1>4, <1>5, EncoderAssumption
<1> QED BY <1>4, <1>6, <1>7 DEF take

-----------------------------------------------------------------------------
(* Types.                                                                  *)

(* No index runs past the end of its list: flows.len() - *idx in pack_set  *)
(* does not underflow.                                                     *)
Consumed == \A f \in Family : idx[f] <= n[f]

(* Both record sizes are positive, so take_records never divides by zero.  *)
LEMMA RecordSizeType == \A f \in Family : RecordSize(f) \in Nat \ {0}
  BY EncoderAssumption DEF RecordSize

(* What one pack_set writes, in the terms of TakeRecordsBounds.            *)
Take(f) == TakeRecords(n[f] - idx[f], msg_len, RecordSize(f))

(* TakeRecordsBounds for the call that pack_set makes for family f.        *)
LEMMA TakeBounds ==
  ASSUME TypeOK, Consumed, NEW f \in Family
  PROVE  /\ Take(f) \in Nat
         /\ idx[f] + Take(f) <= n[f]
         /\ Take(f) > 0 => msg_len + SET_HEADER_LEN + Take(f) * RecordSize(f) <= MTU
         /\ idx[f] + Take(f) < n[f]
              => msg_len + SET_HEADER_LEN + Take(f) * RecordSize(f) + RecordSize(f) > MTU
<1>1. n[f] - idx[f] \in Nat /\ n[f] \in Nat /\ idx[f] \in Nat /\ msg_len \in Nat
  BY DEF TypeOK, Consumed
<1>2. RecordSize(f) \in Nat \ {0}
  BY RecordSizeType
<1>3. /\ Take(f) \in Nat
      /\ Take(f) <= n[f] - idx[f]
      /\ Take(f) > 0 => msg_len + SET_HEADER_LEN + Take(f) * RecordSize(f) <= MTU
      /\ Take(f) < n[f] - idx[f]
           => msg_len + SET_HEADER_LEN + Take(f) * RecordSize(f) + RecordSize(f) > MTU
  BY <1>1, <1>2, TakeRecordsBounds DEF Take
<1> QED BY <1>1, <1>3

(* pack_set again, with Take in place of its LET.                          *)
LEMMA PackSetStep ==
  ASSUME NEW f \in Family, PackSet(f)
  PROVE  /\ pc = f
         /\ pc' = IF f = "v4" THEN "v6" ELSE "patch"
         /\ idx' = [idx EXCEPT ![f] = idx[f] + Take(f)]
         /\ buf' = [buf EXCEPT !.hi[f] = idx[f] + Take(f)]
         /\ msg_len' = msg_len + SetLen(Take(f), f)
         /\ records_in_msg' = records_in_msg + Take(f)
         /\ UNCHANGED <<n, include_template_set, seq, datagrams, seq_start, with_template>>
  BY DEF PackSet, Take, Advance

(* Before the first call the types hold.                                   *)
LEMMA TypesInit == Init => TypeOK /\ Consumed
<1> SUFFICES ASSUME Init PROVE TypeOK /\ Consumed
  OBVIOUS
<1>1. Zero \in [Family -> Nat] /\ 0 \in 0 .. SEQ_MOD-1
  BY EncoderAssumption DEF Zero
<1>2. NoMessage \in Message
  BY <1>1 DEF NoMessage, Message
<1>3. TypeOK
  <2>1. buf \in Message /\ datagrams \in Seq(Message)
    BY <1>2 DEF Init
  <2>2. n \in [Family -> Nat] /\ idx \in [Family -> Nat]
    BY <1>1 DEF Init
  <2> QED BY <1>1, <2>1, <2>2 DEF Init, TypeOK
<1>4. Consumed
  BY DEF Init, Consumed, Zero
<1> QED BY <1>3, <1>4

(* Every step of build_datagrams preserves the types and index bounds.     *)
LEMMA TypesNext == TypeOK /\ Consumed /\ [Next]_vars => TypeOK' /\ Consumed'
<1> SUFFICES ASSUME TypeOK, Consumed, [Next]_vars
             PROVE  TypeOK' /\ Consumed'
  OBVIOUS
<1> USE DEF TypeOK, Consumed
<1>1. ASSUME NEW count \in [Family -> FlowCounts], NEW tmpl \in BOOLEAN,
             NEW start \in SeqStarts, Call(count, tmpl, start)
      PROVE  TypeOK' /\ Consumed'
  <2>1. count \in [Family -> Nat] /\ start \in 0 .. SEQ_MOD-1
    BY EncoderAssumption
  <2> QED BY <1>1, <2>1 DEF Call, Zero
<1>2. CASE OpenMessage
  <2>1. buf' \in Message
    BY <1>2 DEF OpenMessage, Message
  <2>2. msg_len' \in Nat
    BY <1>2, EncoderAssumption DEF OpenMessage
  <2>3. include_template_set' \in BOOLEAN
    BY <1>2 DEF OpenMessage, ClearInclude
  <2> QED BY <1>2, <2>1, <2>2, <2>3 DEF OpenMessage
<1>3. ASSUME NEW f \in Family, PackSet(f)
      PROVE  TypeOK' /\ Consumed'
  <2>1. Take(f) \in Nat /\ idx[f] + Take(f) <= n[f]
    BY TakeBounds
  <2>2. idx' \in [Family -> Nat] /\ Consumed'
    BY <1>3, <2>1, PackSetStep
  <2>3. buf' \in Message
    <3>1. buf.hi \in [Family -> Nat]
      BY DEF Message
    <3>2. [buf.hi EXCEPT ![f] = idx[f] + Take(f)] \in [Family -> Nat]
      BY <2>1, <3>1
    <3>3. buf' = [buf EXCEPT !.hi = [buf.hi EXCEPT ![f] = idx[f] + Take(f)]]
      BY <1>3, PackSetStep
    <3> QED BY <3>2, <3>3 DEF Message
  <2>4. Take(f) * RecordSize(f) \in Nat
    BY <2>1, RecordSizeType
  <2>5. SetLen(Take(f), f) \in Nat
    BY <2>4, EncoderAssumption DEF SetLen
  <2>6. msg_len' \in Nat /\ records_in_msg' \in Nat
    BY <1>3, <2>1, <2>5, PackSetStep
  <2> QED BY <1>3, <2>2, <2>3, <2>6, PackSetStep
<1>4. CASE CloseMessage
  <2>1. [buf EXCEPT !.length = msg_len] \in Message
    BY DEF Message
  <2>2. datagrams' \in Seq(Message)
    BY <1>4, <2>1 DEF CloseMessage
  <2>3. seq' \in 0 .. SEQ_MOD-1
    <3>1. seq + records_in_msg \in Nat /\ SEQ_MOD \in Nat \ {0}
      BY EncoderAssumption
    <3> QED BY <1>4, <3>1 DEF CloseMessage, AdvanceSeq
  <2> QED BY <1>4, <2>2, <2>3 DEF CloseMessage
<1>5. CASE Return
  BY <1>5, EncoderAssumption DEF Return, NoMessage, Message, Zero
<1>6. CASE UNCHANGED vars
  BY <1>6 DEF vars
<1> QED BY <1>1, <1>2, <1>3, <1>4, <1>5, <1>6 DEF Next, Step

(* The locals of build_datagrams have their types, and the subtraction in  *)
(* take_records' first argument never underflows (encode.rs:110).          *)
THEOREM TypeCorrect == Spec => [](TypeOK /\ Consumed)
  BY TypesInit, TypesNext, PTL DEF Spec

-----------------------------------------------------------------------------
(* The layout of a message.                                                *)

InMessage == pc \in {"v4", "v6", "patch"}

(* The message under construction: what msg_len, records_in_msg and the    *)
(* indices say of it.                                                      *)
Building ==
  InMessage =>
    /\ buf.hi = idx
    /\ \A f \in Family : buf.lo[f] <= idx[f]
    /\ pc = "v4" => buf.lo["v4"] = idx["v4"]
    /\ pc \in {"v4", "v6"} => buf.lo["v6"] = idx["v6"]
    /\ msg_len = Bytes(buf)
    /\ records_in_msg = (idx["v4"] - buf.lo["v4"]) + (idx["v6"] - buf.lo["v6"])

Layout == TypeOK /\ Consumed /\ Building /\ FitsMTU /\ LengthHonest

(* Writing a set of count records into a message that has none of family f *)
(* lengthens it by what pack_set adds to msg_len.                          *)
LEMMA SetLenIsBytes ==
  ASSUME TypeOK, NEW f \in Family, NEW count \in Nat, buf.hi[f] = buf.lo[f]
  PROVE  Bytes([buf EXCEPT !.hi[f] = buf.hi[f] + count]) = Bytes(buf) + SetLen(count, f)
<1> DEFINE new == [buf EXCEPT !.hi[f] = buf.hi[f] + count]
<1>1. buf \in Message /\ buf.lo[f] \in Nat
  BY DEF TypeOK, Message
<1>2. /\ new.lo = buf.lo /\ new.template = buf.template
      /\ new.hi[f] = buf.lo[f] + count
      /\ \A g \in Family \ {f} : new.hi[g] = buf.hi[g]
  BY <1>1 DEF Message
<1>3. RecordSize(f) \in Nat /\ SET_HEADER_LEN \in Nat
  BY RecordSizeType, EncoderAssumption
<1>4. (buf.hi[f] - buf.lo[f]) * RecordSize(f) = 0
  <2>1. buf.hi[f] - buf.lo[f] = 0
    BY <1>1
  <2> QED BY <2>1, <1>3
<1>5. SetBytes(buf, f) = 0
  BY <1>1, <1>4 DEF SetBytes
<1>6. count * RecordSize(f) \in Nat
  BY <1>3
<1>7. SetBytes(new, f) = SetLen(count, f)
  <2>1. new.hi[f] - new.lo[f] = count
    BY <1>1, <1>2
  <2>2. (new.lo[f] < new.hi[f]) <=> count # 0
    BY <1>1, <1>2
  <2> HIDE DEF new
  <2>3. CASE count = 0
    <3>1. 0 * RecordSize(f) = 0
      BY <1>3
    <3> QED BY <2>1, <2>2, <2>3, <3>1 DEF SetBytes, SetLen
  <2>4. CASE count # 0
    BY <2>1, <2>2, <2>4, <1>3, <1>6 DEF SetBytes, SetLen
  <2> QED BY <2>3, <2>4
<1>8. \A g \in Family \ {f} : SetBytes(new, g) = SetBytes(buf, g)
  BY <1>2 DEF SetBytes
<1>9. \A g \in Family : SetBytes(buf, g) \in Int
  <2> TAKE g \in Family
  <2>1. buf.hi[g] \in Nat /\ buf.lo[g] \in Nat /\ RecordSize(g) \in Nat
    BY <1>1, RecordSizeType DEF Message
  <2>2. (buf.hi[g] - buf.lo[g]) * RecordSize(g) \in Int
    BY <2>1
  <2> QED BY <2>2, <1>3 DEF SetBytes
<1>10. SetLen(count, f) \in Nat
  BY <1>3, <1>6 DEF SetLen
<1> HIDE DEF new
<1>11. Bytes(new) = Bytes(buf) + SetLen(count, f)
  <2>1. CASE f = "v4"
    BY <1>2, <1>5, <1>7, <1>8, <1>9, <1>10, <2>1, EncoderAssumption DEF Bytes
  <2>2. CASE f = "v6"
    BY <1>2, <1>5, <1>7, <1>8, <1>9, <1>10, <2>2, EncoderAssumption DEF Bytes
  <2> QED BY <2>1, <2>2
<1> QED BY <1>11 DEF new

(* Before the first call there is no message to lay out.                   *)
LEMMA LayoutInit == Init => Layout
<1> SUFFICES ASSUME Init PROVE Layout
  OBVIOUS
<1>1. TypeOK /\ Consumed
  BY TypesInit
<1>2. Building
  BY DEF Init, Building, InMessage
<1>3. FitsMTU /\ LengthHonest
  BY EncoderAssumption DEF Init, FitsMTU, LengthHonest
<1> QED BY <1>1, <1>2, <1>3 DEF Layout

(* Every step keeps msg_len equal to the bytes of the message and within   *)
(* the MTU.                                                                *)
LEMMA LayoutNext == Layout /\ [Next]_vars => Layout'
<1> SUFFICES ASSUME Layout, [Next]_vars
             PROVE  Building' /\ FitsMTU' /\ LengthHonest'
  BY TypesNext DEF Layout
<1>0. TypeOK /\ Consumed /\ Building /\ FitsMTU /\ LengthHonest /\ TypeOK'
  BY TypesNext DEF Layout
<1>1. ASSUME NEW count \in [Family -> FlowCounts], NEW tmpl \in BOOLEAN,
             NEW start \in SeqStarts, Call(count, tmpl, start)
      PROVE  Building' /\ FitsMTU' /\ LengthHonest'
  BY <1>0, <1>1 DEF Call, Building, InMessage, FitsMTU, LengthHonest
<1>2. CASE OpenMessage
  <2>1. pc' = "v4" /\ idx' = idx /\ datagrams' = datagrams
    BY <1>2 DEF OpenMessage
  <2>2. /\ buf'.lo = idx /\ buf'.hi = idx /\ buf'.template = include_template_set
        /\ records_in_msg' = 0
        /\ msg_len' = MSG_HEADER_LEN + (IF include_template_set THEN TEMPLATE_SET_LEN ELSE 0)
    BY <1>2 DEF OpenMessage
  <2>3. idx \in [Family -> Nat]
    BY <1>0 DEF TypeOK
  <2>4. \A f \in Family : SetBytes(buf', f) = 0
    <3> TAKE f \in Family
    <3>1. idx[f] - idx[f] = 0 /\ 0 * RecordSize(f) = 0 /\ ~(idx[f] < idx[f])
      BY <2>3, RecordSizeType
    <3> QED BY <2>2, <3>1 DEF SetBytes
  <2>5. msg_len' = Bytes(buf')
    BY <2>2, <2>4, EncoderAssumption DEF Bytes
  <2>6. Building'
    BY <2>1, <2>2, <2>3, <2>5 DEF Building, InMessage
  <2>7. FitsMTU'
    BY <1>0, <2>1, <2>2, EncoderAssumption DEF FitsMTU
  <2> QED BY <1>0, <2>1, <2>6, <2>7 DEF LengthHonest
<1>3. ASSUME NEW f \in Family, PackSet(f)
      PROVE  Building' /\ FitsMTU' /\ LengthHonest'
  <2>1. /\ pc = f /\ pc' = (IF f = "v4" THEN "v6" ELSE "patch") /\ UNCHANGED datagrams
        /\ idx' = [idx EXCEPT ![f] = idx[f] + Take(f)]
        /\ buf' = [buf EXCEPT !.hi[f] = idx[f] + Take(f)]
        /\ msg_len' = msg_len + SetLen(Take(f), f)
        /\ records_in_msg' = records_in_msg + Take(f)
    BY <1>3, PackSetStep
  <2>2. /\ Take(f) \in Nat
        /\ Take(f) > 0 => msg_len + SET_HEADER_LEN + Take(f) * RecordSize(f) <= MTU
    BY <1>0, TakeBounds
  <2>3. /\ buf.hi = idx /\ buf.lo[f] = idx[f] /\ msg_len = Bytes(buf)
        /\ \A g \in Family : buf.lo[g] <= idx[g]
        /\ f = "v4" => buf.lo["v6"] = idx["v6"]
        /\ records_in_msg = (idx["v4"] - buf.lo["v4"]) + (idx["v6"] - buf.lo["v6"])
    BY <1>0, <2>1 DEF Building, InMessage
  <2>4. /\ buf'.lo = buf.lo
        /\ buf'.hi = [buf.hi EXCEPT ![f] = idx[f] + Take(f)]
        /\ buf.lo \in [Family -> Nat] /\ idx \in [Family -> Nat]
    BY <1>0, <2>1 DEF TypeOK, Message
  <2>5. msg_len' = Bytes(buf')
    BY <1>0, <2>1, <2>2, <2>3, SetLenIsBytes
  <2>6. Building'
    <3>1. buf'.hi = idx'
      BY <2>1, <2>3, <2>4
    <3>2. \A g \in Family : idx'[g] = idx[g] + (IF g = f THEN Take(f) ELSE 0)
      BY <2>1, <2>2, <2>4
    <3>3. \A g \in Family : buf'.lo[g] <= idx'[g]
      BY <2>2, <2>3, <2>4, <3>2
    <3>4. records_in_msg' = (idx'["v4"] - buf'.lo["v4"]) + (idx'["v6"] - buf'.lo["v6"])
      BY <2>1, <2>2, <2>3, <2>4, <3>2
    <3>5. pc' = "v6" => buf'.lo["v6"] = idx'["v6"]
      BY <2>1, <2>3, <2>4, <3>2
    <3> QED BY <2>1, <2>5, <3>1, <3>3, <3>4, <3>5 DEF Building, InMessage
  <2>7. msg_len' <= MTU
    <3>1. CASE Take(f) = 0
      BY <1>0, <2>1, <3>1 DEF FitsMTU, SetLen, TypeOK
    <3>2. CASE Take(f) # 0
      <4>1. SetLen(Take(f), f) = SET_HEADER_LEN + Take(f) * RecordSize(f)
        BY <3>2 DEF SetLen
      <4>2. Take(f) * RecordSize(f) \in Nat /\ msg_len \in Nat
        <5>1. RecordSize(f) \in Nat
          BY RecordSizeType
        <5>2. msg_len \in Nat
          BY <1>0 DEF TypeOK
        <5> QED BY <2>2, <5>1, <5>2
      <4> QED BY <2>1, <2>2, <3>2, <4>1, <4>2, EncoderAssumption
    <3> QED BY <3>1, <3>2
  <2> QED BY <1>0, <2>1, <2>6, <2>7 DEF FitsMTU, LengthHonest
<1>4. CASE CloseMessage
  <2> DEFINE dg == [buf EXCEPT !.length = msg_len]
  <2>1. pc = "patch" /\ pc' = "loop" /\ datagrams' = Append(datagrams, dg) /\ msg_len' = msg_len
    BY <1>4 DEF CloseMessage
  <2>2. /\ dg.length = msg_len /\ dg.lo = buf.lo /\ dg.hi = buf.hi /\ dg.template = buf.template
        /\ dg \in Message
    BY <1>0 DEF TypeOK, Message
  <2>3. msg_len = Bytes(buf)
    BY <1>0, <2>1 DEF Building, InMessage
  <2>4. Bytes(dg) = dg.length
    BY <2>2, <2>3 DEF Bytes, SetBytes
  <2> HIDE DEF dg
  <2>5. /\ Len(datagrams') = Len(datagrams) + 1
        /\ \A i \in 1 .. Len(datagrams) : datagrams'[i] = datagrams[i]
        /\ datagrams'[Len(datagrams) + 1] = dg
        /\ Len(datagrams) \in Nat
    BY <1>0, <2>1, <2>2 DEF TypeOK
  <2>6. FitsMTU'
    BY <1>0, <2>1, <2>2, <2>5 DEF FitsMTU
  <2>7. LengthHonest'
    BY <1>0, <2>4, <2>5 DEF LengthHonest
  <2> QED BY <2>1, <2>6, <2>7 DEF Building, InMessage
<1>5. CASE Return
  BY <1>0, <1>5, EncoderAssumption DEF Return, Building, InMessage, FitsMTU, LengthHonest
<1>6. CASE UNCHANGED vars
  BY <1>0, <1>6 DEF vars, Building, InMessage, FitsMTU, LengthHonest, Bytes, SetBytes
<1> QED BY <1>1, <1>2, <1>3, <1>4, <1>5, <1>6 DEF Next, Step

(* The message under construction is always what the loop's locals say.    *)
THEOREM LayoutInvariant == Spec => []Layout
  BY LayoutInit, LayoutNext, PTL DEF Spec

(* No datagram exceeds the MTU, for every MTU that satisfies the           *)
(* compile-time assertion: the u16 sums on msg_len cannot overflow.        *)
THEOREM NeverExceedsMTU == Spec => []FitsMTU
  BY LayoutInvariant, PTL DEF Layout

(* The length field of every datagram is the number of bytes in it.        *)
THEOREM LengthFieldHonest == Spec => []LengthHonest
  BY LayoutInvariant, PTL DEF Layout

-----------------------------------------------------------------------------
(* What the order of the two sets guarantees.                              *)

(* Neither set of the message can take the next record it is owed; a v6    *)
(* record is owed only once the v4 records are out.                        *)
Tight(f) ==
  idx[f] < n[f] /\ (f = "v6" => idx["v4"] = n["v4"])
    => msg_len + RecordSize(f) + (IF buf.lo[f] = idx[f] THEN SET_HEADER_LEN ELSE 0) > MTU

Bare == msg_len <= MSG_HEADER_LEN + TEMPLATE_SET_LEN

SetOrder ==
  /\ pc = "v4" => Bare /\ Pending
  /\ pc = "v6" => /\ buf.lo["v4"] < n["v4"] => buf.lo["v4"] < idx["v4"]
                  /\ buf.lo["v4"] = idx["v4"] => Bare /\ idx["v6"] < n["v6"]
                  /\ idx["v4"] < n["v4"] => msg_len + RECORD_SIZE_V4 > MTU
  /\ pc = "patch" => /\ \E f \in Family : buf.lo[f] < idx[f]
                     /\ buf.lo["v6"] < idx["v6"] => idx["v4"] = n["v4"]
                     /\ \A f \in Family : Tight(f)

Ordered == SetOrder /\ EveryMessageProgresses /\ V4BeforeV6 /\ NoEarlySplit

(* A message that holds no record yet has room for one of either family.   *)
LEMMA BareTakes ==
  ASSUME TypeOK, Consumed, Bare, NEW f \in Family, idx[f] < n[f]
  PROVE  Take(f) > 0
<1>1. /\ Take(f) \in Nat
      /\ idx[f] + Take(f) < n[f]
           => msg_len + SET_HEADER_LEN + Take(f) * RecordSize(f) + RecordSize(f) > MTU
  BY TakeBounds
<1>2. SUFFICES ASSUME Take(f) = 0 PROVE FALSE
  BY <1>1
<1>3. Take(f) * RecordSize(f) = 0 /\ RecordSize(f) \in Nat /\ RecordSize(f) <= RECORD_SIZE_V6
  BY <1>2, RecordSizeType, EncoderAssumption DEF RecordSize
<1>4. msg_len \in Nat /\ idx[f] \in Nat /\ n[f] \in Nat
  BY DEF TypeOK
<1>5. msg_len + SET_HEADER_LEN + RecordSize(f) > MTU
  BY <1>1, <1>2, <1>3, <1>4, EncoderAssumption
<1> QED BY <1>3, <1>4, <1>5, EncoderAssumption DEF Bare

(* After the v4 set: some v4 record went in if one was owed, and if one is *)
(* still owed the message cannot take it.                                  *)
LEMMA OrderedPackV4 == Layout /\ SetOrder /\ PackSet("v4") => SetOrder'
<1> SUFFICES ASSUME Layout, SetOrder, PackSet("v4") PROVE SetOrder'
  OBVIOUS
<1> DEFINE T == Take("v4")
<1>1. TypeOK /\ Consumed /\ Building
  BY DEF Layout
<1>2. /\ pc = "v4" /\ pc' = "v6" /\ UNCHANGED n
      /\ idx' = [idx EXCEPT !["v4"] = idx["v4"] + T]
      /\ buf' = [buf EXCEPT !.hi["v4"] = idx["v4"] + T]
      /\ msg_len' = msg_len + SetLen(T, "v4")
  BY PackSetStep
<1>3. /\ T \in Nat
      /\ idx["v4"] + T < n["v4"]
           => msg_len + SET_HEADER_LEN + T * RECORD_SIZE_V4 + RECORD_SIZE_V4 > MTU
  BY <1>1, TakeBounds DEF RecordSize
<1>4. Bare /\ Pending /\ buf.lo["v4"] = idx["v4"]
  BY <1>1, <1>2 DEF SetOrder, Building, InMessage
<1>5. idx["v4"] < n["v4"] => T > 0
  BY <1>1, <1>4, BareTakes
<1>6. /\ idx \in [Family -> Nat] /\ n \in [Family -> Nat] /\ msg_len \in Nat
      /\ buf'.lo = buf.lo
      /\ \A f \in Family : idx[f] <= n[f]
  BY <1>1, <1>2 DEF TypeOK, Message, Consumed
<1> HIDE DEF T
<1>7. idx'["v4"] = idx["v4"] + T /\ idx'["v6"] = idx["v6"]
  BY <1>2, <1>6
<1>8. buf'.lo["v4"] < n'["v4"] => buf'.lo["v4"] < idx'["v4"]
  BY <1>2, <1>3, <1>4, <1>5, <1>6, <1>7
<1>9. ASSUME buf'.lo["v4"] = idx'["v4"] PROVE Bare' /\ idx'["v6"] < n'["v6"]
  <2>1. T = 0
    BY <1>3, <1>4, <1>6, <1>7, <1>9
  <2>2. msg_len' = msg_len
    BY <1>2, <1>6, <2>1 DEF SetLen
  <2>3. idx["v4"] = n["v4"]
    BY <1>5, <1>6, <2>1
  <2>4. idx["v6"] < n["v6"]
    BY <1>4, <1>6, <2>3 DEF Pending
  <2> QED BY <1>2, <1>4, <1>7, <2>2, <2>4 DEF Bare
<1>10. ASSUME idx'["v4"] < n'["v4"] PROVE msg_len' + RECORD_SIZE_V4 > MTU
  <2>1. idx["v4"] + T < n["v4"] /\ T > 0
    BY <1>2, <1>3, <1>5, <1>6, <1>7, <1>10
  <2>2. msg_len' = msg_len + (SET_HEADER_LEN + T * RECORD_SIZE_V4)
    BY <1>2, <2>1 DEF SetLen, RecordSize
  <2>3. T * RECORD_SIZE_V4 \in Nat
    BY <1>3, EncoderAssumption
  <2> QED BY <1>3, <1>6, <2>1, <2>2, <2>3, EncoderAssumption
<1> QED BY <1>2, <1>8, <1>9, <1>10 DEF SetOrder

(* After the v6 set: the message holds a record, and neither family's next *)
(* record would fit.                                                       *)
LEMMA OrderedPackV6 == Layout /\ SetOrder /\ PackSet("v6") => SetOrder'
<1> SUFFICES ASSUME Layout, SetOrder, PackSet("v6") PROVE SetOrder'
  OBVIOUS
<1> DEFINE T == Take("v6")
<1>1. TypeOK /\ Consumed /\ Building
  BY DEF Layout
<1>2. /\ pc = "v6" /\ pc' = "patch" /\ UNCHANGED n
      /\ idx' = [idx EXCEPT !["v6"] = idx["v6"] + T]
      /\ buf' = [buf EXCEPT !.hi["v6"] = idx["v6"] + T]
      /\ msg_len' = msg_len + SetLen(T, "v6")
  BY PackSetStep
<1>3. /\ T \in Nat
      /\ T > 0 => msg_len + SET_HEADER_LEN + T * RECORD_SIZE_V6 <= MTU
      /\ idx["v6"] + T < n["v6"]
           => msg_len + SET_HEADER_LEN + T * RECORD_SIZE_V6 + RECORD_SIZE_V6 > MTU
  BY <1>1, TakeBounds DEF RecordSize
<1>4. /\ buf.lo["v6"] = idx["v6"] /\ buf.lo["v4"] <= idx["v4"]
      /\ buf.lo["v4"] = idx["v4"] => Bare /\ idx["v6"] < n["v6"]
      /\ buf.lo["v4"] < n["v4"] => buf.lo["v4"] < idx["v4"]
      /\ idx["v4"] < n["v4"] => msg_len + RECORD_SIZE_V4 > MTU
  BY <1>1, <1>2 DEF SetOrder, Building, InMessage
<1>5. buf.lo["v4"] = idx["v4"] => T > 0
  BY <1>1, <1>4, BareTakes
<1>6. /\ idx \in [Family -> Nat] /\ n \in [Family -> Nat] /\ msg_len \in Nat
      /\ buf.lo \in [Family -> Nat] /\ buf'.lo = buf.lo
      /\ \A f \in Family : idx[f] <= n[f]
  BY <1>1, <1>2 DEF TypeOK, Message, Consumed
<1> HIDE DEF T
<1>7. idx'["v6"] = idx["v6"] + T /\ idx'["v4"] = idx["v4"]
  BY <1>2, <1>6
<1>8. T * RECORD_SIZE_V6 \in Nat /\ (T > 0 => T * RECORD_SIZE_V6 >= RECORD_SIZE_V6)
  BY <1>3, EncoderAssumption
<1>9. T > 0 => idx["v4"] = n["v4"]
  BY <1>3, <1>4, <1>6, <1>8, EncoderAssumption
<1>10. /\ T = 0 => msg_len' = msg_len
       /\ T > 0 => msg_len' = msg_len + (SET_HEADER_LEN + T * RECORD_SIZE_V6)
  BY <1>2, <1>3, <1>6 DEF SetLen, RecordSize
<1>11. \E f \in Family : buf'.lo[f] < idx'[f]
  <2>1. CASE buf.lo["v4"] = idx["v4"]
    <3>1. buf'.lo["v6"] < idx'["v6"]
      BY <1>3, <1>4, <1>5, <1>6, <1>7, <2>1
    <3> QED BY <3>1
  <2>2. CASE buf.lo["v4"] # idx["v4"]
    <3>1. buf'.lo["v4"] < idx'["v4"]
      BY <1>4, <1>6, <1>7, <2>2
    <3> QED BY <3>1
  <2> QED BY <2>1, <2>2
<1>12. buf'.lo["v6"] < idx'["v6"] => idx'["v4"] = n'["v4"]
  BY <1>2, <1>3, <1>4, <1>6, <1>7, <1>9
<1>13. Tight("v4")'
  <2> SUFFICES ASSUME idx["v4"] < n["v4"]
               PROVE  msg_len' + RECORD_SIZE_V4
                        + (IF buf'.lo["v4"] = idx'["v4"] THEN SET_HEADER_LEN ELSE 0) > MTU
    BY <1>2, <1>7 DEF Tight, RecordSize
  <2>1. T = 0
    BY <1>3, <1>6, <1>9
  <2> QED BY <1>4, <1>6, <1>10, <2>1, EncoderAssumption
<1>14. Tight("v6")'
  <2> SUFFICES ASSUME idx["v6"] + T < n["v6"]
               PROVE  msg_len' + RECORD_SIZE_V6
                        + (IF buf.lo["v6"] = idx["v6"] + T THEN SET_HEADER_LEN ELSE 0) > MTU
    BY <1>2, <1>6, <1>7 DEF Tight, RecordSize
  <2>1. CASE T = 0
    <3>1. T * RECORD_SIZE_V6 = 0 /\ buf.lo["v6"] = idx["v6"] + T
      BY <1>4, <1>6, <2>1, EncoderAssumption
    <3> QED BY <1>3, <1>6, <1>10, <2>1, <3>1, EncoderAssumption
  <2>2. CASE T > 0
    BY <1>3, <1>4, <1>6, <1>8, <1>10, <2>2, EncoderAssumption
  <2> QED BY <1>3, <2>1, <2>2
<1> QED BY <1>2, <1>11, <1>12, <1>13, <1>14 DEF SetOrder

(* What is known of the finished message becomes a fact about its          *)
(* datagram.                                                               *)
LEMMA OrderedClose ==
  Layout /\ Ordered /\ CloseMessage => (EveryMessageProgresses /\ V4BeforeV6 /\ NoEarlySplit)'
<1> SUFFICES ASSUME Layout, Ordered, CloseMessage
             PROVE  EveryMessageProgresses' /\ V4BeforeV6' /\ NoEarlySplit'
  OBVIOUS
<1> DEFINE dg == [buf EXCEPT !.length = msg_len]
<1>1. TypeOK /\ Building /\ SetOrder /\ EveryMessageProgresses /\ V4BeforeV6 /\ NoEarlySplit
  BY DEF Layout, Ordered
<1>2. pc = "patch" /\ datagrams' = Append(datagrams, dg) /\ n' = n
  BY DEF CloseMessage
<1>3. dg \in Message /\ dg.length = msg_len /\ dg.lo = buf.lo /\ dg.hi = idx
  BY <1>1, <1>2 DEF TypeOK, Message, Building, InMessage
<1> HIDE DEF dg
<1>4. /\ Len(datagrams') = Len(datagrams) + 1 /\ Len(datagrams) \in Nat
      /\ \A i \in 1 .. Len(datagrams) : datagrams'[i] = datagrams[i]
      /\ datagrams'[Len(datagrams) + 1] = dg
  BY <1>1, <1>2, <1>3 DEF TypeOK
<1>5. /\ \E f \in Family : dg.lo[f] < dg.hi[f]
      /\ dg.lo["v6"] < dg.hi["v6"] => dg.hi["v4"] = n["v4"]
      /\ \A f \in Family :
           dg.hi[f] < n[f] /\ (f = "v6" => dg.hi["v4"] = n["v4"])
             => dg.length + RecordSize(f)
                  + (IF dg.lo[f] = dg.hi[f] THEN SET_HEADER_LEN ELSE 0) > MTU
  BY <1>1, <1>2, <1>3 DEF SetOrder, Tight
<1>6. \A i \in 1 .. Len(datagrams') : i \in 1 .. Len(datagrams) \/ i = Len(datagrams) + 1
  BY <1>4
<1>7. EveryMessageProgresses'
  BY <1>1, <1>4, <1>5, <1>6 DEF EveryMessageProgresses
<1>8. V4BeforeV6'
  BY <1>1, <1>2, <1>4, <1>5, <1>6 DEF V4BeforeV6
<1>9. NoEarlySplit'
  <2> SUFFICES ASSUME NEW i \in 1 .. Len(datagrams'), NEW f \in Family,
                      datagrams'[i].hi[f] < n[f],
                      f = "v6" => datagrams'[i].hi["v4"] = n["v4"]
               PROVE  datagrams'[i].length + RecordSize(f)
                        + (IF datagrams'[i].lo[f] = datagrams'[i].hi[f]
                           THEN SET_HEADER_LEN ELSE 0) > MTU
    BY <1>2 DEF NoEarlySplit
  <2>1. CASE i \in 1 .. Len(datagrams)
    BY <1>1, <1>4, <2>1 DEF NoEarlySplit
  <2>2. CASE i = Len(datagrams) + 1
    BY <1>4, <1>5, <2>2
  <2> QED BY <1>6, <2>1, <2>2
<1> QED BY <1>7, <1>8, <1>9

(* Before the first call there is no message and no datagram.              *)
LEMMA OrderedInit == Init => Ordered
  BY DEF Init, Ordered, SetOrder, EveryMessageProgresses, V4BeforeV6, NoEarlySplit

(* Every step preserves what the order of the two sets guarantees.         *)
LEMMA OrderedNext == Layout /\ Ordered /\ [Next]_vars => Ordered'
<1> SUFFICES ASSUME Layout, Ordered, [Next]_vars PROVE Ordered'
  OBVIOUS
<1> USE DEF Ordered
<1>1. ASSUME NEW count \in [Family -> FlowCounts], NEW tmpl \in BOOLEAN,
             NEW start \in SeqStarts, Call(count, tmpl, start)
      PROVE  Ordered'
  BY <1>1 DEF Call, SetOrder, EveryMessageProgresses, V4BeforeV6, NoEarlySplit
<1>2. CASE OpenMessage
  <2>1. Bare' /\ Pending'
    BY <1>2, EncoderAssumption DEF OpenMessage, Bare, Pending
  <2>2. pc' = "v4" /\ UNCHANGED <<datagrams, n>>
    BY <1>2 DEF OpenMessage
  <2> QED BY <2>1, <2>2 DEF SetOrder, EveryMessageProgresses, V4BeforeV6, NoEarlySplit
<1>3. ASSUME NEW f \in Family, PackSet(f)
      PROVE  Ordered'
  <2>1. SetOrder'
    BY <1>3, OrderedPackV4, OrderedPackV6
  <2>2. UNCHANGED <<datagrams, n>>
    BY <1>3, PackSetStep
  <2> QED BY <2>1, <2>2 DEF EveryMessageProgresses, V4BeforeV6, NoEarlySplit
<1>4. CASE CloseMessage
  <2>1. SetOrder'
    BY <1>4 DEF CloseMessage, SetOrder
  <2> QED BY <1>4, <2>1, OrderedClose
<1>5. CASE Return
  BY <1>5 DEF Return, SetOrder, EveryMessageProgresses, V4BeforeV6, NoEarlySplit
<1>6. CASE UNCHANGED vars
  BY <1>6 DEF vars, SetOrder, Tight, Bare, Pending, EveryMessageProgresses, V4BeforeV6, NoEarlySplit
<1> QED BY <1>1, <1>2, <1>3, <1>4, <1>5, <1>6 DEF Next, Step

(* What the order of the two sets guarantees holds throughout.             *)
THEOREM OrderInvariant == Spec => []Ordered
  BY LayoutInit, LayoutNext, OrderedInit, OrderedNext, PTL DEF Spec

(* Every datagram carries at least one record: the compile-time assertion  *)
(* of encode.rs:25-27 does keep the loop from spinning.                    *)
THEOREM EncodeLoopProgresses == Spec => []EveryMessageProgresses
  BY OrderInvariant, PTL DEF Ordered

(* No v6 record leaves before the last v4 record.                          *)
THEOREM V4GoesFirst == Spec => []V4BeforeV6
  BY OrderInvariant, PTL DEF Ordered

(* No datagram is closed while the next record owed would still fit.       *)
THEOREM DatagramsAreFull == Spec => []NoEarlySplit
  BY OrderInvariant, PTL DEF Ordered

-----------------------------------------------------------------------------
(* The sequence numbers, the partition of the batch and the template.      *)

(* A remainder is the one number in 0 .. r-1 that differs from b by a      *)
(* multiple of r.                                                          *)
LEMMA ModUnique ==
  ASSUME NEW r \in Nat \ {0}, NEW k \in Int, NEW m \in 0 .. r-1, NEW b \in Nat,
         b = r * k + m
  PROVE  b % r = m
<1> DEFINE q == b \div r
<1>1. /\ q \in Nat /\ b % r \in 0 .. r-1
      /\ b = r * q + (b % r)
  BY SMT
<1> HIDE DEF q
<1>2. CASE q = k
  BY <1>1, <1>2
<1>3. CASE q > k
  <2>1. q >= k + 1
    BY <1>1, <1>3
  <2>2. r * q >= r * (k + 1)
    BY <1>1, <2>1
  <2>3. r * (k + 1) = r * k + r
    OBVIOUS
  <2>4. r * q \in Int /\ r * k \in Int
    BY <1>1
  <2> QED BY <1>1, <2>2, <2>3, <2>4
<1>4. CASE q < k
  <2>1. k >= q + 1
    BY <1>1, <1>4
  <2>2. r * k >= r * (q + 1)
    BY <1>1, <2>1
  <2>3. r * (q + 1) = r * q + r
    BY <1>1
  <2>4. r * q \in Int /\ r * k \in Int
    BY <1>1
  <2> QED BY <1>1, <2>2, <2>3, <2>4
<1> QED BY <1>1, <1>2, <1>3, <1>4

(* wrapping_add after wrapping_add is one wrapping_add of the sum.         *)
LEMMA ModAdd ==
  ASSUME NEW r \in Nat \ {0}, NEW b \in Nat, NEW c \in Nat
  PROVE  ((b % r) + c) % r = (b + c) % r
<1> DEFINE q1 == b \div r
           x == (b % r) + c
           q2 == x \div r
<1>1. q1 \in Nat /\ b % r \in 0 .. r-1 /\ b = r * q1 + (b % r)
  BY SMT
<1>2. x \in Nat
  BY <1>1
<1> HIDE DEF q1, x
<1>3. q2 \in Nat /\ x % r \in 0 .. r-1 /\ x = r * q2 + (x % r)
  BY <1>2, SMT
<1> HIDE DEF q2
<1>4. r * (q1 + q2) = r * q1 + r * q2 /\ r * q1 \in Int /\ r * q2 \in Int
  BY <1>1, <1>3
<1>5. b + c = r * (q1 + q2) + (x % r)
  BY <1>1, <1>3, <1>4 DEF x
<1>6. q1 + q2 \in Int /\ b + c \in Nat
  BY <1>1, <1>3
<1>7. (b + c) % r = x % r
  <2> DEFINE k == q1 + q2
             m == x % r
             d == b + c
  <2>1. k \in Int /\ m \in 0 .. r-1 /\ d \in Nat /\ d = r * k + m
    BY <1>3, <1>5, <1>6
  <2> HIDE DEF k, m, d
  <2>2. d % r = m
    BY <2>1, ModUnique
  <2> QED BY <2>2 DEF d, m
<1> QED BY <1>7 DEF x

(* How far the finished datagrams reach into the list of family f.         *)
SentUpTo(f) == IF datagrams = <<>> THEN 0 ELSE datagrams[Len(datagrams)].hi[f]

SeqAt(i4, i6) == (seq_start + i4 + i6) % SEQ_MOD

(* What ties the loop's locals to the datagrams already pushed.            *)
Stream ==
  /\ pc = "loop" => /\ \A f \in Family : idx[f] = SentUpTo(f)
                    /\ seq = SeqAt(idx["v4"], idx["v6"])
                    /\ include_template_set <=> (with_template /\ datagrams = <<>>)
  /\ InMessage =>   /\ \A f \in Family : buf.lo[f] = SentUpTo(f)
                    /\ seq = SeqAt(buf.lo["v4"], buf.lo["v6"]) /\ buf.seq = seq
                    /\ ~include_template_set
                    /\ buf.template <=> (with_template /\ datagrams = <<>>)

Streamed == Stream /\ SequenceIsCumulative /\ RecordsPartitioned /\ TemplateFirstOnly

(* Before the first call nothing has been sent.                            *)
LEMMA StreamedInit == Init => Streamed
<1> SUFFICES ASSUME Init PROVE Streamed
  OBVIOUS
<1>1. 0 % SEQ_MOD = 0 /\ 0 + 0 + 0 = 0
  BY EncoderAssumption
<1>2. SequenceIsCumulative
  BY <1>1 DEF Init, SequenceIsCumulative, Zero
<1> QED BY <1>2 DEF Init, Streamed, Stream, InMessage, RecordsPartitioned, TemplateFirstOnly, Zero

(* A new call starts a stream of its own, at the sequence number it is     *)
(* given.                                                                  *)
LEMMA StreamedCall ==
  ASSUME Layout, NEW count \in [Family -> FlowCounts], NEW tmpl \in BOOLEAN,
         NEW start \in SeqStarts, Call(count, tmpl, start)
  PROVE  Streamed'
<1>1. /\ pc' = "loop" /\ datagrams' = <<>> /\ idx' = Zero /\ seq' = start /\ seq_start' = start
      /\ include_template_set' = tmpl /\ with_template' = tmpl
      /\ start \in 0 .. SEQ_MOD-1
  BY EncoderAssumption DEF Call
<1>2. (start + 0 + 0) % SEQ_MOD = start
  <2>1. start + 0 + 0 = start
    BY <1>1, EncoderAssumption
  <2>2. start % SEQ_MOD = start
    <3>1. start = SEQ_MOD * 0 + start /\ start \in Nat /\ SEQ_MOD \in Nat \ {0}
      BY <1>1, EncoderAssumption
    <3> QED BY <1>1, <3>1, ModUnique
  <2> QED BY <2>1, <2>2
<1>3. Stream'
  BY <1>1, <1>2 DEF Stream, InMessage, SentUpTo, SeqAt, Zero
<1> QED BY <1>1, <1>3 DEF Streamed, SequenceIsCumulative, RecordsPartitioned, TemplateFirstOnly

(* Pushing a datagram extends the stream by exactly the records of that    *)
(* datagram.                                                               *)
LEMMA StreamedClose ==
  ASSUME Layout, Streamed, CloseMessage
  PROVE  Streamed'
<1> DEFINE dg == [buf EXCEPT !.length = msg_len]
<1>1. /\ TypeOK /\ Building /\ Stream
      /\ SequenceIsCumulative /\ RecordsPartitioned /\ TemplateFirstOnly
  BY DEF Layout, Streamed
<1>2. /\ pc = "patch" /\ pc' = "loop" /\ datagrams' = Append(datagrams, dg)
      /\ seq' = (seq + records_in_msg) % SEQ_MOD
      /\ UNCHANGED <<n, idx, include_template_set, seq_start, with_template>>
  BY DEF CloseMessage, AdvanceSeq
<1>3. /\ dg \in Message /\ dg.seq = buf.seq /\ dg.template = buf.template
      /\ dg.lo = buf.lo /\ dg.hi = idx
  BY <1>1, <1>2 DEF TypeOK, Message, Building, InMessage
<1> HIDE DEF dg
<1>4. /\ Len(datagrams') = Len(datagrams) + 1 /\ Len(datagrams) \in Nat
      /\ \A i \in 1 .. Len(datagrams) : datagrams'[i] = datagrams[i]
      /\ datagrams'[Len(datagrams) + 1] = dg
      /\ datagrams' # <<>>
      /\ datagrams = <<>> <=> Len(datagrams) = 0
  BY <1>1, <1>2, <1>3 DEF TypeOK
<1>5. \A i \in 1 .. Len(datagrams') : i \in 1 .. Len(datagrams) \/ i = Len(datagrams) + 1
  BY <1>4
<1>6. /\ \A f \in Family : dg.lo[f] = SentUpTo(f) /\ dg.lo[f] <= dg.hi[f]
      /\ dg.seq = SeqAt(dg.lo["v4"], dg.lo["v6"])
      /\ dg.template <=> (with_template /\ datagrams = <<>>)
      /\ ~include_template_set
      /\ seq = SeqAt(buf.lo["v4"], buf.lo["v6"])
      /\ records_in_msg = (idx["v4"] - buf.lo["v4"]) + (idx["v6"] - buf.lo["v6"])
  BY <1>1, <1>2, <1>3 DEF Stream, Building, InMessage
<1>7. seq' = SeqAt(idx["v4"], idx["v6"])
  <2> DEFINE b == seq_start + buf.lo["v4"] + buf.lo["v6"]
  <2>1. /\ idx["v4"] \in Nat /\ idx["v6"] \in Nat /\ seq_start \in Nat
        /\ buf.lo["v4"] \in Nat /\ buf.lo["v6"] \in Nat
        /\ records_in_msg \in Nat /\ SEQ_MOD \in Nat \ {0}
    BY <1>1, EncoderAssumption DEF TypeOK, Message
  <2>2. b \in Nat /\ b + records_in_msg = seq_start + idx["v4"] + idx["v6"]
    <3>1. records_in_msg = (idx["v4"] - buf.lo["v4"]) + (idx["v6"] - buf.lo["v6"])
      BY <1>6
    <3> QED BY <2>1, <3>1
  <2>3. seq = b % SEQ_MOD
    BY <1>6 DEF SeqAt
  <2> HIDE DEF b
  <2>4. ((b % SEQ_MOD) + records_in_msg) % SEQ_MOD = (b + records_in_msg) % SEQ_MOD
    BY <2>1, <2>2, ModAdd
  <2> QED BY <1>2, <2>2, <2>3, <2>4 DEF SeqAt
<1>8. Stream'
  <2>1. \A f \in Family : SentUpTo(f)' = idx[f]
    BY <1>3, <1>4 DEF SentUpTo
  <2>2. ~include_template_set' /\ datagrams' # <<>>
    BY <1>2, <1>4, <1>6
  <2> QED BY <1>2, <1>7, <2>1, <2>2 DEF Stream, InMessage, SeqAt
<1>9. SequenceIsCumulative'
  BY <1>1, <1>2, <1>4, <1>5, <1>6 DEF SequenceIsCumulative, SeqAt
<1>10. RecordsPartitioned'
  <2> SUFFICES ASSUME NEW f \in Family, NEW i \in 1 .. Len(datagrams')
               PROVE  /\ datagrams'[i].lo[f] <= datagrams'[i].hi[f]
                      /\ datagrams'[i].lo[f] = IF i = 1 THEN 0 ELSE datagrams'[i-1].hi[f]
    BY <1>2 DEF RecordsPartitioned
  <2>1. CASE i \in 1 .. Len(datagrams)
    <3>1. i # 1 => i-1 \in 1 .. Len(datagrams)
      BY <1>4, <2>1
    <3>2. datagrams'[i] = datagrams[i] /\ (i # 1 => datagrams'[i-1] = datagrams[i-1])
      BY <1>4, <2>1, <3>1
    <3> QED BY <1>1, <2>1, <3>2 DEF RecordsPartitioned
  <2>2. CASE i = Len(datagrams) + 1
    <3>1. i # 1 => i-1 \in 1 .. Len(datagrams) /\ i-1 = Len(datagrams)
      BY <1>4, <2>2
    <3>2. datagrams'[i] = dg
      BY <1>4, <2>2
    <3>3. dg.lo[f] = IF i = 1 THEN 0 ELSE datagrams'[i-1].hi[f]
      BY <1>4, <1>6, <2>2, <3>1 DEF SentUpTo
    <3> QED BY <1>6, <3>2, <3>3
  <2> QED BY <1>5, <2>1, <2>2
<1>11. TemplateFirstOnly'
  BY <1>1, <1>2, <1>4, <1>5, <1>6 DEF TemplateFirstOnly
<1> QED BY <1>8, <1>9, <1>10, <1>11 DEF Streamed

(* Every step keeps the locals in line with the datagrams already pushed.  *)
LEMMA StreamedNext == Layout /\ Streamed /\ [Next]_vars => Streamed'
<1> SUFFICES ASSUME Layout, Streamed, [Next]_vars PROVE Streamed'
  OBVIOUS
<1>0. /\ TypeOK /\ Consumed /\ Stream
      /\ SequenceIsCumulative /\ RecordsPartitioned /\ TemplateFirstOnly
  BY DEF Layout, Streamed
<1> USE DEF Streamed
<1>1. ASSUME NEW count \in [Family -> FlowCounts], NEW tmpl \in BOOLEAN,
             NEW start \in SeqStarts, Call(count, tmpl, start)
      PROVE  Streamed'
  BY <1>1, StreamedCall
<1>2. CASE OpenMessage
  <2>1. /\ pc = "loop" /\ pc' = "v4"
        /\ UNCHANGED <<n, idx, seq, datagrams, seq_start, with_template>>
        /\ buf'.lo = idx /\ buf'.seq = seq /\ buf'.template = include_template_set
        /\ ~include_template_set'
    BY <1>2 DEF OpenMessage, ClearInclude
  <2>2. Stream'
    BY <1>0, <2>1 DEF Stream, InMessage, SentUpTo, SeqAt
  <2> QED BY <1>0, <2>1, <2>2 DEF SequenceIsCumulative, RecordsPartitioned, TemplateFirstOnly
<1>3. ASSUME NEW f \in Family, PackSet(f)
      PROVE  Streamed'
  <2>1. /\ pc = f /\ pc' \in {"v6", "patch"}
        /\ UNCHANGED <<n, include_template_set, seq, datagrams, seq_start, with_template>>
        /\ buf' = [buf EXCEPT !.hi[f] = idx[f] + Take(f)]
    BY <1>3, PackSetStep
  <2>2. buf'.lo = buf.lo /\ buf'.seq = buf.seq /\ buf'.template = buf.template
    BY <1>0, <2>1 DEF TypeOK, Message
  <2>3. Stream'
    BY <1>0, <2>1, <2>2 DEF Stream, InMessage, SentUpTo, SeqAt
  <2> QED BY <1>0, <2>1, <2>3 DEF SequenceIsCumulative, RecordsPartitioned, TemplateFirstOnly
<1>4. CASE CloseMessage
  BY <1>4, StreamedClose
<1>5. CASE Return
  <2>1. /\ pc = "loop" /\ pc' = "idle" /\ ~Pending
        /\ UNCHANGED <<n, idx, seq, datagrams, seq_start, with_template>>
    BY <1>5 DEF Return
  <2>2. \A f \in Family : idx[f] = n[f]
    BY <1>0, <2>1 DEF Pending, TypeOK, Consumed
  <2>3. seq = SeqAt(n["v4"], n["v6"]) /\ \A f \in Family : n[f] = SentUpTo(f)
    BY <1>0, <2>1, <2>2 DEF Stream
  <2>4. Stream'
    BY <2>1 DEF Stream, InMessage
  <2>5. SequenceIsCumulative'
    BY <1>0, <2>1, <2>3 DEF SequenceIsCumulative, SeqAt
  <2>6. RecordsPartitioned'
    BY <1>0, <2>1, <2>3 DEF RecordsPartitioned, SentUpTo
  <2> QED BY <1>0, <2>1, <2>4, <2>5, <2>6 DEF TemplateFirstOnly
<1>6. CASE UNCHANGED vars
  BY <1>0, <1>6 DEF vars, Stream, InMessage, SentUpTo, SeqAt, SequenceIsCumulative,
                    RecordsPartitioned, TemplateFirstOnly
<1> QED BY <1>1, <1>2, <1>3, <1>4, <1>5, <1>6 DEF Next, Step

(* The loop's locals are always in line with the datagrams already pushed. *)
THEOREM StreamInvariant == Spec => []Streamed
  BY LayoutInit, LayoutNext, StreamedInit, StreamedNext, PTL DEF Spec

(* Sequence numbers count the records of all earlier datagrams of the call *)
(* modulo the sequence space, and the returned one counts them all.        *)
THEOREM SequenceNumbersCumulative == Spec => []SequenceIsCumulative
  BY StreamInvariant, PTL DEF Streamed

(* Each record of the batch is in exactly one datagram, in order.          *)
THEOREM NoRecordLostOrRepeated == Spec => []RecordsPartitioned
  BY StreamInvariant, PTL DEF Streamed

(* The template set is in the first datagram alone, and only on request.   *)
THEOREM TemplateOnlyFirst == Spec => []TemplateFirstOnly
  BY StreamInvariant, PTL DEF Streamed

-----------------------------------------------------------------------------
(* The contract with the exporter.                                         *)

(* What the loop guarantees adds up to what the caller builds on.          *)
LEMMA ContractKept ==
  ASSUME TypeOK, SequenceIsCumulative, RecordsPartitioned, EveryMessageProgresses, TemplateFirstOnly
  PROVE  PackingAsPromised
<1> SUFFICES ASSUME pc = "idle"
             PROVE  /\ seq = (seq_start + Total(n)) % SEQ_MOD
                    /\ IF Total(n) = 0 THEN datagrams = <<>>
                       ELSE /\ P!IsCut(ReturnedCut, Total(n))
                            /\ Returned = P!Packed(ReturnedCut, seq_start, with_template)
  BY DEF PackingAsPromised
<1> DEFINE k == Len(datagrams)
<1>1. /\ datagrams \in Seq(Message) /\ k \in Nat /\ SEQ_MOD \in Nat \ {0} /\ seq_start \in Nat
      /\ n["v4"] \in Nat /\ n["v6"] \in Nat
  BY EncoderAssumption DEF TypeOK
<1>2. \A i \in 1 .. k : /\ datagrams[i].lo["v4"] \in Nat /\ datagrams[i].lo["v6"] \in Nat
                        /\ datagrams[i].hi["v4"] \in Nat /\ datagrams[i].hi["v6"] \in Nat
  <2>1. \A d \in Message : /\ d.lo["v4"] \in Nat /\ d.lo["v6"] \in Nat
                           /\ d.hi["v4"] \in Nat /\ d.hi["v6"] \in Nat
    BY DEF Message
  <2> QED BY <1>1, <2>1
<1>3. \A i \in 1 .. k : Total(datagrams[i].lo) < Total(datagrams[i].hi)
  <2> SUFFICES ASSUME NEW i \in 1 .. k PROVE Total(datagrams[i].lo) < Total(datagrams[i].hi)
    OBVIOUS
  <2>1. /\ datagrams[i].lo["v4"] <= datagrams[i].hi["v4"]
        /\ datagrams[i].lo["v6"] <= datagrams[i].hi["v6"]
    BY DEF RecordsPartitioned
  <2>2. \/ datagrams[i].lo["v4"] < datagrams[i].hi["v4"]
        \/ datagrams[i].lo["v6"] < datagrams[i].hi["v6"]
    BY DEF EveryMessageProgresses
  <2>3. /\ datagrams[i].lo["v4"] \in Nat /\ datagrams[i].lo["v6"] \in Nat
        /\ datagrams[i].hi["v4"] \in Nat /\ datagrams[i].hi["v6"] \in Nat
    BY <1>2
  <2>4. \A a, b, c, d \in Nat : a <= c /\ b <= d /\ (a < c \/ b < d) => a + b < c + d
    OBVIOUS
  <2> QED BY <2>1, <2>2, <2>3, <2>4 DEF Total
<1>4. \A i \in 1 .. k :
        Total(datagrams[i].lo) = IF i = 1 THEN 0 ELSE Total(datagrams[i-1].hi)
  <2> SUFFICES ASSUME NEW i \in 1 .. k
               PROVE  Total(datagrams[i].lo) = IF i = 1 THEN 0 ELSE Total(datagrams[i-1].hi)
    OBVIOUS
  <2>1. \A f \in Family : datagrams[i].lo[f] = IF i = 1 THEN 0 ELSE datagrams[i-1].hi[f]
    BY DEF RecordsPartitioned
  <2> QED BY <2>1 DEF Total
<1>5. seq = (seq_start + Total(n)) % SEQ_MOD
  <2>1. seq_start + n["v4"] + n["v6"] = seq_start + Total(n)
    BY <1>1 DEF Total
  <2> QED BY <2>1 DEF SequenceIsCumulative
<1>6. CASE datagrams = <<>>
  <2>1. Total(n) = 0
    BY <1>6 DEF RecordsPartitioned, Total
  <2> QED BY <1>5, <1>6, <2>1
<1>7. CASE datagrams # <<>>
  <2>1. k \in 1 .. k /\ k \in Nat \ {0}
    BY <1>1, <1>7
  <2>2. Total(n) = Total(datagrams[k].hi)
    BY <1>7 DEF RecordsPartitioned, Total
  <2>3. Total(datagrams[k].lo) \in Nat /\ Total(n) \in Nat /\ Total(n) # 0
    BY <1>1, <1>2, <1>3, <2>1, <2>2 DEF Total
  <2>4. P!IsCut(ReturnedCut, Total(n))
    <3>1. /\ ReturnedCut = [i \in 1 .. k |-> Total(datagrams[i].hi)]
          /\ Len(ReturnedCut) = k /\ ReturnedCut # <<>>
      BY <1>1, <2>1 DEF ReturnedCut
    <3>2. ASSUME NEW i \in 1 .. k
          PROVE  ReturnedCut[i] > (IF i = 1 THEN 0 ELSE ReturnedCut[i-1])
      <4>1. i # 1 => i-1 \in 1 .. k
        BY <1>1
      <4>2. Total(datagrams[i].lo) = IF i = 1 THEN 0 ELSE ReturnedCut[i-1]
        BY <1>4, <3>1, <4>1
      <4>3. Total(datagrams[i].lo) < ReturnedCut[i]
        BY <1>3, <3>1
      <4>4. Total(datagrams[i].lo) \in Nat /\ ReturnedCut[i] \in Nat
        <5>1. Total(datagrams[i].lo) \in Nat
          BY <1>2 DEF Total
        <5>2. Total(datagrams[i].hi) \in Nat
          BY <1>2 DEF Total
        <5> QED BY <3>1, <5>1, <5>2
      <4> QED BY <4>2, <4>3, <4>4
    <3> QED BY <2>1, <2>2, <3>1, <3>2 DEF P!IsCut
  <2>5. Returned = P!Packed(ReturnedCut, seq_start, with_template)
    <3>1. /\ ReturnedCut = [i \in 1 .. k |-> Total(datagrams[i].hi)]
          /\ Len(ReturnedCut) = k
      BY <1>1, <2>1 DEF ReturnedCut
    <3>2. ASSUME NEW i \in 1 .. k
          PROVE  /\ Total(datagrams[i].lo) = IF i = 1 THEN 0 ELSE ReturnedCut[i-1]
                 /\ datagrams[i].seq = (seq_start + Total(datagrams[i].lo)) % SEQ_MOD
                 /\ datagrams[i].template = (with_template /\ i = 1)
      <4>1. i # 1 => i-1 \in 1 .. k
        BY <1>1
      <4>2. seq_start + datagrams[i].lo["v4"] + datagrams[i].lo["v6"]
              = seq_start + Total(datagrams[i].lo)
        BY <1>1, <1>2 DEF Total
      <4>3. datagrams[i].seq = (seq_start + Total(datagrams[i].lo)) % SEQ_MOD
        BY <4>2 DEF SequenceIsCumulative
      <4>4. datagrams[i].template \in BOOLEAN
        <5>1. \A d \in Message : d.template \in BOOLEAN
          BY DEF Message
        <5> QED BY <1>1, <5>1
      <4>5. datagrams[i].template <=> (i = 1 /\ with_template)
        BY DEF TemplateFirstOnly
      <4>6. datagrams[i].template = (with_template /\ i = 1)
        BY <4>4, <4>5
      <4>7. Total(datagrams[i].lo) = IF i = 1 THEN 0 ELSE ReturnedCut[i-1]
        BY <1>4, <3>1, <4>1
      <4> QED BY <4>3, <4>6, <4>7
    <3>3. ASSUME NEW i \in 1 .. k
          PROVE  AsSeen(datagrams[i]) =
                   LET lo == IF i = 1 THEN 0 ELSE ReturnedCut[i-1]
                   IN  [seq |-> (seq_start + lo) % SEQ_MOD, lo |-> lo, hi |-> ReturnedCut[i],
                        template |-> with_template /\ i = 1]
      BY <3>1, <3>2 DEF AsSeen
    <3> QED BY <3>1, <3>3 DEF Returned, P!Packed
  <2> QED BY <1>5, <2>3, <2>4, <2>5
<1> QED BY <1>6, <1>7

(* build_datagrams keeps the contract that Exporter relies on.             *)
THEOREM KeepsPackingContract == Spec => []PackingAsPromised
<1>1. /\ TypeOK /\ SequenceIsCumulative /\ RecordsPartitioned
      /\ EveryMessageProgresses /\ TemplateFirstOnly
      => PackingAsPromised
  BY ContractKept
<1> QED BY <1>1, TypeCorrect, SequenceNumbersCumulative, NoRecordLostOrRepeated,
           EncodeLoopProgresses, TemplateOnlyFirst, PTL

-----------------------------------------------------------------------------
(* Induction, on sets of numbers.                                          *)

(* A set of naturals has a least element.                                  *)
LEMMA LeastNumber ==
  ASSUME NEW T \in SUBSET Nat, T # {}
  PROVE  \E m \in T : \A k \in T : m <= k
<1> DEFINE R == OpToRel(<, Nat)
<1>1. IsWellFoundedOn(R, Nat)
  BY NatLessThanWellFounded
<1>2. \A x, y \in Nat : x < y => <<x, y>> \in R
  BY DEF OpToRel
<1> HIDE DEF R
<1>3. PICK m \in T : \A k \in T : <<k, m>> \notin R
  BY <1>1, WFMin
<1>4. \A k \in T : m <= k
  <2> TAKE k \in T
  <2>1. m \in Nat /\ k \in Nat
    OBVIOUS
  <2>2. ~(k < m)
    BY <2>1, <1>2, <1>3
  <2> QED BY <2>1, <2>2
<1> QED BY <1>4

(* A set that holds 0 and the successor of each of its numbers holds all.  *)
LEMMA Induction ==
  ASSUME NEW S, 0 \in S, \A k \in Nat : k \in S => k + 1 \in S
  PROVE  Nat \subseteq S
<1> SUFFICES ASSUME Nat \ S # {} PROVE FALSE
  OBVIOUS
<1>1. PICK m \in Nat \ S : \A k \in Nat \ S : m <= k
  BY LeastNumber
<1>2. m # 0 /\ m - 1 \in Nat /\ m - 1 \in S
  BY <1>1
<1> QED BY <1>2

-----------------------------------------------------------------------------
(* No other cut of the batch needs fewer datagrams.                        *)

(* How many of each family are among the first k records, v4 before v6.    *)
AmongFirst(k) ==
  [f \in Family |-> IF f = "v4" THEN Least(k, n["v4"]) ELSE SatSub(k, n["v4"])]

(* What the i-th datagram of the cut c holds, and whether all of them keep *)
(* to the MTU.                                                             *)
CutAt(c, i) == IF i = 0 THEN 0 ELSE c[i]
Stretch(c, i) ==
  [lo |-> AmongFirst(CutAt(c, i-1)), hi |-> AmongFirst(c[i]),
   template |-> with_template /\ i = 1]
Feasible(c) == P!IsCut(c, Total(n)) /\ \A i \in 1 .. Len(c) : Bytes(Stretch(c, i)) <= MTU

(* Greedy is optimal: of all the ways to cut the batch, in its order, into *)
(* datagrams that keep to the MTU, build_datagrams returns one with the    *)
(* fewest (encode.rs:54-96).                                               *)
AsFewAsPossible ==
  pc = "idle" /\ Total(n) # 0 =>
    /\ Feasible(ReturnedCut)
    /\ \A c \in Seq(Nat) : Feasible(c) => Len(datagrams) <= Len(c)

(* A cut ends at count and not before.                                     *)
LEMMA CutsIncrease ==
  ASSUME NEW count \in Nat, NEW c \in Seq(Nat), P!IsCut(c, count)
  PROVE  \A i \in 1 .. Len(c) : c[i] <= count /\ (i < Len(c) => c[i] < count)
<1> DEFINE m == Len(c)
           S == {j \in Nat : j < m => c[m - j] <= count}
<1>1. m \in Nat \ {0} /\ c[m] = count /\ \A i \in 1 .. m : c[i] \in Nat
  BY DEF P!IsCut
<1>2. \A i \in 1 .. m : i # 1 => c[i] > c[i-1]
  BY DEF P!IsCut
<1> HIDE DEF m
<1>3. 0 \in S
  BY <1>1
<1>4. ASSUME NEW j \in Nat, j \in S PROVE j + 1 \in S
  <2> SUFFICES ASSUME j + 1 < m PROVE c[m - (j + 1)] <= count
    OBVIOUS
  <2>1. /\ m - j \in 1 .. m /\ m - j # 1 /\ m - (j + 1) \in 1 .. m /\ (m - j) - 1 = m - (j + 1)
        /\ c[m - j] <= count
    BY <1>1, <1>4
  <2> QED BY <1>1, <1>2, <2>1
<1>5. Nat \subseteq S
  <2> HIDE DEF S
  <2> QED BY <1>3, <1>4, Induction
<1>6. \A i \in 1 .. m : c[i] <= count
  <2> TAKE i \in 1 .. m
  <2>1. m - i \in Nat /\ m - i < m /\ m - (m - i) = i
    BY <1>1
  <2> QED BY <1>5, <2>1
<1>7. \A i \in 1 .. m : i < m => c[i] < count
  <2> SUFFICES ASSUME NEW i \in 1 .. m, i < m PROVE c[i] < count
    OBVIOUS
  <2>1. i + 1 \in 1 .. m /\ i + 1 # 1 /\ (i + 1) - 1 = i
    BY <1>1
  <2>2. c[i + 1] > c[i]
    BY <1>2, <2>1
  <2>3. c[i + 1] <= count /\ c[i + 1] \in Nat /\ c[i] \in Nat
    BY <1>1, <1>6, <2>1
  <2> QED BY <2>2, <2>3
<1> QED BY <1>6, <1>7 DEF m

(* The longer stretch holds at least as many records of each family.       *)
LEMMA AmongFirstMono ==
  ASSUME TypeOK, NEW a \in Nat, NEW b \in Nat, a <= b, NEW f \in Family
  PROVE  AmongFirst(a)[f] \in Nat /\ AmongFirst(b)[f] \in Nat /\ AmongFirst(a)[f] <= AmongFirst(b)[f]
<1>1. n["v4"] \in Nat
  BY DEF TypeOK
<1> QED BY <1>1 DEF AmongFirst, Least, SatSub

(* A set with more records is longer.                                      *)
LEMMA SetBytesMono ==
  ASSUME NEW d, NEW e, NEW f \in Family,
         d.lo[f] \in Nat, d.hi[f] \in Nat, e.lo[f] \in Nat, e.hi[f] \in Nat,
         e.lo[f] <= d.lo[f], d.lo[f] <= d.hi[f], d.hi[f] <= e.hi[f]
  PROVE  SetBytes(d, f) \in Nat /\ SetBytes(e, f) \in Nat /\ SetBytes(d, f) <= SetBytes(e, f)
<1> DEFINE x == d.hi[f] - d.lo[f]
           y == e.hi[f] - e.lo[f]
           s == RecordSize(f)
<1>1. x \in Nat /\ y \in Nat /\ x <= y
  OBVIOUS
<1>2. (d.lo[f] < d.hi[f] <=> x # 0) /\ (e.lo[f] < e.hi[f] <=> y # 0)
  OBVIOUS
<1>3. s \in Nat /\ SET_HEADER_LEN \in Nat
  BY RecordSizeType, EncoderAssumption
<1>4. SetBytes(d, f) = (IF x # 0 THEN SET_HEADER_LEN ELSE 0) + x * s
  BY <1>2 DEF SetBytes
<1>5. SetBytes(e, f) = (IF y # 0 THEN SET_HEADER_LEN ELSE 0) + y * s
  BY <1>2 DEF SetBytes
<1> HIDE DEF x, y, s
<1>6. PICK z \in Nat : y = x + z
  <2>1. y - x \in Nat /\ y = x + (y - x)
    BY <1>1
  <2> QED BY <2>1
<1>7. x * s \in Nat /\ z * s \in Nat /\ y * s = x * s + z * s
  BY <1>1, <1>3, <1>6
<1>8. x # 0 => y # 0
  BY <1>1
<1> QED BY <1>3, <1>4, <1>5, <1>7, <1>8

(* One record more: its size, and a set header if it is the first.         *)
LEMMA SetBytesOneMore ==
  ASSUME NEW d, NEW e, NEW f \in Family, d.lo[f] \in Nat, d.hi[f] \in Nat, d.lo[f] <= d.hi[f],
         e.lo[f] = d.lo[f], e.hi[f] = d.hi[f] + 1
  PROVE  SetBytes(e, f)
           = SetBytes(d, f) + RecordSize(f) + (IF d.lo[f] = d.hi[f] THEN SET_HEADER_LEN ELSE 0)
<1> DEFINE x == d.hi[f] - d.lo[f]
           s == RecordSize(f)
<1>1. x \in Nat /\ e.hi[f] - e.lo[f] = x + 1 /\ e.lo[f] < e.hi[f]
  OBVIOUS
<1>2. (d.lo[f] < d.hi[f] <=> x # 0) /\ (d.lo[f] = d.hi[f] <=> x = 0)
  OBVIOUS
<1>3. s \in Nat /\ SET_HEADER_LEN \in Nat
  BY RecordSizeType, EncoderAssumption
<1>4. SetBytes(d, f) = (IF x # 0 THEN SET_HEADER_LEN ELSE 0) + x * s
  BY <1>2 DEF SetBytes
<1>5. SetBytes(e, f) = SET_HEADER_LEN + (x + 1) * s
  BY <1>1 DEF SetBytes
<1>6. (d.lo[f] = d.hi[f]) <=> x = 0
  BY <1>2
<1> HIDE DEF x
<1>7. (IF d.lo[f] = d.hi[f] THEN SET_HEADER_LEN ELSE 0) = IF x = 0 THEN SET_HEADER_LEN ELSE 0
  BY <1>6
<1>8. SetBytes(e, f) = SetBytes(d, f) + s + (IF x = 0 THEN SET_HEADER_LEN ELSE 0)
  <2> HIDE DEF s
  <2>1. x * s \in Nat /\ (x + 1) * s = x * s + s
    BY <1>1, <1>3
  <2> QED BY <1>3, <1>4, <1>5, <2>1
<1> QED BY <1>7, <1>8

(* A message with more records is longer.                                  *)
LEMMA BytesMono ==
  ASSUME NEW d, NEW e, d.template = e.template,
         \A f \in Family : /\ d.lo[f] \in Nat /\ d.hi[f] \in Nat /\ e.lo[f] \in Nat /\ e.hi[f] \in Nat
                           /\ e.lo[f] <= d.lo[f] /\ d.lo[f] <= d.hi[f] /\ d.hi[f] <= e.hi[f]
  PROVE  Bytes(d) \in Nat /\ Bytes(e) \in Nat /\ Bytes(d) <= Bytes(e)
<1>1. \A f \in Family :
        SetBytes(d, f) \in Nat /\ SetBytes(e, f) \in Nat /\ SetBytes(d, f) <= SetBytes(e, f)
  BY SetBytesMono
<1> DEFINE h == MSG_HEADER_LEN + (IF d.template THEN TEMPLATE_SET_LEN ELSE 0)
<1>2. h \in Nat
  BY EncoderAssumption
<1>3. Bytes(d) = h + SetBytes(d, "v4") + SetBytes(d, "v6")
  BY DEF Bytes
<1>4. Bytes(e) = h + SetBytes(e, "v4") + SetBytes(e, "v6")
  BY DEF Bytes
<1> HIDE DEF h
<1> QED BY <1>1, <1>2, <1>3, <1>4

(* Records leave in the order of the list: no v6 record before the last v4 *)
(* record, whatever part of the batch one looks at.                        *)
InListOrder(hi) == hi["v4"] <= n["v4"] /\ hi["v6"] <= n["v6"] /\ (hi["v6"] > 0 => hi["v4"] = n["v4"])
Reached == InListOrder(idx) /\ \A i \in 1 .. Len(datagrams) : InListOrder(datagrams[i].hi)

(* Before the first call nothing has left.                                 *)
LEMMA ReachedInit == Init => Reached
  BY DEF Init, Reached, InListOrder, Zero

(* Every step keeps the order of the list.                                 *)
LEMMA ReachedNext == Layout /\ Ordered /\ Reached /\ [Next]_vars => Reached'
<1> SUFFICES ASSUME Layout, Ordered, Reached, [Next]_vars PROVE Reached'
  OBVIOUS
<1>0. TypeOK /\ Consumed /\ Building /\ SetOrder
  BY DEF Layout, Ordered
<1>1. ASSUME NEW count \in [Family -> FlowCounts], NEW tmpl \in BOOLEAN,
             NEW start \in SeqStarts, Call(count, tmpl, start)
      PROVE  Reached'
  <2>1. n' = count /\ idx' = Zero /\ datagrams' = <<>>
    BY <1>1 DEF Call
  <2>2. count["v4"] \in Nat /\ count["v6"] \in Nat
    BY EncoderAssumption
  <2> QED BY <2>1, <2>2 DEF Reached, InListOrder, Zero
<1>2. CASE OpenMessage
  BY <1>2 DEF OpenMessage, Reached, InListOrder
<1>3. ASSUME NEW f \in Family, PackSet(f) PROVE Reached'
  <2>1. /\ pc = f /\ idx' = [idx EXCEPT ![f] = idx[f] + Take(f)] /\ UNCHANGED <<n, datagrams>>
    BY <1>3, PackSetStep
  <2>2. Take(f) \in Nat /\ idx[f] + Take(f) <= n[f]
    BY <1>0, TakeBounds
  <2>3. \A g \in Family : idx[g] \in Nat /\ n[g] \in Nat /\ idx[g] <= n[g]
    BY <1>0 DEF TypeOK, Consumed
  <2>4. \A g \in Family : idx'[g] = IF g = f THEN idx[f] + Take(f) ELSE idx[g]
    BY <1>0, <2>1 DEF TypeOK
  <2>5. CASE f = "v4"
    BY <2>1, <2>2, <2>3, <2>4, <2>5 DEF Reached, InListOrder
  <2>6. CASE f = "v6"
    <3>1. Layout' /\ Ordered' /\ pc' = "patch"
      BY <1>3, <2>6, LayoutNext, OrderedNext, PackSetStep DEF Next, Step
    <3>2. /\ buf'.lo["v6"] < idx'["v6"] => idx'["v4"] = n'["v4"]
      BY <3>1 DEF Ordered, SetOrder
    <3>3. buf.lo["v6"] = idx["v6"]
      BY <1>0, <2>1, <2>6 DEF Building, InMessage
    <3>4. buf'.lo = buf.lo
      BY <1>0, <1>3, PackSetStep DEF TypeOK, Message
    <3>5. idx'["v6"] > idx["v6"] => idx'["v4"] = n["v4"]
      BY <2>1, <2>3, <3>2, <3>3, <3>4
    <3> QED BY <2>1, <2>2, <2>3, <2>4, <2>6, <3>5 DEF Reached, InListOrder
  <2> QED BY <2>5, <2>6
<1>4. CASE CloseMessage
  <2> DEFINE dg == [buf EXCEPT !.length = msg_len]
  <2>1. datagrams' = Append(datagrams, dg) /\ UNCHANGED <<n, idx>>
    BY <1>4 DEF CloseMessage
  <2>2. dg \in Message /\ dg.hi = idx
    BY <1>0, <1>4 DEF CloseMessage, TypeOK, Message, Building, InMessage
  <2> HIDE DEF dg
  <2>3. /\ Len(datagrams') = Len(datagrams) + 1 /\ Len(datagrams) \in Nat
        /\ \A i \in 1 .. Len(datagrams) : datagrams'[i] = datagrams[i]
        /\ datagrams'[Len(datagrams) + 1] = dg
    BY <1>0, <2>1, <2>2 DEF TypeOK
  <2>4. \A i \in 1 .. Len(datagrams') : i \in 1 .. Len(datagrams) \/ i = Len(datagrams) + 1
    BY <2>3
  <2> QED BY <2>1, <2>2, <2>3, <2>4 DEF Reached, InListOrder
<1>5. CASE Return
  BY <1>5 DEF Return, Reached, InListOrder
<1>6. CASE UNCHANGED vars
  BY <1>6 DEF vars, Reached, InListOrder
<1> QED BY <1>1, <1>2, <1>3, <1>4, <1>5, <1>6 DEF Next, Step

(* What is known when a call has returned.                                 *)
Settled ==
  /\ Layout /\ Ordered /\ Streamed /\ Reached /\ PackingAsPromised
  /\ pc = "idle" /\ Total(n) # 0

(* A position in the list splits by family as the datagram that ends there *)
(* does.                                                                   *)
LEMMA AmongFirstIs ==
  ASSUME TypeOK, NEW hi \in [Family -> Nat], InListOrder(hi)
  PROVE  AmongFirst(Total(hi)) = hi
<1>1. n["v4"] \in Nat /\ hi["v4"] \in Nat /\ hi["v6"] \in Nat
  BY DEF TypeOK
<1>2. AmongFirst(Total(hi))["v4"] = hi["v4"]
  BY <1>1 DEF AmongFirst, Total, InListOrder, Least
<1>3. AmongFirst(Total(hi))["v6"] = hi["v6"]
  BY <1>1 DEF AmongFirst, Total, InListOrder, SatSub
<1> QED BY <1>2, <1>3 DEF AmongFirst

(* The datagrams returned are the stretches of the returned cut.           *)
LEMMA StretchIsDatagram ==
  ASSUME Settled, NEW i \in 1 .. Len(datagrams)
  PROVE  /\ datagrams[i] \in Message
         /\ datagrams[i].lo = AmongFirst(CutAt(ReturnedCut, i-1))
         /\ datagrams[i].hi = AmongFirst(ReturnedCut[i])
         /\ datagrams[i].template = (with_template /\ i = 1)
         /\ Bytes(Stretch(ReturnedCut, i)) = datagrams[i].length
<1>1. /\ TypeOK /\ datagrams \in Seq(Message) /\ Len(datagrams) \in Nat
      /\ RecordsPartitioned /\ TemplateFirstOnly /\ LengthHonest
      /\ \A j \in 1 .. Len(datagrams) : InListOrder(datagrams[j].hi)
  BY DEF Settled, Layout, TypeOK, Streamed, Reached
<1>2. \A d \in Message : /\ d.lo \in [Family -> Nat] /\ d.hi \in [Family -> Nat]
                         /\ d.template \in BOOLEAN
  BY DEF Message
<1>3. \A j \in 1 .. Len(datagrams) :
        /\ datagrams[j].hi \in [Family -> Nat] /\ datagrams[j].lo \in [Family -> Nat]
        /\ datagrams[j].template \in BOOLEAN
  BY <1>1, <1>2
<1>4. \A j \in 1 .. Len(datagrams) :
        ReturnedCut[j] = Total(datagrams[j].hi) /\ AmongFirst(ReturnedCut[j]) = datagrams[j].hi
  BY <1>1, <1>3, AmongFirstIs DEF ReturnedCut
<1>5. datagrams[i].lo = AmongFirst(CutAt(ReturnedCut, i-1))
  <2>1. \A f \in Family : datagrams[i].lo[f] = IF i = 1 THEN 0 ELSE datagrams[i-1].hi[f]
    BY <1>1 DEF RecordsPartitioned
  <2>2. CASE i = 1
    <3>1. n["v4"] \in Nat
      BY <1>1 DEF TypeOK
    <3>2. CutAt(ReturnedCut, i-1) = 0
      BY <2>2 DEF CutAt
    <3>3. \A f \in Family : AmongFirst(0)[f] = 0
      BY <3>1 DEF AmongFirst, Least, SatSub
    <3>4. AmongFirst(0) \in [Family -> Nat]
      BY <3>3 DEF AmongFirst
    <3>5. datagrams[i].lo \in [Family -> Nat] /\ \A f \in Family : datagrams[i].lo[f] = 0
      BY <1>3, <2>1, <2>2
    <3>6. datagrams[i].lo = AmongFirst(0)
      BY <3>3, <3>4, <3>5
    <3> QED BY <3>2, <3>6
  <2>3. CASE i # 1
    <3>1. i - 1 \in 1 .. Len(datagrams) /\ i - 1 # 0
      BY <1>1, <2>3
    <3>2. AmongFirst(CutAt(ReturnedCut, i-1)) = datagrams[i-1].hi
      BY <1>4, <3>1 DEF CutAt
    <3>3. datagrams[i].lo \in [Family -> Nat] /\ datagrams[i-1].hi \in [Family -> Nat]
      BY <1>3, <3>1
    <3>4. \A f \in Family : datagrams[i].lo[f] = datagrams[i-1].hi[f]
      BY <2>1, <2>3
    <3> QED BY <3>2, <3>3, <3>4
  <2> QED BY <2>2, <2>3
<1>6. datagrams[i].template = (with_template /\ i = 1)
  <2>1. with_template \in BOOLEAN
    BY <1>1 DEF TypeOK
  <2> QED BY <1>1, <1>3, <2>1 DEF TemplateFirstOnly
<1>7. Bytes(Stretch(ReturnedCut, i)) = Bytes(datagrams[i])
  BY <1>4, <1>5, <1>6 DEF Stretch, Bytes, SetBytes
<1> QED BY <1>1, <1>4, <1>5, <1>6, <1>7 DEF LengthHonest

(* The datagram that ends before the batch does could not take one record  *)
(* more.                                                                   *)
LEMMA OneMoreIsTooMany ==
  ASSUME Settled, NEW i \in 1 .. Len(datagrams), ReturnedCut[i] < Total(n)
  PROVE  Bytes([lo |-> datagrams[i].lo, hi |-> AmongFirst(ReturnedCut[i] + 1),
                template |-> datagrams[i].template]) > MTU
<1> DEFINE d == datagrams[i]
           e == [lo |-> d.lo, hi |-> AmongFirst(ReturnedCut[i] + 1), template |-> d.template]
<1>1. /\ TypeOK /\ datagrams \in Seq(Message) /\ RecordsPartitioned /\ LengthHonest /\ NoEarlySplit
      /\ InListOrder(d.hi) /\ d.length = Bytes(d)
  BY DEF Settled, Layout, TypeOK, Streamed, Ordered, Reached, LengthHonest
<1>2. d \in Message /\ ReturnedCut[i] = Total(d.hi)
  BY <1>1 DEF ReturnedCut
<1>3. /\ n["v4"] \in Nat /\ n["v6"] \in Nat /\ MTU \in Nat
      /\ d.hi["v4"] \in Nat /\ d.hi["v6"] \in Nat /\ d.lo["v4"] \in Nat /\ d.lo["v6"] \in Nat
      /\ d.lo["v4"] <= d.hi["v4"] /\ d.lo["v6"] <= d.hi["v6"]
  BY <1>1, <1>2, EncoderAssumption DEF TypeOK, Message, RecordsPartitioned
<1>4. /\ e.lo = d.lo /\ e.template = d.template
      /\ e.hi["v4"] = Least(Total(d.hi) + 1, n["v4"])
      /\ e.hi["v6"] = SatSub(Total(d.hi) + 1, n["v4"])
  BY <1>2 DEF AmongFirst
<1>5. Total(d.hi) < Total(n)
  BY <1>2
<1>6. \A f \in Family : d.hi[f] < n[f] /\ (f = "v6" => d.hi["v4"] = n["v4"])
        => Bytes(d) + RecordSize(f) + (IF d.lo[f] = d.hi[f] THEN SET_HEADER_LEN ELSE 0) > MTU
  BY <1>1 DEF NoEarlySplit
<1> HIDE DEF d, e
<1> DEFINE h == MSG_HEADER_LEN + (IF d.template THEN TEMPLATE_SET_LEN ELSE 0)
<1>7. Bytes(d) = h + SetBytes(d, "v4") + SetBytes(d, "v6") /\ h \in Nat
  BY EncoderAssumption DEF Bytes
<1>8. Bytes(e) = h + SetBytes(e, "v4") + SetBytes(e, "v6")
  BY <1>4 DEF Bytes
<1> HIDE DEF h
<1>9. \A f \in Family : SetBytes(d, f) \in Nat
  <2> TAKE f \in Family
  <2>1. d.lo[f] \in Nat /\ d.hi[f] \in Nat /\ d.lo[f] <= d.hi[f]
    BY <1>3
  <2> QED BY <2>1, SetBytesMono
<1>10. \A f \in Family : RecordSize(f) \in Nat /\ SET_HEADER_LEN \in Nat
  BY RecordSizeType, EncoderAssumption
<1>11. ASSUME NEW f \in Family, NEW g \in Family, f # g, d.hi[f] < n[f],
              f = "v6" => d.hi["v4"] = n["v4"], e.hi[f] = d.hi[f] + 1, e.hi[g] = d.hi[g]
       PROVE  Bytes(e) > MTU
  <2> DEFINE more == RecordSize(f) + (IF d.lo[f] = d.hi[f] THEN SET_HEADER_LEN ELSE 0)
  <2>1. SetBytes(e, f) = SetBytes(d, f) + more
    <3>1. d.lo[f] \in Nat /\ d.hi[f] \in Nat /\ d.lo[f] <= d.hi[f] /\ e.lo[f] = d.lo[f]
      BY <1>3, <1>4
    <3>2. SetBytes(e, f)
            = SetBytes(d, f) + RecordSize(f) + (IF d.lo[f] = d.hi[f] THEN SET_HEADER_LEN ELSE 0)
      BY <3>1, <1>11, SetBytesOneMore
    <3> QED BY <3>2, <1>9, <1>10
  <2>2. SetBytes(e, g) = SetBytes(d, g)
    BY <1>4, <1>11 DEF SetBytes
  <2>3. Bytes(d) \in Nat
    BY <1>7, <1>9
  <2>4. Bytes(d) + more > MTU /\ more \in Nat
    <3>1. more \in Nat /\ RecordSize(f) \in Nat
      BY <1>10
    <3>2. Bytes(d) + RecordSize(f) + (IF d.lo[f] = d.hi[f] THEN SET_HEADER_LEN ELSE 0) > MTU
      BY <1>6, <1>11
    <3> QED BY <1>10, <2>3, <3>1, <3>2
  <2> HIDE DEF more
  <2>5. CASE f = "v4"
    BY <1>7, <1>8, <1>9, <1>11, <2>1, <2>2, <2>4, <2>5
  <2>6. CASE f = "v6"
    BY <1>7, <1>8, <1>9, <1>11, <2>1, <2>2, <2>4, <2>6
  <2> QED BY <2>5, <2>6
<1>12. CASE d.hi["v4"] < n["v4"]
  <2>1. d.hi["v6"] = 0
    BY <1>1, <1>3, <1>12 DEF InListOrder
  <2>2. e.hi["v4"] = d.hi["v4"] + 1 /\ e.hi["v6"] = 0
    BY <1>3, <1>4, <1>12, <2>1 DEF Least, SatSub, Total
  <2> QED BY <1>11, <1>12, <2>1, <2>2 DEF e, d
<1>13. CASE d.hi["v4"] = n["v4"]
  <2>1. d.hi["v6"] < n["v6"]
    BY <1>3, <1>5, <1>13 DEF Total
  <2>2. e.hi["v4"] = n["v4"] /\ e.hi["v6"] = d.hi["v6"] + 1
    BY <1>3, <1>4, <1>13 DEF Least, SatSub, Total
  <2> QED BY <1>11, <1>13, <2>1, <2>2 DEF e, d
<1> QED BY <1>1, <1>3, <1>12, <1>13 DEF InListOrder, e, d

(* However the batch is cut, after k datagrams no more has been sent than  *)
(* after k datagrams of build_datagrams.                                   *)
LEMMA NoCutIsAhead ==
  ASSUME Settled, NEW c \in Seq(Nat), Feasible(c)
  PROVE  \A k \in 1 .. Len(c) : k <= Len(datagrams) => c[k] <= ReturnedCut[k]
<1> DEFINE g == ReturnedCut
           S == {k \in Nat : k <= Len(c) /\ k <= Len(datagrams) => CutAt(c, k) <= CutAt(g, k)}
<1>1. /\ TypeOK /\ Total(n) \in Nat /\ MTU \in Nat /\ Len(c) \in Nat /\ Len(datagrams) \in Nat
      /\ \A i \in 1 .. Len(c) : c[i] \in Nat
  BY EncoderAssumption DEF Settled, Layout, TypeOK, Total
<1>2. /\ P!IsCut(c, Total(n)) /\ \A i \in 1 .. Len(c) : Bytes(Stretch(c, i)) <= MTU
  BY DEF Feasible
<1>3. \A i \in 1 .. Len(c) : c[i] <= Total(n) /\ c[i] > CutAt(c, i-1) /\ CutAt(c, i-1) \in Nat
  <2> TAKE i \in 1 .. Len(c)
  <2>1. c[i] <= Total(n)
    BY <1>1, <1>2, CutsIncrease
  <2>2. c[i] > CutAt(c, i-1) /\ CutAt(c, i-1) \in Nat
    BY <1>1, <1>2 DEF P!IsCut, CutAt
  <2> QED BY <2>1, <2>2
<1>4. \A i \in 1 .. Len(datagrams) : g[i] \in Nat /\ CutAt(g, i-1) \in Nat
  <2>1. \A d \in Message : Total(d.hi) \in Nat
    BY DEF Message, Total
  <2>2. \A i \in 1 .. Len(datagrams) : g[i] \in Nat
    BY <1>1, <2>1 DEF TypeOK, ReturnedCut
  <2> QED BY <1>1, <2>2 DEF CutAt
<1> HIDE DEF g
<1>5. 0 \in S
  BY DEF CutAt
<1>6. ASSUME NEW k \in Nat, k \in S PROVE k + 1 \in S
  <2> DEFINE i == k + 1
  <2> SUFFICES ASSUME i <= Len(c), i <= Len(datagrams), ~(c[i] <= g[i]) PROVE FALSE
    BY DEF CutAt
  <2>1. i \in 1 .. Len(c) /\ i \in 1 .. Len(datagrams) /\ i - 1 = k
    BY <1>1
  <2>2. CutAt(c, i-1) <= CutAt(g, i-1)
    BY <1>1, <1>6, <2>1
  <2>3. g[i] + 1 <= c[i] /\ g[i] < Total(n) /\ g[i] \in Nat /\ c[i] \in Nat
    <3>1. g[i] \in Nat /\ c[i] \in Nat
      BY <1>1, <1>4, <2>1
    <3>2. c[i] <= Total(n)
      BY <1>3, <2>1
    <3> HIDE DEF i
    <3> QED BY <1>1, <3>1, <3>2
  <2> DEFINE d == [lo |-> datagrams[i].lo, hi |-> AmongFirst(g[i] + 1),
                   template |-> datagrams[i].template]
             e == Stretch(c, i)
  <2>4. Bytes(d) > MTU
    BY <2>1, <2>3, OneMoreIsTooMany DEF g
  <2>5. /\ d.lo = AmongFirst(CutAt(g, i-1)) /\ d.hi = AmongFirst(g[i] + 1)
        /\ d.template = (with_template /\ i = 1)
    BY <2>1, StretchIsDatagram DEF g
  <2>6. /\ e.lo = AmongFirst(CutAt(c, i-1)) /\ e.hi = AmongFirst(c[i])
        /\ e.template = (with_template /\ i = 1)
    BY DEF Stretch
  <2>7. datagrams[i].hi = AmongFirst(g[i]) /\ datagrams[i].lo = AmongFirst(CutAt(g, i-1))
    BY <2>1, StretchIsDatagram DEF g
  <2>8. \A f \in Family : AmongFirst(CutAt(g, i-1))[f] <= AmongFirst(g[i])[f]
    BY <2>1, <2>7 DEF Settled, Streamed, RecordsPartitioned
  <2>9. Bytes(e) <= MTU
    BY <1>2, <2>1
  <2> HIDE DEF d, e, i
  <2>10. ASSUME NEW f \in Family
         PROVE  /\ d.lo[f] \in Nat /\ d.hi[f] \in Nat /\ e.lo[f] \in Nat /\ e.hi[f] \in Nat
                /\ e.lo[f] <= d.lo[f] /\ d.lo[f] <= d.hi[f] /\ d.hi[f] <= e.hi[f]
    <3>1. CutAt(c, i-1) \in Nat /\ CutAt(g, i-1) \in Nat /\ g[i] + 1 \in Nat /\ g[i] <= g[i] + 1
      <4>1. CutAt(c, i-1) \in Nat
        BY <1>3, <2>1
      <4>2. CutAt(g, i-1) \in Nat
        BY <1>4, <2>1
      <4> QED BY <4>1, <4>2, <2>3
    <3>2. e.lo[f] \in Nat /\ d.lo[f] \in Nat /\ e.lo[f] <= d.lo[f]
      BY <1>1, <2>2, <2>5, <2>6, <3>1, AmongFirstMono
    <3>3. d.hi[f] \in Nat /\ e.hi[f] \in Nat /\ d.hi[f] <= e.hi[f]
      BY <1>1, <2>3, <2>5, <2>6, <3>1, AmongFirstMono
    <3>4. AmongFirst(g[i])[f] \in Nat /\ AmongFirst(g[i])[f] <= AmongFirst(g[i] + 1)[f]
      BY <1>1, <2>3, <3>1, AmongFirstMono
    <3>5. d.lo[f] <= d.hi[f]
      BY <2>5, <2>8, <3>2, <3>3, <3>4
    <3> QED BY <3>2, <3>3, <3>5
  <2>11. d.template = e.template
    BY <2>5, <2>6
  <2>12. Bytes(d) \in Nat /\ Bytes(e) \in Nat /\ Bytes(d) <= Bytes(e)
    BY <2>10, <2>11, BytesMono
  <2> QED BY <1>1, <2>4, <2>9, <2>12
<1>7. Nat \subseteq S
  <2> HIDE DEF S
  <2> QED BY <1>5, <1>6, Induction
<1>8. ASSUME NEW k \in 1 .. Len(c), k <= Len(datagrams) PROVE c[k] <= g[k]
  <2>1. k \in Nat /\ k # 0 /\ k <= Len(c)
    BY <1>1
  <2> QED BY <1>7, <1>8, <2>1 DEF CutAt
<1> QED BY <1>8 DEF g

(* No batch, for any MTU and any sizes, leaves in more datagrams than its  *)
(* order and the MTU require: the loop of build_datagrams packs greedily,  *)
(* and that is optimal (encode.rs:54-96).                                  *)
THEOREM FewestDatagrams == Spec => []AsFewAsPossible
<1>1. Layout /\ Ordered /\ Streamed /\ Reached /\ PackingAsPromised => AsFewAsPossible
  <2> SUFFICES ASSUME Settled
               PROVE  /\ Feasible(ReturnedCut)
                      /\ \A c \in Seq(Nat) : Feasible(c) => Len(datagrams) <= Len(c)
    BY DEF AsFewAsPossible, Settled
  <2> DEFINE g == ReturnedCut
  <2>1. /\ TypeOK /\ datagrams \in Seq(Message) /\ Len(datagrams) \in Nat /\ Total(n) \in Nat
    BY DEF Settled, Layout, TypeOK, Total
  <2>2. P!IsCut(g, Total(n)) /\ Len(g) = Len(datagrams) /\ g \in Seq(Nat)
    <3>1. \A d \in Message : Total(d.hi) \in Nat
      BY DEF Message, Total
    <3>2. \A i \in 1 .. Len(datagrams) : Total(datagrams[i].hi) \in Nat
      BY <2>1, <3>1
    <3> QED BY <2>1, <3>2 DEF Settled, PackingAsPromised, ReturnedCut
  <2>3. Feasible(g)
    <3>1. ASSUME NEW i \in 1 .. Len(datagrams) PROVE Bytes(Stretch(g, i)) <= MTU
      <4>1. Bytes(Stretch(g, i)) = datagrams[i].length
        BY StretchIsDatagram
      <4> QED BY <4>1 DEF Settled, Layout, FitsMTU
    <3> QED BY <2>2, <3>1 DEF Feasible
  <2>4. ASSUME NEW c \in Seq(Nat), Feasible(c), ~(Len(datagrams) <= Len(c)) PROVE FALSE
    <3> DEFINE k == Len(c)
    <3>1. P!IsCut(c, Total(n)) /\ k \in Nat \ {0} /\ c[k] = Total(n)
      BY <2>4 DEF Feasible, P!IsCut
    <3>2. k \in 1 .. Len(c) /\ k \in 1 .. Len(g) /\ k < Len(g)
      BY <2>1, <2>2, <2>4, <3>1
    <3>3. c[k] <= g[k]
      BY <2>2, <2>4, <3>2, NoCutIsAhead
    <3>4. g[k] < Total(n)
      BY <2>1, <2>2, <3>2, CutsIncrease
    <3>5. g[k] \in Nat
      BY <2>2, <3>2
    <3> QED BY <2>1, <3>1, <3>3, <3>4, <3>5
  <2> QED BY <2>3, <2>4
<1>2. Spec => []Reached
  BY LayoutInit, LayoutNext, OrderedInit, OrderedNext, ReachedInit, ReachedNext, PTL DEF Spec
<1> QED BY <1>1, <1>2, LayoutInvariant, OrderInvariant, StreamInvariant, KeepsPackingContract, PTL
=============================================================================
