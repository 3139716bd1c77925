--------------------------- MODULE ExporterProofs ---------------------------
(***************************************************************************)
(* The exporter and its collector over a bad network, for every refresh    *)
(* period, sequence space and size of the flushes.                         *)
(***************************************************************************)
EXTENDS Exporter, TLAPS

-----------------------------------------------------------------------------
(* Sequence numbers.                                                       *)

(* A remainder is the one number in 0 .. r-1 that differs by a multiple.   *)
LEMMA Remainder ==
  ASSUME NEW r \in Nat \ {0}, NEW k \in Int, NEW m \in 0 .. r-1, NEW b \in Int,
         b = r * k + m
  PROVE  b % r = m
<1> DEFINE q == b \div r
           x == b % r
<1>1. q \in Int /\ x \in 0 .. r-1 /\ b = r * q + x
  BY SMT
<1> HIDE DEF q, x
<1>2. r * q \in Int /\ r * k \in Int
  BY <1>1
<1>3. CASE q >= k + 1
  <2>1. r * q >= r * (k + 1) /\ r * (k + 1) = r * k + r
    BY <1>1, <1>3
  <2> QED BY <1>1, <1>2, <2>1
<1>4. CASE k >= q + 1
  <2>1. r * k >= r * (q + 1) /\ r * (q + 1) = r * q + r
    BY <1>1, <1>4
  <2> QED BY <1>1, <1>2, <2>1
<1>5. q = k
  BY <1>1, <1>3, <1>4
<1>6. x = m
  BY <1>1, <1>2, <1>5
<1> QED BY <1>6 DEF x

(* Every number is a multiple and its remainder.                           *)
LEMMA Divided ==
  ASSUME NEW r \in Nat \ {0}, NEW b \in Int
  PROVE  b \div r \in Int /\ b % r \in 0 .. r-1 /\ b = r * (b \div r) + (b % r)
  BY SMT

(* wrapping_add after wrapping_add is one wrapping_add of the sum.         *)
LEMMA WrapAdd ==
  ASSUME NEW r \in Nat \ {0}, NEW b \in Nat, NEW c \in Nat
  PROVE  ((b % r) + c) % r = (b + c) % r
<1> DEFINE a == b + c
           q == b \div r
           m == b % r
           y == a \div r
           z == a % r
<1>1. a \in Int /\ b \in Int
  OBVIOUS
<1>2. q \in Int /\ m \in 0 .. r-1 /\ b = r * q + m
  BY Divided
<1>3. y \in Int /\ z \in 0 .. r-1 /\ a = r * y + z
  <2> HIDE DEF a
  <2> QED BY <1>1, Divided
<1>4. a = b + c
  OBVIOUS
<1> HIDE DEF a, q, m, y, z
<1>5. r * (y - q) = r * y - r * q /\ r * y \in Int /\ r * q \in Int
  BY <1>2, <1>3
<1>6. m + c = r * (y - q) + z /\ m + c \in Int /\ y - q \in Int
  BY <1>2, <1>3, <1>4, <1>5
<1> DEFINE u == m + c
           k == y - q
<1>7. u % r = z
  <2>1. u = r * k + z /\ u \in Int /\ k \in Int
    BY <1>6
  <2> HIDE DEF u, k
  <2> QED BY <1>3, <2>1, Remainder
<1> QED BY <1>7 DEF a, m, z

(* The difference of two sequence numbers is that of what they count.      *)
LEMMA WrapSub ==
  ASSUME NEW r \in Nat \ {0}, NEW b \in Nat, NEW c \in Nat
  PROVE  ((b % r) - (c % r)) % r = (b - c) % r
<1> DEFINE a == b - c
           q == b \div r
           m == b % r
           p == c \div r
           l == c % r
           y == a \div r
           z == a % r
<1>1. a \in Int
  OBVIOUS
<1>2. q \in Int /\ m \in 0 .. r-1 /\ b = r * q + m
  BY Divided
<1>3. p \in Int /\ l \in 0 .. r-1 /\ c = r * p + l
  BY Divided
<1>4. y \in Int /\ z \in 0 .. r-1 /\ a = r * y + z
  <2> HIDE DEF a
  <2> QED BY <1>1, Divided
<1>5. a = b - c
  OBVIOUS
<1> HIDE DEF a, q, m, p, l, y, z
<1>6. /\ r * ((y - q) + p) = (r * y - r * q) + r * p
      /\ r * y \in Int /\ r * q \in Int /\ r * p \in Int
  BY <1>2, <1>3, <1>4
<1>7. m - l = r * ((y - q) + p) + z /\ m - l \in Int /\ (y - q) + p \in Int
  BY <1>2, <1>3, <1>4, <1>5, <1>6
<1> DEFINE u == m - l
           k == (y - q) + p
<1>8. u % r = z
  <2>1. u = r * k + z /\ u \in Int /\ k \in Int
    BY <1>7
  <2> HIDE DEF u, k
  <2> QED BY <1>4, <2>1, Remainder
<1> QED BY <1>8 DEF a, m, l, z

(* A remainder is in range.                                                *)
LEMMA InRange == \A b \in Int : b % SEQ_MOD \in 0 .. SEQ_MOD-1
  BY Divided, ExporterAssumption

-----------------------------------------------------------------------------
(* What the network does to a sequence of datagrams.                       *)

(* Two datagrams that differ at most in being steady.                      *)
Same(d, e) == d.seq = e.seq /\ d.lo = e.lo /\ d.hi = e.hi /\ d.template = e.template

(* A disturbance leaves everything but that datagrams are steady.          *)
LEMMA UnsteadyFacts ==
  ASSUME NEW s \in Seq(Datagram)
  PROVE  /\ Unsteady(s) \in Seq(Datagram) /\ Len(Unsteady(s)) = Len(s)
         /\ \A i \in 1 .. Len(s) : Same(Unsteady(s)[i], s[i]) /\ Unsteady(s)[i].steady = FALSE
<1>0. \A d \in Datagram : [d EXCEPT !.steady = FALSE] \in Datagram
  BY DEF Datagram
<1>1. \A i \in 1 .. Len(s) : s[i] \in Datagram /\ [s[i] EXCEPT !.steady = FALSE] \in Datagram
  BY <1>0
<1>2. Unsteady(s) = [i \in 1 .. Len(s) |-> [s[i] EXCEPT !.steady = FALSE]]
  BY DEF Unsteady
<1>3. Len(s) \in Nat
  OBVIOUS
<1> HIDE DEF Unsteady
<1>4. Unsteady(s) \in Seq(Datagram) /\ Len(Unsteady(s)) = Len(s)
  BY <1>1, <1>2, <1>3
<1>5. \A i \in 1 .. Len(s) : Same(Unsteady(s)[i], s[i]) /\ Unsteady(s)[i].steady = FALSE
  BY <1>1, <1>2 DEF Same, Datagram
<1> QED BY <1>4, <1>5

(* One datagram is lost, the others keep their order.                      *)
LEMMA WithoutFacts ==
  ASSUME NEW s \in Seq(Datagram), NEW i \in 1 .. Len(s)
  PROVE  /\ Without(s, i) \in Seq(Datagram) /\ Len(Without(s, i)) = Len(s) - 1
         /\ \A q \in 1 .. Len(s) - 1 : Without(s, i)[q] = IF q < i THEN s[q] ELSE s[q+1]
<1> DEFINE a == SubSeq(s, 1, i-1)
           b == SubSeq(s, i+1, Len(s))
<1>1. /\ Len(s) \in Nat /\ i \in Nat
      /\ a \in Seq(Datagram) /\ Len(a) = i - 1 /\ \A q \in 1 .. i-1 : a[q] = s[q]
  OBVIOUS
<1>2. /\ b \in Seq(Datagram) /\ Len(b) = Len(s) - i
      /\ \A q \in 1 .. Len(s) - i : b[q] = s[q + i]
  OBVIOUS
<1>a. a \in Seq(Datagram) /\ b \in Seq(Datagram)
  BY <1>1, <1>2
<1> HIDE DEF a, b
<1>3. /\ a \o b \in Seq(Datagram) /\ Len(a \o b) = Len(a) + Len(b)
      /\ \A q \in 1 .. Len(a) + Len(b) : (a \o b)[q] = IF q <= Len(a) THEN a[q] ELSE b[q - Len(a)]
  BY <1>a
<1>4. Len(a) + Len(b) = Len(s) - 1
  BY <1>1, <1>2
<1>5. ASSUME NEW q \in 1 .. Len(s) - 1
      PROVE  (a \o b)[q] = IF q < i THEN s[q] ELSE s[q+1]
  <2>1. CASE q < i
    BY <1>1, <1>3, <1>4, <2>1
  <2>2. CASE ~(q < i)
    <3>1. q - Len(a) \in 1 .. Len(s) - i /\ (q - Len(a)) + i = q + 1
      BY <1>1, <2>2
    <3>2. b[q - Len(a)] = s[q + 1]
      BY <1>2, <3>1
    <3> QED BY <1>1, <1>3, <1>4, <2>2, <3>2
  <2> QED BY <2>1, <2>2
<1> QED BY <1>3, <1>4, <1>5 DEF Without, a, b

(* Two neighbours change places.                                           *)
LEMMA SwappedFacts ==
  ASSUME NEW s \in Seq(Datagram), NEW i \in 1 .. Len(s), i < Len(s)
  PROVE  /\ Swapped(s, i) \in Seq(Datagram) /\ Len(Swapped(s, i)) = Len(s)
         /\ \A q \in 1 .. Len(s) : \E r \in 1 .. Len(s) : Swapped(s, i)[q] = s[r]
<1>1. Len(s) \in Nat /\ i+1 \in 1 .. Len(s) /\ s[i] \in Datagram /\ s[i+1] \in Datagram
  OBVIOUS
<1>2. Swapped(s, i) \in Seq(Datagram) /\ Len(Swapped(s, i)) = Len(s)
  BY <1>1 DEF Swapped
<1>3. \A q \in 1 .. Len(s) :
        Swapped(s, i)[q] = IF q = i+1 THEN s[i] ELSE IF q = i THEN s[i+1] ELSE s[q]
  BY <1>1 DEF Swapped
<1> QED BY <1>1, <1>2, <1>3

(* The first datagram leaves.                                              *)
LEMMA TailFacts ==
  ASSUME NEW s \in Seq(Datagram), s # <<>>
  PROVE  /\ Tail(s) \in Seq(Datagram) /\ Len(Tail(s)) = Len(s) - 1 /\ Len(s) \in Nat \ {0}
         /\ \A q \in 1 .. Len(s) - 1 : Tail(s)[q] = s[q+1]
         /\ Head(s) = s[1] /\ s[1] \in Datagram
  OBVIOUS

(* A datagram follows the others.                                          *)
LEMMA AppendFacts ==
  ASSUME NEW s \in Seq(Datagram), NEW d \in Datagram
  PROVE  /\ Append(s, d) \in Seq(Datagram) /\ Len(Append(s, d)) = Len(s) + 1 /\ Len(s) \in Nat
         /\ \A q \in 1 .. Len(s) : Append(s, d)[q] = s[q]
         /\ Append(s, d)[Len(s) + 1] = d
  OBVIOUS

(* Datagrams of a flush: a stretch each, one behind the other, with the    *)
(* templates in the first.                                                 *)
LEMMA FlushBuilds ==
  ASSUME TypeOK, NEW count \in BatchSizes, NEW c \in Cuts(count), Flush(count, c)
  PROVE  /\ datagrams' \in Seq(Datagram) /\ datagrams' # <<>>
         /\ \A i \in 1 .. Len(datagrams') :
              /\ datagrams'[i].lo < datagrams'[i].hi
              /\ handed <= datagrams'[i].lo /\ datagrams'[i].hi <= handed + count
              /\ datagrams'[i].seq = (seq + (datagrams'[i].lo - handed)) % SEQ_MOD
              /\ datagrams'[i].template <=> TemplateDue /\ i = 1
              /\ datagrams'[i].steady <=> calm >= REFRESH
         /\ \A i \in 1 .. Len(datagrams') - 1 : datagrams'[i].hi <= datagrams'[i+1].lo
<1>1. PICK k \in 1 .. count : c \in [1 .. k -> 1 .. count]
  BY DEF Cuts
<1>2. IsCut(c, count) /\ count \in Nat /\ k \in Nat \ {0} /\ handed \in Nat /\ Len(c) = k
  BY <1>1, ExporterAssumption DEF Cuts, TypeOK
<1> DEFINE lo(i) == IF i = 1 THEN 0 ELSE c[i-1]
<1>3. \A i \in 1 .. k : /\ c[i] \in 1 .. count /\ lo(i) \in 0 .. count /\ lo(i) < c[i]
  <2> SUFFICES ASSUME NEW i \in 1 .. k
               PROVE  c[i] \in 1 .. count /\ lo(i) \in 0 .. count /\ lo(i) < c[i]
    OBVIOUS
  <2>1. i # 1 => i-1 \in 1 .. k
    BY <1>2
  <2> QED BY <1>1, <1>2, <2>1 DEF IsCut
<1> HIDE DEF lo
<1>4. datagrams' = [i \in 1 .. k |->
         [seq |-> (seq + lo(i)) % SEQ_MOD, template |-> TemplateDue /\ i = 1,
          lo |-> handed + lo(i), hi |-> handed + c[i], steady |-> calm >= REFRESH]]
  BY <1>2 DEF Flush, Packed, lo
<1>5. seq \in Nat
  BY ExporterAssumption DEF TypeOK
<1>6. \A i \in 1 .. k : datagrams'[i] \in Datagram
  <2> SUFFICES ASSUME NEW i \in 1 .. k PROVE datagrams'[i] \in Datagram
    OBVIOUS
  <2>1. (seq + lo(i)) % SEQ_MOD \in 0 .. SEQ_MOD-1
    BY <1>3, <1>5, InRange
  <2>2. handed + lo(i) \in Nat /\ handed + c[i] \in Nat
    BY <1>2, <1>3
  <2>3. (TemplateDue /\ i = 1) \in BOOLEAN /\ (calm >= REFRESH) \in BOOLEAN
    OBVIOUS
  <2> QED BY <1>4, <2>1, <2>2, <2>3 DEF Datagram
<1>7. datagrams' \in Seq(Datagram) /\ Len(datagrams') = k /\ datagrams' # <<>>
  <2>1. PICK s : s = datagrams'
    OBVIOUS
  <2>2. s \in [1 .. k -> Datagram]
    BY <1>4, <1>6, <2>1
  <2>3. s \in Seq(Datagram) /\ Len(s) = k
    BY <1>2, <2>2
  <2> QED BY <1>2, <2>1, <2>3
<1>8. \A i \in 1 .. k :
        /\ datagrams'[i].lo < datagrams'[i].hi
        /\ handed <= datagrams'[i].lo /\ datagrams'[i].hi <= handed + count
        /\ datagrams'[i].seq = (seq + (datagrams'[i].lo - handed)) % SEQ_MOD
        /\ datagrams'[i].template <=> TemplateDue /\ i = 1
        /\ datagrams'[i].steady <=> calm >= REFRESH
  <2> SUFFICES ASSUME NEW i \in 1 .. k
               PROVE  /\ datagrams'[i].lo < datagrams'[i].hi
                      /\ handed <= datagrams'[i].lo /\ datagrams'[i].hi <= handed + count
                      /\ datagrams'[i].seq = (seq + (datagrams'[i].lo - handed)) % SEQ_MOD
                      /\ datagrams'[i].template <=> TemplateDue /\ i = 1
                      /\ datagrams'[i].steady <=> calm >= REFRESH
    OBVIOUS
  <2>1. /\ datagrams'[i].lo = handed + lo(i) /\ datagrams'[i].hi = handed + c[i]
        /\ datagrams'[i].seq = (seq + lo(i)) % SEQ_MOD
        /\ datagrams'[i].template = (TemplateDue /\ i = 1)
        /\ datagrams'[i].steady = (calm >= REFRESH)
    BY <1>4
  <2>2. /\ (handed + lo(i)) - handed = lo(i)
        /\ handed + lo(i) < handed + c[i]
        /\ handed <= handed + lo(i) /\ handed + c[i] <= handed + count
    BY <1>2, <1>3
  <2>3. PICK d : d = datagrams'[i]
    OBVIOUS
  <2>4. /\ d.lo < d.hi /\ handed <= d.lo /\ d.hi <= handed + count
        /\ d.seq = (seq + (d.lo - handed)) % SEQ_MOD
    BY <2>1, <2>2, <2>3
  <2>5. d.template <=> TemplateDue /\ i = 1
    BY <2>1, <2>3
  <2>6. d.steady <=> calm >= REFRESH
    BY <2>1, <2>3
  <2> QED BY <2>3, <2>4, <2>5, <2>6
<1>9. \A i \in 1 .. k-1 : datagrams'[i].hi <= datagrams'[i+1].lo
  <2> SUFFICES ASSUME NEW i \in 1 .. k-1 PROVE datagrams'[i].hi <= datagrams'[i+1].lo
    OBVIOUS
  <2>1. i \in 1 .. k /\ i+1 \in 1 .. k /\ i+1 # 1 /\ (i+1)-1 = i
    BY <1>2
  <2>2. lo(i+1) = c[i]
    BY <2>1 DEF lo
  <2>3. datagrams'[i].hi = handed + c[i] /\ datagrams'[i+1].lo = handed + lo(i+1)
    BY <1>4, <2>1
  <2>4. handed + c[i] \in Nat
    BY <1>2, <1>3, <2>1
  <2> QED BY <2>2, <2>3, <2>4
<1> QED BY <1>7, <1>8, <1>9

-----------------------------------------------------------------------------
(* Types.                                                                  *)

(* A clock that stops at REFRESH.                                          *)
LEMMA CappedType == \A t \in 0 .. REFRESH : Capped(t) \in 0 .. REFRESH
  BY ExporterAssumption DEF Capped

(* A datagram's records are counted by a number.                           *)
LEMMA RecordsType == \A d \in Datagram : Records(d) \in Int /\ (d.lo < d.hi => Records(d) \in Nat \ {0})
  BY DEF Datagram, Records

(* No datagram is empty.                                                   *)
NoneEmpty ==
  /\ \A i \in 1 .. Len(net) : net[i].lo < net[i].hi
  /\ \A i \in 1 .. Len(datagrams) : datagrams[i].lo < datagrams[i].hi

(* A loss, a swap or a mere disturbance.                                   *)
LEMMA DisturbedTypes ==
  ASSUME TypeOK, NoneEmpty, NEW s \in Seq(Datagram),
         \A i \in 1 .. Len(s) : s[i].lo < s[i].hi,
         net' = Unsteady(s), datagrams' = Unsteady(datagrams)
  PROVE  net' \in Seq(Datagram) /\ datagrams' \in Seq(Datagram) /\ NoneEmpty'
<1>1. /\ Unsteady(s) \in Seq(Datagram) /\ Len(Unsteady(s)) = Len(s)
      /\ \A i \in 1 .. Len(s) : Same(Unsteady(s)[i], s[i])
  BY UnsteadyFacts
<1>2. /\ Unsteady(datagrams) \in Seq(Datagram) /\ Len(Unsteady(datagrams)) = Len(datagrams)
      /\ \A i \in 1 .. Len(datagrams) : Same(Unsteady(datagrams)[i], datagrams[i])
  BY UnsteadyFacts DEF TypeOK
<1> QED BY <1>1, <1>2 DEF Same, NoneEmpty

(* Every step keeps the types.                                             *)
LEMMA TypesNext == TypeOK /\ NoneEmpty /\ [Next]_vars => TypeOK' /\ NoneEmpty'
<1> SUFFICES ASSUME TypeOK, NoneEmpty, [Next]_vars PROVE TypeOK' /\ NoneEmpty'
  OBVIOUS
<1> USE DEF None
<1>0. /\ SEQ_MOD \in Nat \ {0} /\ REFRESH \in Nat \ {0} /\ 0 \in 0 .. REFRESH
      /\ net \in Seq(Datagram) /\ datagrams \in Seq(Datagram)
  BY ExporterAssumption DEF TypeOK
<1>1. CASE FlushNothing \/ Return \/ UNCHANGED vars
  <2>1. CASE FlushNothing
    BY <1>0, <2>1 DEF FlushNothing, TypeOK, NoneEmpty, collector
  <2>2. CASE Return
    BY <1>0, <2>2 DEF Return, TypeOK, NoneEmpty, collector
  <2>3. CASE UNCHANGED vars
    BY <2>3 DEF TypeOK, NoneEmpty, vars, exporter, collector
  <2> QED BY <1>1, <2>1, <2>2, <2>3
<1>2. CASE Tick
  BY <1>0, <1>2, CappedType DEF Tick, TypeOK, NoneEmpty, collector
<1>3. ASSUME NEW count \in BatchSizes, NEW c \in Cuts(count), Flush(count, c)
      PROVE  TypeOK' /\ NoneEmpty'
  <2>1. /\ datagrams' \in Seq(Datagram)
        /\ \A i \in 1 .. Len(datagrams') : datagrams'[i].lo < datagrams'[i].hi
    BY <1>3, FlushBuilds
  <2>2. /\ pc' = "send" /\ seq' = (seq + count) % SEQ_MOD /\ refused' = 0
        /\ last_template_send' \in {0, last_template_send}
        /\ handed' = handed + count /\ count \in Nat /\ seq \in Nat
        /\ UNCHANGED <<last_err, result, sent, net, collector, calm, in_order>>
    BY <1>0, <1>3, ExporterAssumption DEF Flush, Advanced, TypeOK
  <2>3. (seq + count) % SEQ_MOD \in 0 .. SEQ_MOD-1
    BY <2>2, InRange
  <2> QED BY <1>0, <2>1, <2>2, <2>3 DEF TypeOK, NoneEmpty, collector
<1>4. CASE Send
  <2>1. /\ datagrams # <<>> /\ net' = Append(net, Head(datagrams)) /\ datagrams' = Tail(datagrams)
        /\ last_err' = last_err /\ sent' = sent + Records(Head(datagrams))
        /\ UNCHANGED <<pc, seq, last_template_send, result, handed, refused, collector, calm, in_order>>
    BY <1>4 DEF Send, ErrAfterSuccess
  <2>2. /\ Head(datagrams) = datagrams[1] /\ datagrams[1] \in Datagram
        /\ datagrams[1].lo < datagrams[1].hi
    BY <1>0, <2>1, TailFacts DEF NoneEmpty
  <2>3. net' \in Seq(Datagram) /\ datagrams' \in Seq(Datagram)
    BY <1>0, <2>1, <2>2
  <2>4. NoneEmpty'
    <3>1. \A i \in 1 .. Len(net') : net'[i].lo < net'[i].hi
      BY <1>0, <2>1, <2>2, AppendFacts DEF NoneEmpty
    <3>2. \A i \in 1 .. Len(datagrams') : datagrams'[i].lo < datagrams'[i].hi
      BY <1>0, <2>1, TailFacts DEF NoneEmpty
    <3> QED BY <3>1, <3>2 DEF NoneEmpty
  <2>5. sent' \in Nat
    BY <2>1, <2>2, RecordsType DEF TypeOK
  <2> QED BY <2>1, <2>3, <2>4, <2>5 DEF TypeOK, collector
<1>5. CASE SendFails
  <2>1. /\ datagrams # <<>> /\ datagrams' = Unsteady(Tail(datagrams)) /\ net' = Unsteady(net)
        /\ calm' = 0 /\ last_err' = 1 /\ refused' = refused + Records(Head(datagrams))
        /\ UNCHANGED <<pc, seq, last_template_send, result, handed, sent, collector, in_order>>
    BY <1>5 DEF SendFails
  <2>2. /\ Head(datagrams) = datagrams[1] /\ datagrams[1] \in Datagram
        /\ datagrams[1].lo < datagrams[1].hi
    BY <1>0, <2>1, TailFacts DEF NoneEmpty
  <2>3. /\ Tail(datagrams) \in Seq(Datagram)
        /\ \A i \in 1 .. Len(Tail(datagrams)) : Tail(datagrams)[i].lo < Tail(datagrams)[i].hi
    BY <1>0, <2>1, TailFacts DEF NoneEmpty
  <2>4. /\ net' \in Seq(Datagram) /\ Len(net') = Len(net)
        /\ \A i \in 1 .. Len(net) : Same(net'[i], net[i])
    BY <1>0, <2>1, UnsteadyFacts
  <2>5. /\ datagrams' \in Seq(Datagram) /\ Len(datagrams') = Len(Tail(datagrams))
        /\ \A i \in 1 .. Len(Tail(datagrams)) : Same(datagrams'[i], Tail(datagrams)[i])
    BY <2>1, <2>3, UnsteadyFacts
  <2>6. NoneEmpty'
    BY <2>3, <2>4, <2>5 DEF NoneEmpty, Same
  <2>7. refused' \in Nat
    BY <2>1, <2>2, RecordsType DEF TypeOK
  <2> QED BY <1>0, <2>1, <2>4, <2>5, <2>6, <2>7 DEF TypeOK, collector
<1>6. CASE Receive
  <2>1. /\ net # <<>> /\ net' = Tail(net) /\ templates' = (templates \/ net[1].template)
        /\ gap' = IF expected = None THEN 0 ELSE (net[1].seq - expected) % SEQ_MOD
        /\ expected' = (net[1].seq + Records(net[1])) % SEQ_MOD
        /\ top' = net[1].hi /\ hole' = IF expected = None THEN 0 ELSE net[1].lo - top
        /\ UNCHANGED <<exporter, calm, in_order>>
    BY <1>0, <1>6, TailFacts DEF Receive
  <2>2. net[1] \in Datagram /\ net[1].seq \in Int /\ net[1].lo \in Nat /\ net[1].hi \in Nat
        /\ net[1].template \in BOOLEAN
    <3>1. net[1] \in Datagram
      BY <1>0, <2>1, TailFacts
    <3>2. \A d \in Datagram : d.seq \in Int /\ d.lo \in Nat /\ d.hi \in Nat
                             /\ d.template \in BOOLEAN
      BY <1>0 DEF Datagram
    <3> QED BY <3>1, <3>2
  <2>3. gap' \in 0 .. SEQ_MOD-1
    <3>1. CASE expected = None
      BY <1>0, <2>1, <3>1
    <3>2. CASE expected # None
      <4>1. net[1].seq - expected \in Int
        BY <1>0, <2>2, <3>2 DEF TypeOK
      <4> QED BY <2>1, <3>2, <4>1, InRange
    <3> QED BY <3>1, <3>2
  <2>4. expected' \in 0 .. SEQ_MOD-1
    <3>1. net[1].seq + Records(net[1]) \in Int
      BY <2>2, RecordsType
    <3> QED BY <2>1, <3>1, InRange
  <2>5. hole' \in Int
    BY <2>1, <2>2 DEF TypeOK
  <2>6. net' \in Seq(Datagram) /\ NoneEmpty'
    BY <1>0, <2>1, TailFacts DEF NoneEmpty, exporter
  <2> QED BY <2>1, <2>2, <2>3, <2>4, <2>5, <2>6 DEF TypeOK, exporter
<1>7. CASE Restart
  <2>1. net' \in Seq(Datagram) /\ datagrams' \in Seq(Datagram) /\ NoneEmpty'
    BY <1>0, <1>7, DisturbedTypes DEF Restart, Disturbed, NoneEmpty
  <2>2. /\ templates' = FALSE /\ expected' = None /\ gap' = 0 /\ top' = 0 /\ hole' = 0 /\ calm' = 0
        /\ UNCHANGED <<pc, seq, last_template_send, last_err, result, handed, sent, refused, in_order>>
    BY <1>7 DEF Restart, Disturbed, Undisturbed
  <2>3. templates' \in BOOLEAN
    BY <2>2
  <2>4. 0 \in 0 .. SEQ_MOD-1 /\ 0 \in Nat /\ 0 \in Int /\ 0 \in 0 .. REFRESH
    BY <1>0
  <2> HIDE DEF None
  <2> QED BY <2>1, <2>2, <2>3, <2>4 DEF TypeOK
<1>8. ASSUME NEW i \in 1 .. Len(net), Lose(i) PROVE TypeOK' /\ NoneEmpty'
  <2>1. \A q \in 1 .. Len(Without(net, i)) : Without(net, i)[q].lo < Without(net, i)[q].hi
    <3> SUFFICES ASSUME NEW q \in 1 .. Len(Without(net, i))
                 PROVE  \E r \in 1 .. Len(net) : Without(net, i)[q] = net[r]
      BY DEF NoneEmpty
    <3>1. q \in 1 .. Len(net) - 1 /\ Without(net, i)[q] = IF q < i THEN net[q] ELSE net[q+1]
      BY <1>0, WithoutFacts
    <3>2. q \in 1 .. Len(net) /\ q+1 \in 1 .. Len(net)
      BY <1>0, <3>1
    <3> QED BY <3>1, <3>2
  <2>2. net' \in Seq(Datagram) /\ datagrams' \in Seq(Datagram) /\ NoneEmpty'
    BY <1>0, <1>8, <2>1, WithoutFacts, DisturbedTypes DEF Lose, Disturbed
  <2> QED BY <1>0, <1>8, <2>2 DEF Lose, Disturbed, Undisturbed, TypeOK, collector
<1>9. ASSUME NEW i \in 1 .. Len(net), Reorder(i) PROVE TypeOK' /\ NoneEmpty'
  <2>1. i < Len(net)
    BY <1>9 DEF Reorder
  <2>2. \A q \in 1 .. Len(Swapped(net, i)) : Swapped(net, i)[q].lo < Swapped(net, i)[q].hi
    <3> SUFFICES ASSUME NEW q \in 1 .. Len(Swapped(net, i))
                 PROVE  \E r \in 1 .. Len(net) : Swapped(net, i)[q] = net[r]
      BY DEF NoneEmpty
    <3> QED BY <1>0, <2>1, SwappedFacts
  <2>3. net' \in Seq(Datagram) /\ datagrams' \in Seq(Datagram) /\ NoneEmpty'
    BY <1>0, <1>9, <2>1, <2>2, SwappedFacts, DisturbedTypes DEF Reorder, Disturbed
  <2> QED BY <1>0, <1>9, <2>3 DEF Reorder, Disturbed, Undisturbed, TypeOK, collector
<1>10. ASSUME NEW i \in 1 .. Len(net), Duplicate(i) PROVE TypeOK' /\ NoneEmpty'
  <2>1. net' = Append(net, net[i]) /\ net[i] \in Datagram /\ net[i].lo < net[i].hi
    BY <1>0, <1>10 DEF Duplicate, NoneEmpty
  <2>2. net' \in Seq(Datagram) /\ \A q \in 1 .. Len(net') : net'[q].lo < net'[q].hi
    BY <1>0, <2>1, AppendFacts DEF NoneEmpty
  <2> QED BY <1>0, <1>10, <2>2 DEF Duplicate, Undisturbed, TypeOK, NoneEmpty, collector
<1> QED BY <1>1, <1>2, <1>3, <1>4, <1>5, <1>6, <1>7, <1>8, <1>9, <1>10 DEF Next, Environment

(* Nothing has been sent yet.                                              *)
LEMMA TypesInit == Init => TypeOK /\ NoneEmpty
<1> SUFFICES ASSUME Init PROVE TypeOK /\ NoneEmpty
  OBVIOUS
<1>1. SEQ_MOD \in Nat \ {0} /\ REFRESH \in Nat \ {0}
  BY ExporterAssumption
<1>2. net = <<>> /\ datagrams = <<>> /\ NoneEmpty
  BY DEF Init, NoneEmpty
<1>3. net \in Seq(Datagram) /\ datagrams \in Seq(Datagram)
  BY <1>2
<1>4. templates \in BOOLEAN /\ in_order \in BOOLEAN
  BY DEF Init
<1>5. 0 \in 0 .. SEQ_MOD-1 /\ 0 \in Nat /\ 0 \in Int /\ 0 \in 0 .. REFRESH
  BY <1>1
<1> QED BY <1>2, <1>3, <1>4, <1>5 DEF Init, TypeOK

(* The exporter's and the collector's variables keep their types: sequence *)
(* numbers wrap, clocks stop.                                              *)
THEOREM TypeCorrect == Spec => [](TypeOK /\ NoneEmpty)
  BY TypesInit, TypesNext, PTL DEF Spec

-----------------------------------------------------------------------------
(* Numbers.                                                                *)

(* Sequence numbers count the records handed over, modulo SEQ_MOD.         *)
Counts(d) == d.hi <= handed /\ d.seq = d.lo % SEQ_MOD

Numbered ==
  /\ seq = handed % SEQ_MOD
  /\ \A i \in 1 .. Len(net) : Counts(net[i])
  /\ \A i \in 1 .. Len(datagrams) : Counts(datagrams[i])
  /\ top <= handed
  /\ expected # None => expected = top % SEQ_MOD

(* Between two flushes nothing waits to be sent.                           *)
Idle == pc = "idle" => datagrams = <<>> /\ last_err = None

(* Every datagram of s was there before.                                   *)
FromBefore(s) ==
  \A q \in 1 .. Len(s) :
    \/ \E r \in 1 .. Len(net) : Same(s[q], net[r])
    \/ \E r \in 1 .. Len(datagrams) : Same(s[q], datagrams[r])

(* Only flush makes datagrams.                                             *)
LEMMA Origins ==
  ASSUME TypeOK, [Next]_vars
  PROVE  \/ /\ FromBefore(net') /\ FromBefore(datagrams')
            /\ UNCHANGED <<seq, handed>>
         \/ \E count \in BatchSizes : \E c \in Cuts(count) : Flush(count, c)
<1>0. net \in Seq(Datagram) /\ datagrams \in Seq(Datagram)
  BY DEF TypeOK
<1>a. FromBefore(net) /\ FromBefore(datagrams)
  BY DEF FromBefore, Same
<1>b. FromBefore(Unsteady(net)) /\ FromBefore(Unsteady(datagrams))
  BY <1>0, UnsteadyFacts DEF FromBefore
<1>1. CASE FlushNothing \/ Return \/ Tick \/ UNCHANGED vars
  BY <1>1, <1>a DEF FlushNothing, Return, Tick, vars, exporter
<1>2. ASSUME datagrams # <<>>
      PROVE  /\ \A q \in 1 .. Len(Tail(datagrams)) :
                  Tail(datagrams)[q] = datagrams[q+1] /\ q+1 \in 1 .. Len(datagrams)
             /\ Tail(datagrams) \in Seq(Datagram)
             /\ Head(datagrams) = datagrams[1] /\ 1 \in 1 .. Len(datagrams)
             /\ datagrams[1] \in Datagram
  BY <1>0, <1>2, TailFacts
<1>3. CASE Send
  <2>1. /\ datagrams # <<>> /\ net' = Append(net, Head(datagrams)) /\ datagrams' = Tail(datagrams)
        /\ UNCHANGED <<seq, handed>>
    BY <1>3 DEF Send
  <2>2. FromBefore(datagrams')
    BY <1>2, <2>1 DEF FromBefore, Same
  <2>3. FromBefore(net')
    BY <1>0, <1>2, <2>1, AppendFacts DEF FromBefore, Same
  <2> QED BY <2>1, <2>2, <2>3
<1>4. CASE SendFails
  <2>1. /\ datagrams # <<>> /\ net' = Unsteady(net) /\ datagrams' = Unsteady(Tail(datagrams))
        /\ UNCHANGED <<seq, handed>>
    BY <1>4 DEF SendFails
  <2>2. FromBefore(datagrams')
    <3>1. /\ Len(datagrams') = Len(Tail(datagrams))
          /\ \A q \in 1 .. Len(Tail(datagrams)) : Same(datagrams'[q], Tail(datagrams)[q])
      BY <1>2, <2>1, UnsteadyFacts
    <3> QED BY <1>2, <2>1, <3>1 DEF FromBefore
  <2> QED BY <1>b, <2>1, <2>2
<1>5. CASE Receive
  <2>1. net # <<>> /\ net' = Tail(net) /\ UNCHANGED <<datagrams, seq, handed>>
    BY <1>5 DEF Receive, exporter
  <2>2. \A q \in 1 .. Len(net') : net'[q] = net[q+1] /\ q+1 \in 1 .. Len(net)
    BY <1>0, <2>1, TailFacts
  <2>3. FromBefore(net')
    BY <2>2 DEF FromBefore, Same
  <2> QED BY <1>a, <2>1, <2>3
<1>6. CASE Restart
  BY <1>6, <1>b DEF Restart, Disturbed, Undisturbed
<1>7. ASSUME NEW i \in 1 .. Len(net), Lose(i) PROVE FromBefore(net')
  <2>1. net' = Unsteady(Without(net, i))
    BY <1>7 DEF Lose
  <2>2. /\ Without(net, i) \in Seq(Datagram) /\ Len(Without(net, i)) = Len(net) - 1
        /\ \A q \in 1 .. Len(net) - 1 : Without(net, i)[q] = IF q < i THEN net[q] ELSE net[q+1]
    BY <1>0, WithoutFacts
  <2>3. /\ Len(net') = Len(net) - 1
        /\ \A q \in 1 .. Len(net) - 1 : Same(net'[q], Without(net, i)[q])
    BY <2>1, <2>2, UnsteadyFacts
  <2>4. \A q \in 1 .. Len(net) - 1 : q \in 1 .. Len(net) /\ q+1 \in 1 .. Len(net)
    BY <1>0
  <2>5. \A q \in 1 .. Len(net) - 1 : \E r \in 1 .. Len(net) : Without(net, i)[q] = net[r]
    BY <2>2, <2>4
  <2> QED BY <2>3, <2>5 DEF FromBefore
<1>8. ASSUME NEW i \in 1 .. Len(net), Reorder(i) PROVE FromBefore(net')
  <2>1. net' = Unsteady(Swapped(net, i)) /\ i < Len(net)
    BY <1>8 DEF Reorder
  <2>2. /\ Swapped(net, i) \in Seq(Datagram) /\ Len(Swapped(net, i)) = Len(net)
        /\ \A q \in 1 .. Len(net) : \E r \in 1 .. Len(net) : Swapped(net, i)[q] = net[r]
    BY <1>0, <2>1, SwappedFacts
  <2>3. /\ Len(net') = Len(net)
        /\ \A q \in 1 .. Len(net) : Same(net'[q], Swapped(net, i)[q])
    BY <2>1, <2>2, UnsteadyFacts
  <2> QED BY <2>2, <2>3 DEF FromBefore
<1>9. ASSUME NEW i \in 1 .. Len(net), Duplicate(i) PROVE FromBefore(net')
  <2>1. net' = Append(net, net[i]) /\ net[i] \in Datagram
    BY <1>0, <1>9 DEF Duplicate
  <2>2. /\ Len(net') = Len(net) + 1 /\ Len(net) \in Nat
        /\ \A q \in 1 .. Len(net) : net'[q] = net[q]
        /\ net'[Len(net) + 1] = net[i]
    BY <1>0, <2>1, AppendFacts
  <2>3. ASSUME NEW q \in 1 .. Len(net') PROVE \E r \in 1 .. Len(net) : net'[q] = net[r]
    <3>1. q \in 1 .. Len(net) \/ q = Len(net) + 1
      BY <2>2
    <3> QED BY <2>2, <3>1
  <2> QED BY <2>3 DEF FromBefore, Same
<1>10. ASSUME NEW i \in 1 .. Len(net), Lose(i) \/ Reorder(i) \/ Duplicate(i)
       PROVE  FromBefore(net') /\ FromBefore(datagrams') /\ UNCHANGED <<seq, handed>>
  BY <1>a, <1>b, <1>7, <1>8, <1>9, <1>10 DEF Lose, Reorder, Duplicate, Disturbed, Undisturbed
<1> QED BY <1>1, <1>3, <1>4, <1>5, <1>6, <1>10 DEF Next, Environment

(* Only a datagram received, or a restart, changes what the collector has. *)
LEMMA CollectorSteps ==
  ASSUME [Next]_vars
  PROVE  Receive \/ Restart \/ UNCHANGED <<expected, top, gap, hole>>
  BY DEF Next, Environment, FlushNothing, Flush, Send, SendFails, Return, Tick, Lose, Reorder,
         Duplicate, Undisturbed, vars, collector

(* Between two flushes nothing waits, before and after every step.         *)
LEMMA IdleNext == TypeOK /\ Idle /\ [Next]_vars => Idle'
<1> SUFFICES ASSUME TypeOK, Idle, [Next]_vars PROVE Idle'
  OBVIOUS
<1>0. datagrams \in Seq(Datagram)
  BY DEF TypeOK
<1>1. Unsteady(<<>>) = <<>>
  BY DEF Unsteady
<1>2. CASE FlushNothing \/ Tick \/ Receive \/ Return \/ UNCHANGED vars
  BY <1>2 DEF FlushNothing, Tick, Receive, Return, Idle, exporter, vars
<1>3. CASE Send \/ SendFails
  BY <1>3 DEF Send, SendFails, Idle
<1>4. ASSUME NEW count \in BatchSizes, NEW c \in Cuts(count), Flush(count, c) PROVE Idle'
  BY <1>4 DEF Flush, Idle
<1>5. CASE Restart
  BY <1>1, <1>5 DEF Restart, Disturbed, Undisturbed, Idle
<1>6. ASSUME NEW i \in 1 .. Len(net), Lose(i) \/ Reorder(i) \/ Duplicate(i) PROVE Idle'
  BY <1>1, <1>6 DEF Lose, Reorder, Duplicate, Disturbed, Undisturbed, Idle
<1> QED BY <1>2, <1>3, <1>4, <1>5, <1>6 DEF Next, Environment

(* Every step keeps the numbers in line.                                   *)
LEMMA NumberedNext == TypeOK /\ NoneEmpty /\ Numbered /\ [Next]_vars => Numbered'
<1> SUFFICES ASSUME TypeOK, NoneEmpty, Numbered, [Next]_vars PROVE Numbered'
  OBVIOUS
<1>0. /\ SEQ_MOD \in Nat \ {0} /\ handed \in Nat /\ top \in Nat /\ top <= handed
      /\ net \in Seq(Datagram) /\ datagrams \in Seq(Datagram)
  BY ExporterAssumption DEF TypeOK, Numbered
<1>1. /\ seq' = handed' % SEQ_MOD /\ handed <= handed' /\ handed' \in Nat
      /\ \A i \in 1 .. Len(net') : Counts(net[i])'
      /\ \A i \in 1 .. Len(datagrams') : Counts(datagrams[i])'
  <2>1. CASE FromBefore(net') /\ FromBefore(datagrams') /\ UNCHANGED <<seq, handed>>
    <3>1. /\ \A r \in 1 .. Len(net) : net[r].hi <= handed /\ net[r].seq = net[r].lo % SEQ_MOD
          /\ \A r \in 1 .. Len(datagrams) :
               datagrams[r].hi <= handed /\ datagrams[r].seq = datagrams[r].lo % SEQ_MOD
      BY DEF Numbered, Counts
    <3>2. /\ \A q \in 1 .. Len(net') :
               net'[q].hi <= handed /\ net'[q].seq = net'[q].lo % SEQ_MOD
          /\ \A q \in 1 .. Len(datagrams') :
               datagrams'[q].hi <= handed /\ datagrams'[q].seq = datagrams'[q].lo % SEQ_MOD
      BY <2>1, <3>1 DEF FromBefore, Same
    <3>3. handed' = handed /\ seq' = seq /\ seq = handed % SEQ_MOD
      BY <2>1 DEF Numbered
    <3>4. handed <= handed' /\ handed' \in Nat
      BY <1>0, <3>3
    <3> QED BY <3>2, <3>3, <3>4 DEF Counts
  <2>2. ASSUME NEW count \in BatchSizes, NEW c \in Cuts(count), Flush(count, c)
        PROVE  /\ seq' = handed' % SEQ_MOD /\ handed <= handed' /\ handed' \in Nat
               /\ \A i \in 1 .. Len(net') : Counts(net[i])'
               /\ \A i \in 1 .. Len(datagrams') : Counts(datagrams[i])'
    <3>1. /\ seq' = (seq + count) % SEQ_MOD /\ handed' = handed + count /\ count \in Nat
          /\ net' = net /\ seq = handed % SEQ_MOD
      BY <2>2, ExporterAssumption DEF Flush, Advanced, Numbered
    <3>2. seq' = (handed + count) % SEQ_MOD
      BY <1>0, <3>1, WrapAdd
    <3>3. PICK h : h = handed + count
      OBVIOUS
    <3>4. h \in Nat /\ handed <= h /\ handed' = h
      BY <1>0, <3>1, <3>3
    <3>5. ASSUME NEW i \in 1 .. Len(net') PROVE Counts(net[i])'
      <4>1. net[i] \in Datagram /\ net[i].hi <= handed /\ net[i].seq = net[i].lo % SEQ_MOD
        BY <1>0, <3>1 DEF Numbered, Counts
      <4>2. net[i].hi \in Nat
        BY <4>1 DEF Datagram
      <4>3. net[i].hi <= h
        BY <1>0, <3>4, <4>1, <4>2
      <4> QED BY <3>1, <3>4, <4>1, <4>3 DEF Counts
    <3>6. ASSUME NEW i \in 1 .. Len(datagrams') PROVE Counts(datagrams[i])'
      <4>1. PICK d : d = datagrams'[i]
        OBVIOUS
      <4>2. /\ handed <= d.lo /\ d.hi <= handed + count
            /\ d.seq = (seq + (d.lo - handed)) % SEQ_MOD
            /\ datagrams' \in Seq(Datagram)
        BY <2>2, <4>1, FlushBuilds
      <4>3. d \in Datagram
        BY <4>1, <4>2
      <4>4. PICK x : x = d.lo - handed
        OBVIOUS
      <4>5. d.lo \in Nat
        BY <4>3 DEF Datagram
      <4>6. x \in Nat /\ handed + x = d.lo
        BY <1>0, <4>2, <4>4, <4>5
      <4>7. ((handed % SEQ_MOD) + x) % SEQ_MOD = (handed + x) % SEQ_MOD
        BY <1>0, <4>6, WrapAdd
      <4>8. d.seq = d.lo % SEQ_MOD
        BY <3>1, <4>2, <4>4, <4>6, <4>7
      <4> QED BY <3>3, <3>4, <4>1, <4>2, <4>8 DEF Counts
    <3> QED BY <3>1, <3>2, <3>3, <3>4, <3>5, <3>6
  <2> QED BY <2>1, <2>2, Origins
<1>2. top' <= handed' /\ (expected' # None => expected' = top' % SEQ_MOD)
  <2>1. CASE Receive
    <3>1. /\ net # <<>> /\ top' = net[1].hi /\ handed' = handed
          /\ expected' = (net[1].seq + Records(net[1])) % SEQ_MOD
      BY <1>0, <2>1, TailFacts DEF Receive, exporter
    <3>2. /\ net[1] \in Datagram /\ net[1].lo < net[1].hi /\ net[1].hi <= handed
          /\ net[1].seq = net[1].lo % SEQ_MOD
      BY <1>0, <3>1, TailFacts DEF NoneEmpty, Numbered, Counts
    <3>3. net[1].lo \in Nat /\ net[1].hi \in Nat
      BY <3>2 DEF Datagram
    <3>4. /\ Records(net[1]) \in Nat /\ net[1].lo + Records(net[1]) = net[1].hi
      BY <3>2, <3>3 DEF Records
    <3>5. PICK l, x : l = net[1].lo /\ x = Records(net[1])
      OBVIOUS
    <3>6. l \in Nat /\ x \in Nat /\ l + x = net[1].hi
      BY <3>3, <3>4, <3>5
    <3>7. ((l % SEQ_MOD) + x) % SEQ_MOD = (l + x) % SEQ_MOD
      BY <1>0, <3>6, WrapAdd
    <3>8. (net[1].seq + Records(net[1])) % SEQ_MOD = net[1].hi % SEQ_MOD
      BY <3>2, <3>5, <3>6, <3>7
    <3> QED BY <3>1, <3>2, <3>8
  <2>2. CASE Restart
    BY <1>0, <2>2 DEF Restart, Undisturbed
  <2>3. CASE UNCHANGED <<expected, top, gap, hole>>
    <3>1. PICK h : h = handed'
      OBVIOUS
    <3>2. top <= h
      BY <1>0, <1>1, <3>1
    <3> QED BY <2>3, <3>1, <3>2 DEF Numbered
  <2> QED BY <2>1, <2>2, <2>3, CollectorSteps
<1> QED BY <1>1, <1>2 DEF Numbered

(* Nothing has been numbered yet.                                          *)
LEMMA NumberedInit == Init => Numbered /\ Idle
<1> SUFFICES ASSUME Init PROVE Numbered /\ Idle
  OBVIOUS
<1>1. seq = 0 /\ handed = 0 /\ top = 0 /\ net = <<>> /\ datagrams = <<>>
  BY DEF Init
<1>2. 0 % SEQ_MOD = 0
  BY ExporterAssumption, Remainder, SEQ_MOD * 0 + 0 = 0
<1> QED BY <1>1, <1>2 DEF Init, Numbered, Idle, None

-----------------------------------------------------------------------------
(* Order.                                                                  *)

(* What is on its way to the collector, the oldest datagram first.         *)
line == net \o datagrams

(* The records of s follow t and one another, perhaps with holes.          *)
Rising(t, s) ==
  /\ s # <<>> => t <= s[1].lo
  /\ \A i \in 1 .. Len(s) - 1 : s[i].hi <= s[i+1].lo

Chained == in_order => Rising(top, line)

(* Two sequences that differ at most in what is steady.                    *)
Similar(s, u) == Len(s) = Len(u) /\ \A i \in 1 .. Len(s) : Same(s[i], u[i])

(* One sequence behind another.                                            *)
LEMMA ConcatFacts ==
  ASSUME NEW s \in Seq(Datagram), NEW u \in Seq(Datagram)
  PROVE  /\ s \o u \in Seq(Datagram) /\ Len(s \o u) = Len(s) + Len(u)
         /\ Len(s) \in Nat /\ Len(u) \in Nat
         /\ \A q \in 1 .. Len(s) : (s \o u)[q] = s[q]
         /\ \A q \in 1 .. Len(u) : (s \o u)[Len(s) + q] = u[q]
         /\ \A q \in 1 .. Len(s) + Len(u) :
              (s \o u)[q] = IF q <= Len(s) THEN s[q] ELSE u[q - Len(s)]
  OBVIOUS

(* What is similar rises alike.                                            *)
LEMMA SimilarRises ==
  ASSUME NEW s \in Seq(Datagram), NEW u \in Seq(Datagram), NEW t, Similar(u, s), Rising(t, s)
  PROVE  Rising(t, u)
<1>1. Len(s) \in Nat /\ Len(u) = Len(s) /\ \A i \in 1 .. Len(s) : u[i].lo = s[i].lo /\ u[i].hi = s[i].hi
  BY DEF Similar, Same
<1>2. u # <<>> => s # <<>> /\ 1 \in 1 .. Len(s)
  BY <1>1
<1>3. \A i \in 1 .. Len(s) - 1 : i \in 1 .. Len(s) /\ i+1 \in 1 .. Len(s)
  BY <1>1
<1> QED BY <1>1, <1>2, <1>3 DEF Rising

(* What loses a datagram still rises.                                      *)
LEMMA WithoutRises ==
  ASSUME NEW s \in Seq(Datagram), NEW t \in Nat, NEW i \in 1 .. Len(s),
         \A q \in 1 .. Len(s) : s[q].lo < s[q].hi, Rising(t, s)
  PROVE  Rising(t, Without(s, i))
<1>1. \A q \in 1 .. Len(s) : s[q].lo \in Nat /\ s[q].hi \in Nat
  <2>1. \A d \in Datagram : d.lo \in Nat /\ d.hi \in Nat
    BY DEF Datagram
  <2> QED BY <2>1
<1>2. /\ Without(s, i) \in Seq(Datagram) /\ Len(Without(s, i)) = Len(s) - 1
      /\ \A q \in 1 .. Len(s) - 1 : Without(s, i)[q] = IF q < i THEN s[q] ELSE s[q+1]
  BY WithoutFacts
<1>n. Len(s) \in Nat \ {0}
  OBVIOUS
<1> HIDE DEF Without
<1>3. \A q \in 1 .. Len(s) - 1 : q \in 1 .. Len(s) /\ q+1 \in 1 .. Len(s) /\ s[q].hi <= s[q+1].lo
  BY <1>n DEF Rising
<1>4. 1 \in 1 .. Len(s) /\ t <= s[1].lo
  BY <1>n DEF Rising
<1>5. Without(s, i) # <<>> => t <= Without(s, i)[1].lo
  <2> SUFFICES ASSUME 1 \in 1 .. Len(s) - 1 PROVE t <= Without(s, i)[1].lo
    BY <1>2
  <2>1. t <= s[1].lo /\ s[1].lo < s[1].hi /\ s[1].hi <= s[2].lo /\ 2 \in 1 .. Len(s)
    BY <1>3, <1>4
  <2>2. t <= s[2].lo
    BY <1>1, <1>4, <2>1
  <2> QED BY <1>2, <1>4, <2>2
<1>6. ASSUME NEW q \in 1 .. Len(s) - 2
      PROVE  Without(s, i)[q].hi <= Without(s, i)[q+1].lo
  <2>1. /\ q \in 1 .. Len(s) - 1 /\ q+1 \in 1 .. Len(s) - 1 /\ (q+1) + 1 = q + 2
        /\ q \in 1 .. Len(s) /\ q+1 \in 1 .. Len(s) /\ q+2 \in 1 .. Len(s)
    BY <1>n
  <2>2. /\ s[q].hi <= s[q+1].lo /\ s[q+1].lo < s[q+1].hi /\ s[q+1].hi <= s[q+2].lo
    BY <1>3, <2>1
  <2>a. s[q].hi \in Nat /\ s[q+1].lo \in Nat /\ s[q+1].hi \in Nat /\ s[q+2].lo \in Nat
    BY <1>1, <2>1
  <2>3. s[q].hi <= s[q+2].lo
    BY <2>a, <2>2
  <2>4. CASE q+1 < i
    <3>1. q < i /\ i \in Int
      BY <2>4
    <3> QED BY <1>2, <2>1, <2>2, <2>4, <3>1
  <2>5. CASE q+1 = i
    BY <1>2, <2>1, <2>3, <2>5
  <2>6. CASE i < q+1
    BY <1>2, <2>1, <2>2, <2>6
  <2> QED BY <2>4, <2>5, <2>6
<1> QED BY <1>2, <1>5, <1>6 DEF Rising

(* Nothing on the line is empty.                                           *)
LEMMA LineTypes ==
  ASSUME TypeOK, NoneEmpty
  PROVE  /\ line \in Seq(Datagram) /\ Len(line) = Len(net) + Len(datagrams)
         /\ \A q \in 1 .. Len(line) : line[q].lo < line[q].hi
<1>1. net \in Seq(Datagram) /\ datagrams \in Seq(Datagram)
  BY DEF TypeOK
<1>2. /\ line \in Seq(Datagram) /\ Len(line) = Len(net) + Len(datagrams)
      /\ \A q \in 1 .. Len(net) + Len(datagrams) :
           line[q] = IF q <= Len(net) THEN net[q] ELSE datagrams[q - Len(net)]
  BY <1>1, ConcatFacts DEF line
<1>3. ASSUME NEW q \in 1 .. Len(line) PROVE line[q].lo < line[q].hi
  <2>1. CASE q <= Len(net)
    <3>1. q \in 1 .. Len(net)
      BY <1>1, <1>2, <2>1
    <3> QED BY <1>2, <2>1, <3>1 DEF NoneEmpty
  <2>2. CASE ~(q <= Len(net))
    <3>1. q - Len(net) \in 1 .. Len(datagrams)
      BY <1>1, <1>2, <2>2
    <3> QED BY <1>2, <2>2, <3>1 DEF NoneEmpty
  <2> QED BY <2>1, <2>2
<1> QED BY <1>2, <1>3

(* How each step changes the line.                                         *)
LEMMA LineSteps ==
  ASSUME TypeOK, NoneEmpty, Idle, [Next]_vars
  PROVE  \/ FlushNothing /\ line' = line
         \/ Send /\ line' = line
         \/ Return /\ line' = line
         \/ Tick /\ line' = line
         \/ UNCHANGED vars /\ line' = line
         \/ SendFails /\ Similar(line', Without(line, Len(net) + 1)) /\ Len(net) + 1 \in 1 .. Len(line)
         \/ \E i \in 1 .. Len(net) : Lose(i) /\ Similar(line', Without(line, i))
         \/ Receive /\ line # <<>> /\ line' = Tail(line) /\ line[1] = net[1]
         \/ Restart /\ Similar(line', line)
         \/ \E i \in 1 .. Len(net) : Reorder(i) \/ Duplicate(i)
         \/ \E count \in BatchSizes : \E c \in Cuts(count) :
              Flush(count, c) /\ line = net /\ line' = net \o datagrams'
<1>0. /\ net \in Seq(Datagram) /\ datagrams \in Seq(Datagram) /\ line \in Seq(Datagram)
      /\ Len(net) \in Nat /\ Len(datagrams) \in Nat /\ Len(line) = Len(net) + Len(datagrams)
      /\ \A q \in 1 .. Len(net) + Len(datagrams) :
           line[q] = IF q <= Len(net) THEN net[q] ELSE datagrams[q - Len(net)]
  BY ConcatFacts DEF TypeOK, line
<1>1. CASE FlushNothing \/ Return \/ Tick \/ UNCHANGED vars
  <2>1. UNCHANGED <<net, datagrams>>
    BY <1>1 DEF FlushNothing, Return, Tick, vars, exporter
  <2> QED BY <1>1, <2>1 DEF line
<1>2. CASE Send
  <2>1. datagrams # <<>> /\ net' = Append(net, Head(datagrams)) /\ datagrams' = Tail(datagrams)
    BY <1>2 DEF Send
  <2>2. Append(net, Head(datagrams)) \o Tail(datagrams) = net \o datagrams
    BY <1>0, <2>1
  <2> QED BY <1>2, <2>1, <2>2 DEF line
<1>3. CASE SendFails
  <2>1. datagrams # <<>> /\ net' = Unsteady(net) /\ datagrams' = Unsteady(Tail(datagrams))
    BY <1>3 DEF SendFails
  <2> DEFINE n == Len(net)
             a == Unsteady(net)
             b == Unsteady(Tail(datagrams))
             w == Without(line, n + 1)
  <2>2. /\ a \in Seq(Datagram) /\ Len(a) = n /\ \A q \in 1 .. n : Same(a[q], net[q])
    BY <1>0, UnsteadyFacts
  <2>3. /\ Tail(datagrams) \in Seq(Datagram) /\ Len(datagrams) \in Nat \ {0}
        /\ Len(Tail(datagrams)) = Len(datagrams) - 1
        /\ \A q \in 1 .. Len(datagrams) - 1 : Tail(datagrams)[q] = datagrams[q+1]
    BY <1>0, <2>1, TailFacts
  <2>4. /\ b \in Seq(Datagram) /\ Len(b) = Len(datagrams) - 1
        /\ \A q \in 1 .. Len(datagrams) - 1 : Same(b[q], datagrams[q+1])
    BY <2>3, UnsteadyFacts
  <2>5. n + 1 \in 1 .. Len(line) /\ n \in Nat
    BY <1>0, <2>3
  <2>6. /\ Len(w) = Len(line) - 1
        /\ \A q \in 1 .. Len(line) - 1 : w[q] = IF q < n + 1 THEN line[q] ELSE line[q+1]
    BY <1>0, <2>5, WithoutFacts
  <2>7. line' = a \o b
    BY <2>1 DEF line
  <2> HIDE DEF a, b, w
  <2>8. /\ Len(line') = Len(a) + Len(b)
        /\ \A q \in 1 .. Len(a) + Len(b) : line'[q] = IF q <= Len(a) THEN a[q] ELSE b[q - Len(a)]
    BY <2>2, <2>4, <2>7, ConcatFacts
  <2>9. Len(line') = Len(w)
    BY <1>0, <2>2, <2>3, <2>4, <2>6, <2>8
  <2>10. ASSUME NEW q \in 1 .. Len(line) - 1 PROVE Same(line'[q], w[q])
    <3>1. q \in 1 .. Len(a) + Len(b) /\ q \in 1 .. Len(net) + Len(datagrams)
          /\ q+1 \in 1 .. Len(net) + Len(datagrams)
      BY <1>0, <2>2, <2>3, <2>4
    <3>2. CASE q <= n
      <4>1. q \in 1 .. n /\ line'[q] = a[q] /\ w[q] = line[q] /\ line[q] = net[q]
        BY <1>0, <2>2, <2>5, <2>6, <2>8, <3>1, <3>2
      <4> QED BY <2>2, <4>1
    <3>3. CASE ~(q <= n)
      <4>1. q - n \in 1 .. Len(datagrams) - 1 /\ (q+1) - n = (q - n) + 1 /\ ~(q < n+1) /\ ~(q+1 <= n)
        BY <1>0, <2>5, <3>3
      <4>2. line'[q] = b[q - n] /\ w[q] = line[q+1] /\ line[q+1] = datagrams[(q+1) - n]
        BY <1>0, <2>2, <2>6, <2>8, <3>1, <3>3, <4>1
      <4>3. Same(b[q - n], datagrams[(q - n) + 1])
        BY <2>4, <4>1
      <4> QED BY <4>1, <4>2, <4>3
    <3> QED BY <3>2, <3>3
  <2>11. Similar(line', w)
    BY <2>6, <2>9, <2>10 DEF Similar
  <2> QED BY <1>3, <2>5, <2>11 DEF w
<1>4. ASSUME NEW i \in 1 .. Len(net), Lose(i) PROVE Similar(line', Without(line, i))
  <2> DEFINE n == Len(net)
             v == Without(net, i)
             a == Unsteady(v)
             b == Unsteady(datagrams)
             w == Without(line, i)
  <2>1. line' = a \o b
    BY <1>4 DEF Lose, Disturbed, line
  <2>2. /\ v \in Seq(Datagram) /\ Len(v) = n - 1
        /\ \A q \in 1 .. n - 1 : v[q] = IF q < i THEN net[q] ELSE net[q+1]
    BY <1>0, WithoutFacts
  <2>3. i \in 1 .. Len(line) /\ n \in Nat \ {0}
    BY <1>0
  <2>4. /\ Len(w) = Len(line) - 1
        /\ \A q \in 1 .. Len(line) - 1 : w[q] = IF q < i THEN line[q] ELSE line[q+1]
    BY <1>0, <2>3, WithoutFacts
  <2> HIDE DEF v, w
  <2>5. /\ a \in Seq(Datagram) /\ Len(a) = n - 1 /\ \A q \in 1 .. n - 1 : Same(a[q], v[q])
    BY <2>2, UnsteadyFacts
  <2>6. /\ b \in Seq(Datagram) /\ Len(b) = Len(datagrams)
        /\ \A q \in 1 .. Len(datagrams) : Same(b[q], datagrams[q])
    BY <1>0, UnsteadyFacts
  <2> HIDE DEF a, b
  <2>7. /\ Len(line') = Len(a) + Len(b)
        /\ \A q \in 1 .. Len(a) + Len(b) : line'[q] = IF q <= Len(a) THEN a[q] ELSE b[q - Len(a)]
    BY <2>1, <2>5, <2>6, ConcatFacts
  <2>8. Len(line') = Len(w)
    BY <1>0, <2>3, <2>4, <2>5, <2>6, <2>7
  <2>9. ASSUME NEW q \in 1 .. Len(line) - 1 PROVE Same(line'[q], w[q])
    <3>1. q \in 1 .. Len(a) + Len(b) /\ q \in 1 .. Len(net) + Len(datagrams)
          /\ q+1 \in 1 .. Len(net) + Len(datagrams)
      BY <1>0, <2>3, <2>5, <2>6
    <3>2. CASE q <= n - 1
      <4>1. q \in 1 .. n - 1 /\ q <= n /\ q+1 <= n
        BY <2>3, <3>2
      <4>2. line'[q] = a[q] /\ line[q] = net[q] /\ line[q+1] = net[q+1]
        BY <1>0, <2>5, <2>7, <3>1, <4>1
      <4>3. w[q] = v[q]
        BY <2>2, <2>4, <4>1, <4>2
      <4> QED BY <2>5, <4>1, <4>2, <4>3
    <3>3. CASE ~(q <= n - 1)
      <4>1. q - (n - 1) \in 1 .. Len(datagrams) /\ (q+1) - n = q - (n - 1) /\ ~(q < i) /\ ~(q+1 <= n)
        BY <1>0, <2>3, <3>3
      <4>2. line'[q] = b[q - (n - 1)] /\ w[q] = line[q+1] /\ line[q+1] = datagrams[(q+1) - n]
        BY <1>0, <2>4, <2>5, <2>7, <3>1, <3>3, <4>1
      <4>3. Same(b[q - (n - 1)], datagrams[q - (n - 1)])
        BY <2>6, <4>1
      <4> QED BY <4>1, <4>2, <4>3
    <3> QED BY <3>2, <3>3
  <2> QED BY <2>4, <2>8, <2>9 DEF Similar, w
<1>5. CASE Receive
  <2>1. net # <<>> /\ net' = Tail(net) /\ datagrams' = datagrams
    BY <1>5 DEF Receive, exporter
  <2>2. Tail(net) \o datagrams = Tail(net \o datagrams) /\ net \o datagrams # <<>>
        /\ (net \o datagrams)[1] = net[1]
    BY <1>0, <2>1
  <2> QED BY <1>5, <2>1, <2>2 DEF line
<1>6. CASE Restart
  <2>1. line' = Unsteady(net) \o Unsteady(datagrams)
    BY <1>6 DEF Restart, Disturbed, line
  <2> DEFINE a == Unsteady(net)
             b == Unsteady(datagrams)
  <2>2. /\ a \in Seq(Datagram) /\ Len(a) = Len(net) /\ \A q \in 1 .. Len(net) : Same(a[q], net[q])
    BY <1>0, UnsteadyFacts
  <2>3. /\ b \in Seq(Datagram) /\ Len(b) = Len(datagrams)
        /\ \A q \in 1 .. Len(datagrams) : Same(b[q], datagrams[q])
    BY <1>0, UnsteadyFacts
  <2>4. line' = a \o b
    BY <2>1
  <2> HIDE DEF a, b
  <2>5. /\ Len(line') = Len(a) + Len(b)
        /\ \A q \in 1 .. Len(a) + Len(b) : line'[q] = IF q <= Len(a) THEN a[q] ELSE b[q - Len(a)]
    BY <2>2, <2>3, <2>4, ConcatFacts
  <2>6. ASSUME NEW q \in 1 .. Len(line') PROVE Same(line'[q], line[q])
    <3>1. CASE q <= Len(net)
      BY <1>0, <2>2, <2>3, <2>5, <3>1
    <3>2. CASE ~(q <= Len(net))
      <4>1. q - Len(net) \in 1 .. Len(datagrams)
        BY <1>0, <2>2, <2>3, <2>5, <3>2
      <4> QED BY <1>0, <2>2, <2>3, <2>5, <3>2, <4>1
    <3> QED BY <3>1, <3>2
  <2> QED BY <1>0, <1>6, <2>2, <2>3, <2>5, <2>6 DEF Similar
<1>7. ASSUME NEW count \in BatchSizes, NEW c \in Cuts(count), Flush(count, c)
      PROVE  line = net /\ line' = net \o datagrams'
  <2>1. datagrams = <<>> /\ net' = net
    BY <1>7 DEF Flush, Idle
  <2>2. net \o <<>> = net
    BY <1>0
  <2> QED BY <2>1, <2>2 DEF line
<1> QED BY <1>1, <1>2, <1>3, <1>4, <1>5, <1>6, <1>7 DEF Next, Environment

(* The line stays in order unless the network duplicates or reorders.      *)
LEMMA ChainedNext ==
  TypeOK /\ NoneEmpty /\ Idle /\ Numbered /\ Chained /\ [Next]_vars => Chained'
<1> SUFFICES ASSUME TypeOK, NoneEmpty, Idle, Numbered, Chained, [Next]_vars, in_order'
             PROVE  Rising(top', line')
  BY DEF Chained
<1>0. /\ line \in Seq(Datagram) /\ line' \in Seq(Datagram) /\ top \in Nat
      /\ \A q \in 1 .. Len(line) : line[q].lo < line[q].hi
  <2>1. TypeOK' /\ NoneEmpty'
    BY TypesNext
  <2>2. net' \in Seq(Datagram) /\ datagrams' \in Seq(Datagram)
    BY <2>1 DEF TypeOK
  <2>3. line' \in Seq(Datagram)
    BY <2>2 DEF line
  <2> QED BY <2>3, LineTypes DEF TypeOK
<1>1. in_order
  BY DEF Next, Environment, FlushNothing, Flush, Send, SendFails, Return, Tick, Receive, Restart,
         Lose, Reorder, Duplicate, vars
<1>2. Rising(top, line)
  BY <1>1 DEF Chained
<1>3. CASE line' = line /\ top' = top
  BY <1>2, <1>3
<1>4. ASSUME NEW i \in 1 .. Len(line), Similar(line', Without(line, i)), top' = top
      PROVE  Rising(top', line')
  <2>1. Rising(top, Without(line, i)) /\ Without(line, i) \in Seq(Datagram)
    BY <1>0, <1>2, WithoutRises, WithoutFacts
  <2> QED BY <1>0, <1>4, <2>1, SimilarRises
<1>5. CASE Receive /\ line # <<>> /\ line' = Tail(line) /\ line[1] = net[1]
  <2>1. top' = line[1].hi
    BY <1>5, TailFacts DEF Receive, TypeOK
  <2>2. /\ Len(line') = Len(line) - 1 /\ Len(line) \in Nat \ {0}
        /\ \A q \in 1 .. Len(line) - 1 : line'[q] = line[q+1]
    BY <1>0, <1>5, TailFacts
  <2>3. \A q \in 1 .. Len(line) - 1 : line[q].hi <= line[q+1].lo
    BY <1>2 DEF Rising
  <2>4. line' # <<>> => top' <= line'[1].lo
    <3>1. line' # <<>> => 1 \in 1 .. Len(line) - 1
      BY <1>0, <2>2
    <3> QED BY <2>1, <2>2, <2>3, <3>1
  <2>5. \A q \in 1 .. Len(line') - 1 : line'[q].hi <= line'[q+1].lo
    <3> SUFFICES ASSUME NEW q \in 1 .. Len(line') - 1 PROVE line'[q].hi <= line'[q+1].lo
      OBVIOUS
    <3>1. q \in 1 .. Len(line) - 1 /\ q+1 \in 1 .. Len(line) - 1
      BY <2>2
    <3> QED BY <2>2, <2>3, <3>1
  <2> QED BY <2>4, <2>5 DEF Rising
<1>6. CASE Restart /\ Similar(line', line)
  <2>1. top' = 0 /\ Rising(top, line')
    BY <1>0, <1>2, <1>6, SimilarRises DEF Restart
  <2>2. line' # <<>> => 0 <= line'[1].lo
    <3>1. \A d \in Datagram : d.lo \in Nat
      BY DEF Datagram
    <3>2. line' # <<>> => line'[1] \in Datagram
      BY <1>0
    <3> QED BY <3>1, <3>2
  <2> QED BY <2>1, <2>2 DEF Rising
<1>7. ASSUME NEW count \in BatchSizes, NEW c \in Cuts(count),
             Flush(count, c), line = net, line' = net \o datagrams'
      PROVE  Rising(top', line')
  <2>1. PICK s : s = datagrams'
    OBVIOUS
  <2>2. /\ s \in Seq(Datagram) /\ s # <<>>
        /\ \A q \in 1 .. Len(s) : handed <= s[q].lo
        /\ \A q \in 1 .. Len(s) - 1 : s[q].hi <= s[q+1].lo
    BY <1>7, <2>1, FlushBuilds
  <2>3. /\ net \in Seq(Datagram) /\ handed \in Nat /\ top <= handed
        /\ \A q \in 1 .. Len(net) : net[q].hi <= handed
    BY DEF TypeOK, Numbered, Counts
  <2>4. \A d \in Datagram : d.lo \in Nat /\ d.hi \in Nat
    BY DEF Datagram
  <2>5. /\ \A q \in 1 .. Len(s) : s[q].lo \in Nat
        /\ \A q \in 1 .. Len(net) : net[q].hi \in Nat
    BY <2>2, <2>3, <2>4
  <2>6. PICK n : n = Len(net)
    OBVIOUS
  <2>7. /\ line' = net \o s /\ Len(line') = n + Len(s) /\ n \in Nat /\ Len(s) \in Nat \ {0}
        /\ \A q \in 1 .. n + Len(s) : line'[q] = IF q <= n THEN net[q] ELSE s[q - n]
    BY <1>7, <2>1, <2>2, <2>3, <2>6, ConcatFacts
  <2>8. top' = top
    BY <1>7 DEF Flush, collector
  <2>9. top <= line'[1].lo
    <3>1. CASE n = 0
      <4>1. line'[1] = s[1] /\ 1 \in 1 .. Len(s)
        BY <2>7, <3>1
      <4>2. handed <= s[1].lo /\ s[1].lo \in Nat
        BY <2>2, <2>5, <4>1
      <4> QED BY <1>0, <2>3, <4>1, <4>2
    <3>2. CASE n # 0
      BY <1>2, <1>7, <2>6, <2>7, <3>2 DEF Rising
    <3> QED BY <3>1, <3>2
  <2>10. ASSUME NEW q \in 1 .. Len(line') - 1 PROVE line'[q].hi <= line'[q+1].lo
    <3>1. CASE q < n
      <4>1. q \in 1 .. n - 1 /\ line'[q] = net[q] /\ line'[q+1] = net[q+1]
        BY <2>7, <3>1
      <4> QED BY <1>2, <1>7, <2>6, <4>1 DEF Rising
    <3>2. CASE q = n
      <4>1. q \in 1 .. n /\ 1 \in 1 .. Len(s) /\ line'[q] = net[q] /\ line'[q+1] = s[1]
        BY <2>7, <3>2
      <4>2. net[q].hi <= handed /\ net[q].hi \in Nat
        BY <2>3, <2>5, <2>6, <4>1
      <4>3. handed <= s[1].lo /\ s[1].lo \in Nat
        BY <2>2, <2>5, <4>1
      <4> QED BY <2>3, <4>1, <4>2, <4>3
    <3>3. CASE n < q
      <4>1. q - n \in 1 .. Len(s) - 1 /\ (q - n) + 1 = (q+1) - n
        BY <2>7, <3>3
      <4>2. line'[q] = s[q - n] /\ line'[q+1] = s[(q - n) + 1]
        BY <2>7, <3>3, <4>1
      <4> QED BY <2>2, <4>1, <4>2
    <3> QED BY <2>7, <3>1, <3>2, <3>3
  <2> QED BY <2>8, <2>9, <2>10 DEF Rising
<1>8. FlushNothing \/ Send \/ Return \/ Tick \/ UNCHANGED vars \/ SendFails
        \/ (\E i \in 1 .. Len(net) : Lose(i)) => top' = top
  BY DEF FlushNothing, Send, Return, Tick, SendFails, Lose, collector, vars
<1>9. \A i \in 1 .. Len(net) : ~Reorder(i) /\ ~Duplicate(i)
  BY DEF Reorder, Duplicate
<1>10. \A i \in 1 .. Len(net) : i \in 1 .. Len(line)
  BY LineTypes DEF TypeOK
<1> QED BY <1>3, <1>4, <1>5, <1>6, <1>7, <1>8, <1>9, <1>10, LineSteps

(* A gap is what is missing, as long as the order is kept.                 *)
LEMMA GapNext ==
  TypeOK /\ NoneEmpty /\ Numbered /\ Chained /\ LossVisible /\ [Next]_vars => LossVisible'
<1> SUFFICES ASSUME TypeOK, NoneEmpty, Numbered, Chained, LossVisible, [Next]_vars, in_order'
             PROVE  hole' >= 0 /\ gap' = hole' % SEQ_MOD
  BY DEF LossVisible
<1>1. in_order
  BY DEF Next, Environment, FlushNothing, Flush, Send, SendFails, Return, Tick, Receive, Restart,
         Lose, Reorder, Duplicate, vars
<1>2. SEQ_MOD \in Nat \ {0} /\ net \in Seq(Datagram) /\ datagrams \in Seq(Datagram) /\ top \in Nat
  BY ExporterAssumption DEF TypeOK
<1>3. 0 % SEQ_MOD = 0
  BY <1>2, Remainder, SEQ_MOD * 0 + 0 = 0
<1>4. CASE Receive
  <2>1. PICK d : d = net[1]
    OBVIOUS
  <2>2. /\ net # <<>> /\ d \in Datagram
        /\ gap' = IF expected = None THEN 0 ELSE (d.seq - expected) % SEQ_MOD
        /\ hole' = IF expected = None THEN 0 ELSE d.lo - top
    BY <1>2, <1>4, <2>1, TailFacts DEF Receive
  <2>3. CASE expected = None
    BY <1>3, <2>2, <2>3
  <2>4. CASE expected # None
    <3>1. d.seq = d.lo % SEQ_MOD /\ expected = top % SEQ_MOD
      BY <1>2, <2>1, <2>2, <2>4 DEF Numbered, Counts
    <3>2. line # <<>> /\ line[1] = net[1]
      BY <1>2, <2>2 DEF line
    <3>3. top <= d.lo
      BY <1>1, <2>1, <3>2 DEF Chained, Rising
    <3>4. d.lo \in Nat
      BY <2>2 DEF Datagram
    <3>5. PICK l : l = d.lo
      OBVIOUS
    <3>6. ((l % SEQ_MOD) - (top % SEQ_MOD)) % SEQ_MOD = (l - top) % SEQ_MOD
      BY <1>2, <3>4, <3>5, WrapSub
    <3>7. l - top >= 0
      BY <1>2, <3>3, <3>4, <3>5
    <3> QED BY <2>2, <2>4, <3>1, <3>5, <3>6, <3>7
  <2> QED BY <2>3, <2>4
<1>5. CASE Restart
  BY <1>3, <1>5 DEF Restart
<1>6. CASE UNCHANGED <<expected, top, gap, hole>>
  BY <1>1, <1>6 DEF LossVisible
<1> QED BY <1>4, <1>5, <1>6, CollectorSteps

-----------------------------------------------------------------------------
(* Errors and templates.                                                   *)

(* last_err remembers whether the socket refused records of this flush.    *)
Honest == ResultHonest /\ (pc = "send" => (last_err # None <=> refused > 0))

(* Every step keeps what flush reports true.                               *)
LEMMA HonestNext == TypeOK /\ NoneEmpty /\ Idle /\ Honest /\ [Next]_vars => Honest'
<1> SUFFICES ASSUME TypeOK, NoneEmpty, Idle, Honest, [Next]_vars PROVE Honest'
  OBVIOUS
<1> USE DEF Honest, ResultHonest
<1>1. CASE FlushNothing
  BY <1>1 DEF FlushNothing
<1>2. ASSUME NEW count \in BatchSizes, NEW c \in Cuts(count), Flush(count, c) PROVE Honest'
  BY <1>2 DEF Flush, Idle
<1>3. CASE Send
  BY <1>3 DEF Send, ErrAfterSuccess
<1>4. CASE SendFails
  <2>1. /\ datagrams # <<>> /\ pc' = "send" /\ last_err' = 1 /\ refused \in Nat
        /\ refused' = refused + Records(Head(datagrams))
    BY <1>4 DEF SendFails, TypeOK
  <2>2. Records(Head(datagrams)) \in Nat \ {0}
    <3>1. /\ Head(datagrams) = datagrams[1] /\ datagrams[1] \in Datagram
          /\ 1 \in 1 .. Len(datagrams)
      BY <2>1, TailFacts DEF TypeOK
    <3>2. datagrams[1].lo < datagrams[1].hi
      BY <3>1 DEF NoneEmpty
    <3> QED BY <3>1, <3>2, RecordsType
  <2> QED BY <2>1, <2>2 DEF None
<1>5. CASE Return
  BY <1>5 DEF Return
<1>6. CASE UNCHANGED <<pc, last_err, result, refused>>
  BY <1>6
<1>7. Environment \/ UNCHANGED vars => UNCHANGED <<pc, last_err, result, refused>>
  BY DEF Environment, Tick, Receive, Restart, Lose, Reorder, Duplicate, Undisturbed, vars, exporter
<1> QED BY <1>1, <1>2, <1>3, <1>4, <1>5, <1>6, <1>7 DEF Next

(* The templates have reached the collector, or one of the first n         *)
(* datagrams on the line brings them.                                      *)
Brought(n) == templates \/ \E j \in 1 .. Len(line) : j <= n /\ line[j].template

(* If they went out since the last disturbance they are on their way, and  *)
(* a steady datagram has them before it.                                   *)
OnTheWay ==
  /\ last_template_send # None /\ last_template_send < calm => Brought(Len(line))
  /\ \A i \in 1 .. Len(line) : line[i].steady => Brought(i)

(* Every step brings the templates along.                                  *)
LEMMA OnTheWayNext == TypeOK /\ NoneEmpty /\ Idle /\ OnTheWay /\ [Next]_vars => OnTheWay'
<1> SUFFICES ASSUME TypeOK, NoneEmpty, Idle, OnTheWay, [Next]_vars PROVE OnTheWay'
  OBVIOUS
<1>0. /\ line \in Seq(Datagram) /\ net \in Seq(Datagram) /\ datagrams \in Seq(Datagram)
      /\ Len(line) = Len(net) + Len(datagrams)
  BY LineTypes DEF TypeOK
<1>1. REFRESH \in Nat \ {0} /\ calm \in 0 .. REFRESH /\ last_template_send \in {-1} \cup 0 .. REFRESH
  BY ExporterAssumption DEF TypeOK, None
<1>2. CASE FlushNothing /\ line' = line
  BY <1>2 DEF FlushNothing, collector, OnTheWay, Brought
<1>3. CASE Send /\ line' = line
  BY <1>3 DEF Send, collector, OnTheWay, Brought
<1>4. CASE Return /\ line' = line
  BY <1>4 DEF Return, collector, OnTheWay, Brought
<1>5. CASE UNCHANGED vars /\ line' = line
  BY <1>5 DEF vars, exporter, collector, OnTheWay, Brought
<1>6. CASE Tick /\ line' = line
  <2>1. /\ calm' = Capped(calm) /\ templates' = templates
        /\ last_template_send' = IF last_template_send = None THEN None ELSE Capped(last_template_send)
    BY <1>6 DEF Tick, collector
  <2>2. last_template_send' # None /\ last_template_send' < calm'
          => last_template_send # None /\ last_template_send < calm
    BY <1>1, <2>1 DEF Capped, None
  <2> QED BY <1>6, <2>1, <2>2 DEF OnTheWay, Brought
<1>7. ASSUME \A q \in 1 .. Len(line') : line'[q].steady = FALSE,
             calm' = 0, last_template_send' = last_template_send
      PROVE  OnTheWay'
  BY <1>1, <1>7 DEF OnTheWay, None
<1>8. ASSUME NEW s \in Seq(Datagram), NEW u \in Seq(Datagram),
             net' = Unsteady(s), datagrams' = Unsteady(u)
      PROVE  \A q \in 1 .. Len(line') : line'[q].steady = FALSE
  <2> DEFINE a == Unsteady(s)
             b == Unsteady(u)
  <2>1. /\ a \in Seq(Datagram) /\ \A q \in 1 .. Len(a) : a[q].steady = FALSE
    BY UnsteadyFacts
  <2>2. /\ b \in Seq(Datagram) /\ \A q \in 1 .. Len(b) : b[q].steady = FALSE
    BY UnsteadyFacts
  <2>3. line' = a \o b
    BY <1>8 DEF line
  <2> HIDE DEF a, b
  <2>4. /\ Len(line') = Len(a) + Len(b) /\ Len(a) \in Nat /\ Len(b) \in Nat
        /\ \A q \in 1 .. Len(a) + Len(b) : line'[q] = IF q <= Len(a) THEN a[q] ELSE b[q - Len(a)]
    BY <2>1, <2>2, <2>3, ConcatFacts
  <2>5. ASSUME NEW q \in 1 .. Len(line') PROVE line'[q].steady = FALSE
    <3>1. CASE q <= Len(a)
      <4>1. q \in 1 .. Len(a) /\ line'[q] = a[q]
        BY <2>4, <3>1
      <4> QED BY <2>1, <4>1
    <3>2. CASE ~(q <= Len(a))
      <4>1. q - Len(a) \in 1 .. Len(b) /\ line'[q] = b[q - Len(a)]
        BY <2>4, <3>2
      <4> QED BY <2>2, <4>1
    <3> QED BY <3>1, <3>2
  <2> QED BY <2>5
<1>9. CASE SendFails
  <2>1. /\ datagrams # <<>> /\ net' = Unsteady(net) /\ datagrams' = Unsteady(Tail(datagrams))
        /\ calm' = 0 /\ last_template_send' = last_template_send
    BY <1>9 DEF SendFails
  <2>2. Tail(datagrams) \in Seq(Datagram)
    BY <1>0, <2>1
  <2> QED BY <1>0, <1>7, <1>8, <2>1, <2>2
<1>10. CASE Restart
  <2>1. /\ net' = Unsteady(net) /\ datagrams' = Unsteady(datagrams)
        /\ calm' = 0 /\ last_template_send' = last_template_send
    BY <1>10 DEF Restart, Disturbed, Undisturbed
  <2> QED BY <1>0, <1>7, <1>8, <2>1
<1>11. ASSUME NEW i \in 1 .. Len(net), Lose(i) PROVE OnTheWay'
  <2>1. /\ net' = Unsteady(Without(net, i)) /\ datagrams' = Unsteady(datagrams)
        /\ calm' = 0 /\ last_template_send' = last_template_send
    BY <1>11 DEF Lose, Disturbed, Undisturbed
  <2>2. Without(net, i) \in Seq(Datagram)
    BY <1>0, WithoutFacts
  <2> QED BY <1>0, <1>7, <1>8, <2>1, <2>2
<1>12. ASSUME NEW i \in 1 .. Len(net), Reorder(i) PROVE OnTheWay'
  <2>1. /\ net' = Unsteady(Swapped(net, i)) /\ datagrams' = Unsteady(datagrams)
        /\ calm' = 0 /\ last_template_send' = last_template_send /\ i < Len(net)
    BY <1>12 DEF Reorder, Disturbed, Undisturbed
  <2>2. Swapped(net, i) \in Seq(Datagram)
    BY <1>0, <2>1, SwappedFacts
  <2> QED BY <1>0, <1>7, <1>8, <2>1, <2>2
<1>13. ASSUME NEW i \in 1 .. Len(net), Duplicate(i) PROVE OnTheWay'
  <2>1. /\ net' = Append(net, net[i]) /\ datagrams' = datagrams /\ net[i] \in Datagram
        /\ UNCHANGED <<calm, templates, last_template_send>>
    BY <1>0, <1>13 DEF Duplicate, Undisturbed, collector
  <2>2. PICK n, m : n = Len(net) /\ m = Len(datagrams)
    OBVIOUS
  <2> DEFINE a == Append(net, net[i])
  <2>3. /\ a \in Seq(Datagram) /\ Len(a) = n + 1 /\ n \in Nat /\ m \in Nat
        /\ \A q \in 1 .. n : a[q] = net[q]
        /\ a[n + 1] = net[i]
    BY <1>0, <2>1, <2>2, AppendFacts
  <2>4. line' = a \o datagrams
    BY <2>1 DEF line
  <2> HIDE DEF a
  <2>5. /\ Len(line') = (n + 1) + m
        /\ \A q \in 1 .. (n + 1) + m :
             line'[q] = IF q <= n + 1 THEN a[q] ELSE datagrams[q - (n + 1)]
    <3>1. /\ Len(a \o datagrams) = Len(a) + Len(datagrams)
          /\ \A q \in 1 .. Len(a) + Len(datagrams) :
               (a \o datagrams)[q] = IF q <= Len(a) THEN a[q] ELSE datagrams[q - Len(a)]
      BY <1>0, <2>3, ConcatFacts
    <3>2. Len(a) = n + 1 /\ Len(datagrams) = m
      BY <2>2, <2>3
    <3> QED BY <2>4, <3>1, <3>2
  <2>6. /\ Len(line) = n + m
        /\ \A q \in 1 .. n + m : line[q] = IF q <= n THEN net[q] ELSE datagrams[q - n]
    BY <1>0, <2>2, ConcatFacts DEF line
  <2>7. \A q \in 1 .. n : line'[q] = line[q]
    BY <2>3, <2>5, <2>6
  <2>8. line'[n + 1] = line[i] /\ i \in 1 .. n
    BY <2>2, <2>3, <2>5, <2>6
  <2>9. \A q \in n+1 .. n+m : line'[q + 1] = line[q]
    <3> SUFFICES ASSUME NEW q \in n+1 .. n+m PROVE line'[q + 1] = line[q]
      OBVIOUS
    <3>1. ~(q <= n) /\ ~(q + 1 <= n + 1) /\ (q + 1) - (n + 1) = q - n
          /\ q \in 1 .. n + m /\ q + 1 \in 1 .. (n + 1) + m
      BY <2>3
    <3> QED BY <2>5, <2>6, <3>1
  <2>10. ASSUME NEW k \in 1 .. n + m, Brought(k)
         PROVE  \A p \in 1 .. (n + 1) + m : (k < p \/ (k <= p /\ k <= n)) => Brought(p)'
    <3> SUFFICES ASSUME NEW p \in 1 .. (n + 1) + m, k < p \/ (k <= p /\ k <= n), ~templates
                 PROVE  Brought(p)'
      BY <2>1 DEF Brought
    <3>1. PICK j \in 1 .. n + m : j <= k /\ line[j].template
      BY <2>6, <2>10 DEF Brought
    <3>2. CASE j <= n
      <4>1. j \in 1 .. Len(line') /\ j <= p /\ line'[j] = line[j]
        BY <2>3, <2>5, <2>7, <3>1, <3>2
      <4> QED BY <3>1, <4>1 DEF Brought
    <3>3. CASE n < j
      <4>1. j + 1 \in 1 .. Len(line') /\ j + 1 <= p /\ line'[j + 1] = line[j]
        BY <2>3, <2>5, <2>9, <3>1, <3>3
      <4> QED BY <3>1, <4>1 DEF Brought
    <3> QED BY <2>3, <3>1, <3>2, <3>3
  <2>11. last_template_send' # None /\ last_template_send' < calm' => Brought(Len(line))
    BY <2>1 DEF OnTheWay
  <2>12. Brought(Len(line)) => Brought((n + 1) + m)'
    <3>1. n + m \in 1 .. n + m /\ n + m < (n + 1) + m /\ (n + 1) + m \in 1 .. (n + 1) + m
      BY <2>3, <2>8
    <3> QED BY <2>6, <2>10, <3>1
  <2>13. Brought((n + 1) + m)' => Brought(Len(line))'
    BY <2>5 DEF Brought
  <2>14. ASSUME NEW p \in 1 .. (n + 1) + m, line'[p].steady PROVE Brought(p)'
    <3>1. CASE p <= n
      <4>1. p \in 1 .. n + m /\ line[p].steady /\ p \in 1 .. n
        BY <2>3, <2>7, <2>14, <3>1
      <4>2. Brought(p)
        BY <2>6, <4>1 DEF OnTheWay
      <4> QED BY <2>3, <2>10, <4>1, <4>2
    <3>2. CASE p = n + 1
      <4>1. i \in 1 .. n + m /\ line[i].steady /\ i < p
        BY <2>3, <2>8, <2>14, <3>2
      <4>2. Brought(i)
        BY <2>6, <4>1 DEF OnTheWay
      <4> QED BY <2>10, <4>1, <4>2
    <3>3. CASE n + 1 < p
      <4>1. PICK q \in n+1 .. n+m : p = q + 1
        <5>1. p - 1 \in n+1 .. n+m /\ p = (p - 1) + 1
          BY <2>3, <3>3
        <5> QED BY <5>1
      <4>2. q \in 1 .. n + m /\ line[q].steady /\ q < p
        BY <2>3, <2>9, <2>14, <4>1
      <4>3. Brought(q)
        BY <2>6, <4>2 DEF OnTheWay
      <4> QED BY <2>10, <4>2, <4>3
    <3> QED BY <2>3, <3>1, <3>2, <3>3
  <2> QED BY <2>5, <2>11, <2>12, <2>13, <2>14 DEF OnTheWay
<1>14. CASE Receive /\ line # <<>> /\ line' = Tail(line) /\ line[1] = net[1]
  <2>1. /\ templates' = (templates \/ line[1].template)
        /\ UNCHANGED <<last_template_send, calm>>
    BY <1>0, <1>14, TailFacts DEF Receive, exporter
  <2>2. PICK n \in Nat \ {0} : n = Len(line)
    BY <1>0, <1>14
  <2>3. Len(line') = n - 1 /\ \A q \in 1 .. n - 1 : line'[q] = line[q+1]
    BY <1>0, <1>14, <2>2, TailFacts
  <2>4. ASSUME NEW k \in 1 .. n, Brought(k) PROVE Brought(k - 1)'
    <3>1. CASE templates
      BY <2>1, <3>1 DEF Brought
    <3>2. CASE ~templates
      <4>1. PICK j \in 1 .. n : j <= k /\ line[j].template
        BY <2>2, <2>4, <3>2 DEF Brought
      <4>2. CASE j = 1
        BY <2>1, <4>1, <4>2 DEF Brought
      <4>3. CASE j # 1
        <5>1. j - 1 \in 1 .. n - 1 /\ j - 1 <= k - 1 /\ (j - 1) + 1 = j
          BY <4>1, <4>3
        <5>2. line'[j - 1].template
          BY <2>3, <4>1, <5>1
        <5> QED BY <2>3, <5>1, <5>2 DEF Brought
      <4> QED BY <4>2, <4>3
    <3> QED BY <3>1, <3>2
  <2>5. last_template_send' # None /\ last_template_send' < calm' => Brought(n)
    BY <2>1, <2>2 DEF OnTheWay
  <2>6. Brought(n) => Brought(n - 1)'
    BY <2>2, <2>4
  <2>7. Brought(n - 1)' => Brought(Len(line))'
    BY <2>3 DEF Brought
  <2>8. ASSUME NEW q \in 1 .. n - 1, line'[q].steady PROVE Brought(q)'
    <3>1. q + 1 \in 1 .. n /\ line[q+1].steady /\ (q + 1) - 1 = q
      BY <2>2, <2>3, <2>8
    <3>2. Brought(q + 1)
      BY <2>2, <3>1 DEF OnTheWay
    <3> QED BY <2>4, <3>1, <3>2
  <2> QED BY <2>3, <2>5, <2>6, <2>7, <2>8 DEF OnTheWay
<1>15. ASSUME NEW count \in BatchSizes, NEW c \in Cuts(count),
              Flush(count, c), line = net, line' = net \o datagrams'
       PROVE  OnTheWay'
  <2>1. PICK s : s = datagrams'
    OBVIOUS
  <2>2. /\ s \in Seq(Datagram) /\ s # <<>>
        /\ \A q \in 1 .. Len(s) : /\ s[q].template <=> TemplateDue /\ q = 1
                                  /\ s[q].steady <=> calm >= REFRESH
    BY <1>15, <2>1, FlushBuilds
  <2>3. PICK n, m : n = Len(net) /\ m = Len(s)
    OBVIOUS
  <2>4. /\ line' = net \o s /\ Len(line') = n + m /\ n \in Nat /\ m \in Nat \ {0}
        /\ \A q \in 1 .. n + m : line'[q] = IF q <= n THEN net[q] ELSE s[q - n]
    BY <1>0, <1>15, <2>1, <2>2, <2>3, ConcatFacts
  <2>5. /\ UNCHANGED <<templates, calm>>
        /\ last_template_send' = IF TemplateDue THEN 0 ELSE last_template_send
    BY <1>15 DEF Flush, collector
  <2>6. \A q \in 1 .. n : line'[q] = line[q]
    BY <1>15, <2>3, <2>4
  <2>7. ASSUME NEW k \in 0 .. n, Brought(k) PROVE \A p \in k .. n + m : Brought(p)'
    <3> SUFFICES ASSUME NEW p \in k .. n + m, ~templates PROVE Brought(p)'
      BY <2>5 DEF Brought
    <3>1. PICK j \in 1 .. n : j <= k /\ line[j].template
      BY <1>15, <2>3, <2>7 DEF Brought
    <3>2. j \in 1 .. Len(line') /\ j <= p /\ line'[j].template
      BY <2>4, <2>6, <3>1
    <3> QED BY <3>2 DEF Brought
  <2>8. CASE TemplateDue
    <3>1. n + 1 \in 1 .. n + m /\ line'[n + 1].template
      <4>1. n + 1 \in 1 .. n + m /\ ~(n + 1 <= n) /\ (n + 1) - n = 1 /\ 1 \in 1 .. Len(s)
        BY <2>3, <2>4
      <4> QED BY <2>2, <2>4, <2>8, <4>1
    <3>2. \A p \in n+1 .. n + m : Brought(p)'
      BY <2>4, <3>1 DEF Brought
    <3>3. ASSUME NEW p \in 1 .. n + m, line'[p].steady PROVE Brought(p)'
      <4>1. CASE p <= n
        <5>1. p \in 1 .. n /\ line[p].steady
          BY <2>6, <3>3, <4>1
        <5>2. Brought(p)
          BY <1>15, <2>3, <5>1 DEF OnTheWay
        <5>3. p \in 0 .. n /\ p \in p .. n + m
          BY <2>4, <5>1
        <5> QED BY <2>7, <5>2, <5>3
      <4>2. CASE ~(p <= n)
        <5>1. p \in n+1 .. n + m
          BY <2>4, <4>2
        <5> QED BY <3>2, <5>1
      <4> QED BY <4>1, <4>2
    <3>4. Brought(n + m)'
      BY <2>4, <3>2
    <3>5. Brought(Len(line))'
      BY <2>4, <3>4 DEF Brought
    <3> QED BY <2>4, <3>3, <3>5 DEF OnTheWay
  <2>9. CASE ~TemplateDue
    <3>1. last_template_send # None /\ last_template_send < REFRESH /\ last_template_send' = last_template_send
      BY <1>1, <2>5, <2>9 DEF TemplateDue, None
    <3>2. last_template_send < calm => Brought(n)
      BY <1>15, <2>3, <3>1 DEF OnTheWay
    <3>3. Brought(n) => \A p \in n .. n + m : Brought(p)'
      BY <2>4, <2>7
    <3>4. last_template_send' # None /\ last_template_send' < calm' => Brought(n + m)'
      BY <2>4, <2>5, <3>1, <3>2, <3>3
    <3>5. Brought(n + m)' => Brought(Len(line))'
      BY <2>4 DEF Brought
    <3>6. ASSUME NEW p \in 1 .. n + m, line'[p].steady PROVE Brought(p)'
      <4>1. CASE p <= n
        <5>1. p \in 1 .. n /\ line[p].steady
          BY <2>6, <3>6, <4>1
        <5>2. Brought(p)
          BY <1>15, <2>3, <5>1 DEF OnTheWay
        <5>3. p \in 0 .. n /\ p \in p .. n + m
          BY <2>4, <5>1
        <5> QED BY <2>7, <5>2, <5>3
      <4>2. CASE ~(p <= n)
        <5>1. p - n \in 1 .. Len(s) /\ line'[p] = s[p - n]
          BY <2>3, <2>4, <4>2
        <5>2. calm >= REFRESH
          BY <2>2, <3>6, <5>1
        <5>3. last_template_send < calm
          BY <1>1, <3>1, <5>2 DEF None
        <5>4. p \in n .. n + m
          BY <2>4, <4>2
        <5> QED BY <3>2, <3>3, <5>3, <5>4
      <4> QED BY <4>1, <4>2
    <3> QED BY <2>4, <3>4, <3>5, <3>6 DEF OnTheWay
  <2> QED BY <2>8, <2>9
<1> QED BY <1>2, <1>3, <1>4, <1>5, <1>6, <1>9, <1>10, <1>11, <1>12, <1>13, <1>14, <1>15, LineSteps

(* A steady datagram of the network has the templates before it.           *)
LEMMA OnTheWayDecodes == TypeOK /\ NoneEmpty /\ OnTheWay => DecodableAfterCalm
<1> SUFFICES ASSUME TypeOK, NoneEmpty, OnTheWay, NEW i \in 1 .. Len(net), net[i].steady, ~templates
             PROVE  \E j \in 1 .. i : net[j].template
  BY DEF DecodableAfterCalm
<1>1. /\ net \in Seq(Datagram) /\ datagrams \in Seq(Datagram)
      /\ \A q \in 1 .. Len(net) : line[q] = net[q] /\ q \in 1 .. Len(line)
  <2>1. net \in Seq(Datagram) /\ datagrams \in Seq(Datagram)
    BY DEF TypeOK
  <2>2. /\ Len(line) = Len(net) + Len(datagrams) /\ Len(net) \in Nat /\ Len(datagrams) \in Nat
        /\ \A q \in 1 .. Len(net) : line[q] = net[q]
    BY <2>1, ConcatFacts DEF line
  <2> QED BY <2>1, <2>2
<1>2. Brought(i)
  BY <1>1 DEF OnTheWay
<1>3. PICK j \in 1 .. Len(line) : j <= i /\ line[j].template
  BY <1>2 DEF Brought
<1>4. j \in 1 .. i /\ j \in 1 .. Len(net)
  BY <1>1, <1>3
<1> QED BY <1>1, <1>3, <1>4

-----------------------------------------------------------------------------
(* Results.                                                                *)

IInv ==
  TypeOK /\ NoneEmpty /\ Idle /\ Numbered /\ Chained /\ LossVisible /\ Honest /\ OnTheWay

(* At the start nothing is on the line.                                    *)
LEMMA StartsRight == Init => IInv
<1> SUFFICES ASSUME Init PROVE IInv
  OBVIOUS
<1>1. line = <<>> /\ Len(line) = 0
  <2>1. net = <<>> /\ datagrams = <<>>
    BY DEF Init
  <2>2. <<>> \o <<>> = <<>>
    OBVIOUS
  <2> QED BY <2>1, <2>2 DEF line
<1>2. Chained /\ OnTheWay
  BY <1>1 DEF Init, Chained, Rising, OnTheWay
<1>3. LossVisible
  <2>1. 0 % SEQ_MOD = 0
    BY ExporterAssumption, Remainder, SEQ_MOD * 0 + 0 = 0
  <2> QED BY <2>1 DEF Init, LossVisible
<1>4. Honest
  BY DEF Init, Honest, ResultHonest
<1> QED BY <1>2, <1>3, <1>4, TypesInit, NumberedInit DEF IInv

(* Every step keeps all of it.                                             *)
LEMMA StaysRight == IInv /\ [Next]_vars => IInv'
  BY TypesNext, IdleNext, NumberedNext, ChainedNext, GapNext, HonestNext, OnTheWayNext DEF IInv

(* The inductive invariant of the exporter and its collector.              *)
LEMMA Invariance == Spec => []IInv
  BY StartsRight, StaysRight, PTL DEF Spec

(* On a path that keeps the order a collector's gap is the number of       *)
(* records gone, modulo the sequence space (exporter.rs:45-47).            *)
THEOREM GapsAreLosses == Spec => []LossVisible
<1>1. IInv => LossVisible
  BY DEF IInv
<1> QED BY <1>1, Invariance, PTL

(* After one refresh period without disturbance every datagram of a later  *)
(* flush finds the templates (exporter.rs:35-44).                          *)
THEOREM RecoversFromLoss == Spec => []DecodableAfterCalm
<1>1. IInv => DecodableAfterCalm
  BY OnTheWayDecodes DEF IInv
<1> QED BY <1>1, Invariance, PTL

(* flush reports an error exactly when the socket refused records          *)
(* (exporter.rs:49-59).                                                    *)
THEOREM ReportsRefusals == Spec => []ResultHonest
<1>1. IInv => ResultHonest
  BY DEF IInv, Honest
<1> QED BY <1>1, Invariance, PTL
=============================================================================
