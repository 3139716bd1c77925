--------------------------- MODULE BacklogProofs ---------------------------
(* How many maps wait in the channel, for every interval between drains    *)
(* and for every time that the main thread may need for a map.             *)
EXTENDS Backlog, TLAPS

IInv == TypeOK /\ BacklogIsTimeBehind

LEMMA InitIInv == Init => IInv
  BY BacklogAssumption DEF Init, IInv, TypeOK, BacklogIsTimeBehind, Idle

(* Adding a map, or taking one out, adds or takes out one INTERVAL.        *)
LEMMA OneMore ==
  /\ \A n \in Int : (n + 1) * INTERVAL = n * INTERVAL + INTERVAL
  /\ \A n \in Int : (n - 1) * INTERVAL = n * INTERVAL - INTERVAL
  /\ \A n \in Int : n * INTERVAL \in Int
  /\ 0 * INTERVAL = 0
  BY BacklogAssumption

(* A drain: the time since the last one becomes a map, or does not yet     *)
(* suffice for one.                                                        *)
LEMMA CheckKeeps ==
  ASSUME IInv, Check
  PROVE  IInv'
<1> USE BacklogAssumption DEF IInv, TypeOK
<1>1. CASE elapsed >= INTERVAL
  <2>1. queued' = queued + 1 /\ elapsed' = 0 /\ left' = left /\ behind' = behind /\ pc' = "poll"
    BY <1>1 DEF Check, Restarted
  <2>2. queued' * INTERVAL = queued * INTERVAL + INTERVAL
    BY <2>1, OneMore
  <2> DEFINE q == queued * INTERVAL
  <2>3. q \in Int /\ (queued = 0 => q = 0)
    BY OneMore
  <2>4. ~Idle => q + left + elapsed <= INTERVAL + behind
    BY DEF BacklogIsTimeBehind
  <2>5. Idle => q = 0 /\ left = 0
    BY <2>3 DEF Idle
  <2> HIDE DEF q
  <2>6. q + INTERVAL + left <= INTERVAL + behind
    BY <1>1, <2>3, <2>4, <2>5
  <2>7. BacklogIsTimeBehind'
    BY <2>1, <2>2, <2>6 DEF BacklogIsTimeBehind, q
  <2> QED BY <2>1, <2>7
<1>2. CASE ~(elapsed >= INTERVAL)
  BY <1>2 DEF Check, BacklogIsTimeBehind, Idle
<1> QED BY <1>1, <1>2

(* Taking a map: what it needs beyond INTERVAL is what the main thread     *)
(* falls behind by, what it needs less is made up.                         *)
LEMMA RecvKeeps ==
  ASSUME IInv, NEW work \in 0 .. MaxWork, Recv(work)
  PROVE  IInv'
<1> USE BacklogAssumption DEF IInv, TypeOK
<1> DEFINE q == queued * INTERVAL
<1>1. /\ left = 0 /\ queued > 0 /\ queued' = queued - 1 /\ left' = work
      /\ behind' = Behind(work) /\ behind' <= MaxBehind /\ pc' = pc /\ elapsed' = elapsed
  BY DEF Recv
<1>2. queued' * INTERVAL = q - INTERVAL /\ q \in Int
  BY <1>1, OneMore
<1>3. q + elapsed <= INTERVAL + behind
  BY <1>1, <1>2 DEF BacklogIsTimeBehind, Idle
<1> HIDE DEF q
<1>4. behind' \in Int /\ behind' >= 0 /\ behind' >= behind + work - INTERVAL
  BY <1>1 DEF Behind
<1>5. (q - INTERVAL) + work + elapsed <= INTERVAL + behind'
  <2>1. PICK b \in Int : b = behind'
    BY <1>4
  <2>2. q \in Int /\ elapsed \in Int /\ behind \in Int /\ work \in Int
    BY <1>2
  <2>3. b >= behind + work - INTERVAL
    BY <1>4, <2>1
  <2>4. (q - INTERVAL) + work + elapsed <= INTERVAL + b
    BY <1>3, <2>2, <2>3
  <2> QED BY <2>1, <2>4
<1>6. BacklogIsTimeBehind'
  BY <1>1, <1>2, <1>5 DEF BacklogIsTimeBehind
<1> QED BY <1>1, <1>4, <1>6

(* Time that passes is worked off, or lost to the scheduler, or nobody     *)
(* waits.                                                                  *)
LEMMA TickKeeps ==
  ASSUME IInv, Tick
  PROVE  IInv'
<1> USE BacklogAssumption DEF IInv, TypeOK
<1> DEFINE q == queued * INTERVAL
<1>1. q \in Int /\ queued' = queued /\ queued' * INTERVAL = q /\ pc' = pc
  BY OneMore DEF Tick
<1>2. elapsed' = elapsed + 1 /\ elapsed' \in 0 .. MaxElapsed
  BY DEF Tick
<1>3. ~Idle => q + left + elapsed <= INTERVAL + behind
  BY DEF BacklogIsTimeBehind
<1> HIDE DEF q
<1>4. CASE left > 0 /\ left' = left - 1 /\ behind' = behind
  <2>1. q + left' + elapsed' <= INTERVAL + behind'
    BY <1>1, <1>2, <1>3, <1>4 DEF Idle
  <2> QED BY <1>1, <1>2, <1>4, <2>1 DEF BacklogIsTimeBehind
<1>5. CASE Idle /\ behind' = 0 /\ left' = left
  BY <1>1, <1>2, <1>5 DEF BacklogIsTimeBehind, Idle
<1>6. CASE left = 0 /\ queued > 0 /\ behind < MaxBehind /\ behind' = behind + 1 /\ left' = left
  <2>1. q + left' + elapsed' <= INTERVAL + behind'
    BY <1>1, <1>2, <1>3, <1>6 DEF Idle
  <2> QED BY <1>1, <1>2, <1>6, <2>1 DEF BacklogIsTimeBehind
<1> QED BY <1>4, <1>5, <1>6 DEF Tick

LEMMA NextIInv == IInv /\ [Next]_vars => IInv'
<1> SUFFICES ASSUME IInv, [Next]_vars PROVE IInv'
  OBVIOUS
<1>1. CASE Polled
  BY <1>1 DEF Polled, IInv, TypeOK, BacklogIsTimeBehind, Idle
<1>2. CASE UNCHANGED vars
  BY <1>2 DEF vars, IInv, TypeOK, BacklogIsTimeBehind, Idle
<1> QED
  BY <1>1, <1>2, CheckKeeps, RecvKeeps, TickKeeps DEF Next

LEMMA IInvHolds == Spec => []IInv
  BY InitIInv, NextIInv, PTL DEF Spec

(* Types.                                                                  *)
THEOREM TypeCorrect == Spec => []TypeOK
<1>1. IInv => TypeOK
  BY DEF IInv
<1> QED
  BY <1>1, IInvHolds, PTL

(* What waits in the unbounded channel is never more than the time the     *)
(* main thread is behind by, whatever it needs for a map and however late  *)
(* it is scheduled (main.rs:45-62).                                        *)
THEOREM BacklogBounded == Spec => []BacklogIsTimeBehind
<1>1. IInv => BacklogIsTimeBehind
  BY DEF IInv
<1> QED
  BY <1>1, IInvHolds, PTL

(* A main thread that is not behind by a whole INTERVAL leaves at most one *)
(* map waiting, and one that is not behind at all leaves none while it     *)
(* works on another (main.rs:45-62).                                       *)
THEOREM KeepsUp ==
  Spec => [](behind < INTERVAL => queued <= 1 /\ (behind = 0 /\ left > 0 => queued = 0))
<1>1. IInv => (behind < INTERVAL => queued <= 1 /\ (behind = 0 /\ left > 0 => queued = 0))
  <2> SUFFICES ASSUME IInv, behind < INTERVAL
               PROVE  queued <= 1 /\ (behind = 0 /\ left > 0 => queued = 0)
    OBVIOUS
  <2> USE BacklogAssumption DEF IInv, TypeOK
  <2>1. queued >= 2 => queued * INTERVAL >= 2 * INTERVAL
    OBVIOUS
  <2>2. queued >= 1 => queued * INTERVAL >= INTERVAL
    OBVIOUS
  <2>3. queued * INTERVAL \in Int
    BY OneMore
  <2>4. queued > 0 => queued * INTERVAL + left + elapsed <= INTERVAL + behind
    BY DEF BacklogIsTimeBehind, Idle
  <2> QED BY <2>1, <2>2, <2>3, <2>4
<1> QED
  BY <1>1, IInvHolds, PTL
=============================================================================
