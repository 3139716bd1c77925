------------------------------ MODULE Backlog ------------------------------
(***************************************************************************)
(* The length of the unbounded channel (main.rs:45), and nothing else: the *)
(* capture thread adds a map to it no sooner than INTERVAL after the last  *)
(* one; the main thread takes as long for each as filter, directions and   *)
(* flush happen to need, and may be kept waiting by the scheduler.         *)
(***************************************************************************)
EXTENDS Integers

CONSTANTS
  INTERVAL,     \* 900 ms between drains, in ticks
  MaxElapsed,   \* bound: time since the last drain
  MaxWork,      \* bound: time taken for one map
  MaxBehind     \* bound: time the main thread falls behind by

ASSUME BacklogAssumption ==
  INTERVAL \in Nat \ {0} /\ MaxElapsed \in Nat /\ MaxWork \in Nat /\ MaxBehind \in Nat

VARIABLES
  pc,        \* the capture thread: "check" at the top of its loop, or "poll"
  elapsed,   \* last_drain.elapsed()
  queued,    \* maps in the channel
  left,      \* what the main thread still needs for the map in hand, 0 without one
  behind     \* history: how far the main thread is behind, by maps that took longer than
             \* INTERVAL and by waiting to be scheduled, less what quicker maps made up

vars == <<pc, elapsed, queued, left, behind>>

Init == pc = "check" /\ elapsed = 0 /\ queued = 0 /\ left = 0 /\ behind = 0

(* last_drain = Instant::now() after a drain; the mutant leaves it out.    *)
Restarted_Forgotten(e) == e
Restarted(e) == 0

Check ==
  /\ pc = "check" /\ pc' = "poll"
  /\ IF elapsed >= INTERVAL
     THEN queued' = queued + 1 /\ elapsed' = Restarted(elapsed)
     ELSE UNCHANGED <<queued, elapsed>>
  /\ UNCHANGED <<left, behind>>

(* next_packet returns, with or without a packet.                          *)
Polled == pc = "poll" /\ pc' = "check" /\ UNCHANGED <<elapsed, queued, left, behind>>

(* What a map that needs that much work does to the delay.                 *)
Behind(work) == IF behind + work > INTERVAL THEN behind + work - INTERVAL ELSE 0

(* The main thread takes the next map; the mutant does not wait for one.   *)
Recv_NoWait(work) ==
  /\ left = 0
  /\ queued' = queued - 1 /\ left' = work /\ behind' = Behind(work)
  /\ UNCHANGED <<pc, elapsed>>

Recv(work) ==
  /\ left = 0 /\ queued > 0 /\ Behind(work) <= MaxBehind
  /\ queued' = queued - 1 /\ left' = work /\ behind' = Behind(work)
  /\ UNCHANGED <<pc, elapsed>>

Idle == left = 0 /\ queued = 0

(* Time passes: in next_packet, while the main thread works, has nothing   *)
(* to do, or is not scheduled.                                             *)
Tick ==
  /\ pc = "poll" /\ elapsed < MaxElapsed
  /\ elapsed' = elapsed + 1
  /\ \/ left > 0 /\ left' = left - 1 /\ UNCHANGED behind
     \/ Idle /\ behind' = 0 /\ UNCHANGED left
     \/ left = 0 /\ queued > 0 /\ behind < MaxBehind /\ behind' = behind + 1 /\ UNCHANGED left
  /\ UNCHANGED <<pc, queued>>

Next == Check \/ Polled \/ (\E work \in 0 .. MaxWork : Recv(work)) \/ Tick

Spec == Init /\ [][Next]_vars

-----------------------------------------------------------------------------

(* Types.                                                                  *)
TypeOK ==
  /\ pc \in {"check", "poll"} /\ elapsed \in 0 .. MaxElapsed
  /\ queued \in Nat /\ left \in 0 .. MaxWork /\ behind \in 0 .. MaxBehind

(* The channel has no bound of its own, but it holds no more than the time *)
(* the main thread is behind by: one map for each whole INTERVAL of it,    *)
(* and one.  A slow map or a stall leaves a backlog in proportion to its   *)
(* length, quicker maps work it off again, and a main thread that keeps up *)
(* never leaves more than one map waiting, however the packets come        *)
(* (main.rs:45-62, capture.rs:30-39).                                      *)
BacklogIsTimeBehind ==
  ~Idle => queued * INTERVAL + left + elapsed <= INTERVAL + behind
=============================================================================
