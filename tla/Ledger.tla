------------------------------- MODULE Ledger -------------------------------
(***************************************************************************)
(* What sniffnet-agent promises for the packets it captures, without       *)
(* threads, maps, channel or datagrams: a packet that decodes is recorded, *)
(* stays pending for a while and then meets exactly one fate.  Within a    *)
(* flow fates are met in the order of capture, and when capturing ends     *)
(* early only the last packets of the log are lost.                        *)
(***************************************************************************)
EXTENDS Integers, Sequences

CONSTANTS
  Packet, KeyOf, NotDecoded,
  Withheld    \* the keys that must not be exported

VARIABLES
  log,        \* packets in the order they were captured
  exported, failed, withheld, lost,
  closed      \* nothing is captured any more

fates == <<exported, failed, withheld, lost>>
vars  == <<log, fates, closed>>

Logged   == {log[i] : i \in 1 .. Len(log)}
Recorded == {p \in Logged : KeyOf[p] # NotDecoded}
Pending  == Recorded \ (exported \cup failed \cup withheld \cup lost)
Before(p, q) == \E i, j \in 1 .. Len(log) : i < j /\ log[i] = p /\ log[j] = q

Init ==
  /\ log = <<>> /\ closed = FALSE
  /\ exported = {} /\ failed = {} /\ withheld = {} /\ lost = {}

Capture(p) ==
  /\ ~closed /\ p \notin Logged
  /\ log' = Append(log, p)
  /\ UNCHANGED <<fates, closed>>

(* S may be settled: it is pending, and leaves behind no earlier packet of *)
(* one of its flows.                                                       *)
MaySettle(S) ==
  /\ S # {} /\ S \subseteq Pending
  /\ \A p \in Pending, q \in S : KeyOf[p] = KeyOf[q] /\ Before(p, q) => p \in S

Export(S) ==
  /\ MaySettle(S) /\ \A p \in S : KeyOf[p] \notin Withheld
  /\ \/ exported' = exported \cup S /\ UNCHANGED failed
     \/ failed' = failed \cup S /\ UNCHANGED exported
  /\ UNCHANGED <<log, withheld, lost, closed>>

Withhold(S) ==
  /\ MaySettle(S) /\ \A p \in S : KeyOf[p] \in Withheld
  /\ withheld' = withheld \cup S
  /\ UNCHANGED <<log, exported, failed, lost, closed>>

(* Capturing ends, with the loss of the last recorded packets S.           *)
Close(S) ==
  /\ ~closed /\ closed' = TRUE
  /\ S \subseteq Pending
  /\ \A p \in S, q \in Recorded : Before(p, q) => q \in S
  /\ lost' = lost \cup S
  /\ UNCHANGED <<log, exported, failed, withheld>>

Next ==
  \/ \E p \in Packet : Capture(p)
  \/ \E S \in SUBSET Pending : Export(S) \/ Withhold(S) \/ Close(S)

Spec == Init /\ [][Next]_vars
=============================================================================
