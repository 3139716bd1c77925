------------------------------ MODULE Packing ------------------------------
(***************************************************************************)
(* The contract of build_datagrams as its caller sees it: the records of a *)
(* batch are cut into consecutive, non-empty datagrams.  A cut is the      *)
(* sequence of positions at which the datagrams end.  Encoder is shown to  *)
(* keep the contract, Exporter relies on it.                               *)
(***************************************************************************)
EXTENDS Integers, Sequences

CONSTANT SEQ_MOD   \* the sequence number lives in 0 .. SEQ_MOD-1

IsCut(c, count) ==
  /\ c # <<>> /\ c[Len(c)] = count
  /\ \A i \in 1 .. Len(c) : c[i] > (IF i = 1 THEN 0 ELSE c[i-1])

Cuts(count) == {c \in UNION {[1 .. k -> 1 .. count] : k \in 1 .. count} : IsCut(c, count)}

(* The datagrams of a cut: which records, the number of records on the     *)
(* stream before them, and whether the template set is in front.           *)
Packed(c, start, tmpl) ==
  [i \in 1 .. Len(c) |->
     LET lo == IF i = 1 THEN 0 ELSE c[i-1]
     IN  [seq |-> (start + lo) % SEQ_MOD, lo |-> lo, hi |-> c[i], template |-> tmpl /\ i = 1]]
=============================================================================
