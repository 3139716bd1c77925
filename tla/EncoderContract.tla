-------------------------- MODULE EncoderContract --------------------------
(***************************************************************************)
(* Encoder seen from its caller: the two lists of records as one, and a    *)
(* datagram as a stretch of it.                                            *)
(***************************************************************************)
EXTENDS Encoder

P == INSTANCE Packing

Total(k) == k["v4"] + k["v6"]
AsSeen(d) == [seq |-> d.seq, lo |-> Total(d.lo), hi |-> Total(d.hi), template |-> d.template]
Returned  == [i \in 1 .. Len(datagrams) |-> AsSeen(datagrams[i])]
ReturnedCut == [i \in 1 .. Len(datagrams) |-> Total(datagrams[i].hi)]

(* A call that has returned did what Exporter::flush builds on: the batch  *)
(* is cut into consecutive non-empty datagrams, numbered from seq_start,   *)
(* the templates in front of the first if asked for; the sequence number   *)
(* to go on with counts the whole batch; an empty batch makes no datagram  *)
(* (encode.rs:29-32, exporter.rs:39-47).                                   *)
PackingAsPromised ==
  pc = "idle" =>
    /\ seq = (seq_start + Total(n)) % SEQ_MOD
    /\ IF Total(n) = 0 THEN datagrams = <<>>
       ELSE /\ P!IsCut(ReturnedCut, Total(n))
            /\ Returned = P!Packed(ReturnedCut, seq_start, with_template)
=============================================================================
