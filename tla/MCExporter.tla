----------------------------- MODULE MCExporter -----------------------------
(* Batches of up to three records; the sequence number wraps before the    *)
(* last of them.                                                           *)
EXTENDS Exporter

MCBatchSizes == {0, 1, 3}
=============================================================================
