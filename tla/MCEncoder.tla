----------------------------- MODULE MCEncoder -----------------------------
(* The encoder with the sizes of src/ipfix/mod.rs and template.rs; only    *)
(* the sequence space is scaled down, so that it wraps within a call.      *)
EXTENDS EncoderContract

MCFlowCounts == {0, 1, 2} \cup 12 .. 20 \cup {37, 38, 39}
MCSeqStarts == {0, SEQ_MOD - 5}
=============================================================================
