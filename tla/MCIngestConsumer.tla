-------------------------- MODULE MCIngestConsumer --------------------------
(* Instances of IngestConsumer for TLC. *)
EXTENDS IngestConsumer, TLC

CONSTANTS e1, e2, w1, w2
=============================================================================
