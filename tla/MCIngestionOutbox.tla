------------------------- MODULE MCIngestionOutbox --------------------------
(* The bounds of every run of IngestionOutbox are in its cfg.              *)
EXTENDS IngestionOutbox

=============================================================================
