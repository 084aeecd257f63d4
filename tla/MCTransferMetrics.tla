------------------------- MODULE MCTransferMetrics -------------------------
(* HTTP workers are alike. *)
EXTENDS TransferMetrics, TLC

Symmetry == Permutations(Threads)
=============================================================================
