------------------------- MODULE MCBandwidthLimiter -------------------------
(* Transfers, addresses and Client objects are interchangeable. *)
EXTENDS BandwidthLimiter, TLC

Symmetry == Permutations(Transfers) \cup Permutations(IPs)
=============================================================================
