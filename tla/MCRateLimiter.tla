--------------------------- MODULE MCRateLimiter ---------------------------
(* Two HTTP workers against the limiter; workers and addresses are alike. *)
EXTENDS RateLimiter, TLC

Symmetry == Permutations(Threads) \cup Permutations(IPs)
=============================================================================
