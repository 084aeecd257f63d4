------------------------- MODULE MCCompressionCache -------------------------
(* Small instances of the gzip cache: sizes in bytes, budgets per .cfg. *)
EXTENDS CompressionCache, TLC

CONSTANT PoorFiles   \* files that gzip hardly makes smaller

\* Every source has 2000 bytes and shrinks to 500: three artifacts fit into a
\* budget of 2000, one into 600 or 700, none into 400.  A poor one only loses 40.
MCSourceSize == [k \in Identities |-> 2000]
MCCompressedSize == [k \in Identities |-> IF k[1] \in PoorFiles THEN 1960 ELSE 500]

FileSymmetry == Permutations(Files)
=============================================================================
