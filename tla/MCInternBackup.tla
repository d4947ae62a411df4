--------------------------- MODULE MCInternBackup ---------------------------
(* Instances of InternBackup for TLC. *)
EXTENDS InternBackup, TLC
CONSTANTS t1, t2, a, b, c

\* a and c share a bucket.
MCBucketOf == (a :> 0) @@ (b :> 1) @@ (c :> 0)
\* Strings under 6 bytes: the hash sees the slot byte and zeros only.
MCRecordBucketOf == [p \in Symbols \X Keys |-> p[1][1] % 2]
MCThreadSymmetry == Permutations(Threads)
=============================================================================
