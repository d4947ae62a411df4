---------------------------- MODULE MCInterning ----------------------------
(* Instances of Interning for TLC. *)
EXTENDS Interning, TLC
CONSTANTS t1, t2, t3, a, b, c

\* a and c share a bucket.
MCBucketOf == (a :> 0) @@ (b :> 1) @@ (c :> 0)
MCThreadSymmetry == Permutations(Threads)
=============================================================================
