--------------------------- MODULE MCObjectCache ---------------------------
(* A small instance of ObjectCache: two keys of one bucket. *)
EXTENDS ObjectCache, TLC

CONSTANTS k1, k2, b1

MCBucketOf == k1 :> b1 @@ k2 :> b1

Symmetric == Permutations(Request)
=============================================================================
