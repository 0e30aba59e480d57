---------------------------- MODULE MCS3Backend ----------------------------
(* Two names of one real object. *)
EXTENDS S3Backend, TLC

CONSTANTS n1, n2, x1

MCAlias == n1 :> x1 @@ n2 :> x1

Symmetric == Permutations(Request) \cup Permutations(Upload)
=============================================================================
