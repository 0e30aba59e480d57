------------------------------ MODULE Buckets ------------------------------
(***************************************************************************)
(* What virtual buckets promise: each is a set of keys of its own, and a   *)
(* request that names one changes only that one.  A request under a name   *)
(* that no virtual bucket has may change one of those behind the name.     *)
(***************************************************************************)
CONSTANTS Request, Bucket, Virtual, Key, None,
    Behind       \* the virtual buckets that share the real bucket of a name

VARIABLES
    named,       \* the bucket the request of each operation names
    objects

vars == <<named, objects>>

Init ==
    /\ named = [r \in Request |-> None]
    /\ objects = [v \in Virtual |-> {}]

Ask(r, b) ==
    /\ named[r] = None
    /\ named' = [named EXCEPT ![r] = b]
    /\ UNCHANGED objects

Answered(r) == named' = [named EXCEPT ![r] = None]

Reaches(r, v) == IF named[r] \in Virtual THEN v = named[r] ELSE v \in Behind[named[r]]

Put(r, v, k) ==
    /\ Reaches(r, v) /\ Answered(r)
    /\ objects' = [objects EXCEPT ![v] = @ \cup {k}]

Delete(r, v, k) ==
    /\ Reaches(r, v) /\ Answered(r)
    /\ objects' = [objects EXCEPT ![v] = @ \ {k}]

(* The request fails, changes nothing in a virtual bucket or only reads.    *)
Without(r) == Answered(r) /\ UNCHANGED objects

Next == \E r \in Request :
    \/ \E b \in Bucket : Ask(r, b)
    \/ /\ named[r] \in Bucket
       /\ \/ Without(r)
          \/ \E v \in Virtual, k \in Key : Put(r, v, k) \/ Delete(r, v, k)

Spec == Init /\ [][Next]_vars
=============================================================================
