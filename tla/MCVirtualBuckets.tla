------------------------- MODULE MCVirtualBuckets -------------------------
EXTENDS VirtualBuckets

CONSTANTS v1, v2, v3, r1, other, east, minio, aws, alice, bob

Virtual3 == {v1, v2, v3}

(* The name of the real bucket and one nothing is configured for are not    *)
(* refused either.                                                          *)
Names == Virtual3 \cup {r1, other}

Own == [real |-> Unset, prefix |-> <<>>, region |-> east, endpoint |-> aws, creds |-> alice]

(* v1 and v2 share r1 under the prefixes "3" and "34/": one is a prefix of  *)
(* the other as long as no slash is added.  v3 has the prefix of v1 in a    *)
(* bucket of the same name and region at another endpoint, by the mapping.  *)
SharedConfig ==
    LET at(real_, prefix, endpoint, creds) ==
            [real |-> real_, prefix |-> prefix, region |-> east,
             endpoint |-> endpoint, creds |-> creds] IN
    (v1 :> at(r1, <<3>>, Unset, bob)) @@ (v2 :> at(r1, <<3, 4, Slash>>, Unset, Unset)) @@
    (v3 :> at(Unset, <<3>>, minio, Unset))

NameMapping == v3 :> r1

(* The placeholder "4/" and "4/3/4"; and "3/4/3/4", which under the name of *)
(* the real bucket is the "4/3/4" of v1.                                    *)
Keys3 ==
    {<<4, Slash>>, <<4, Slash, 3, Slash, 4>>, <<3, Slash, 4, Slash, 3, Slash, 4>>}

(* Everything, and the folder "4/" with a delimiter, one entry per page. *)
Queries == {[prefix |-> <<>>, delimiter |-> FALSE, maxKeys |-> 1],
            [prefix |-> <<4, Slash>>, delimiter |-> TRUE, maxKeys |-> 1]}
===========================================================================
