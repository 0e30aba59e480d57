------------------------ MODULE MCFileSystemListing ------------------------
EXTENDS FileSystemListing

(* The names a, a.meta, d, d.a and .u. *)
a == <<3>>
aMeta == a \o DotMeta
d == <<5>>
dDotA == <<5, 1, 3>>
dotU == <<1, 6>>

(* a, a.meta, d/a and d.a/a: the walk comes to d before d.a, but the dot is *)
(* below the slash.                                                         *)
Objects == {<<a>>, <<aMeta>>, <<d, a>>, <<dDotA, a>>}

(* .u/a/d, part d of the upload a. *)
Parts == {<<dotU, a, d>>}

(* All keys, one or two per page; with a delimiter, what is in the bucket,  *)
(* one entry per page, or in the folder d/.                                 *)
Queries ==
    {[prefix |-> <<>>, delimiter |-> FALSE, maxKeys |-> n] : n \in 1 .. 2} \cup
    {[prefix |-> <<>>, delimiter |-> TRUE, maxKeys |-> 1],
     [prefix |-> <<5, Slash>>, delimiter |-> TRUE, maxKeys |-> 2]}
=============================================================================
