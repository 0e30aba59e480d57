------------------------- MODULE MCObjectRequests -------------------------
EXTENDS ObjectRequests, TLC

(* bytes=-n, bytes=n- and bytes=n-m around the sizes 0 to 3. *)
Ranges ==
    {NoHeader, [kind |-> "bad"], [kind |-> "many"],
     [kind |-> "suffix", n |-> 1], [kind |-> "suffix", n |-> 3],
     [kind |-> "from", n |-> 0], [kind |-> "from", n |-> 2],
     [kind |-> "span", n |-> 1, m |-> 2], [kind |-> "span", n |-> 1, m |-> 3],
     [kind |-> "span", n |-> 2, m |-> 1]}

(* Bodies of up to four pieces: plain ones; ones with a marker, at the end  *)
(* or before it; and ones with the headers of one or two chunks, at the     *)
(* start or later, after a line break or without one, with a marker or      *)
(* without one.                                                             *)
Framed(size, sigs, breaks, mark) ==
    [size |-> size, sigs |-> sigs, breaks |-> breaks, mark |-> mark]

Contents4 ==
    {Framed(n, {}, {}, 0) : n \in 0 .. 3} \cup
    {Framed(3, {}, {2, 3}, 3), Framed(3, {}, {1, 2}, 2), Framed(3, {1}, {2}, 0),
     Framed(4, {2}, {3}, 0), Framed(4, {2}, {1, 3}, 0), Framed(4, {1, 3}, {2, 4}, 0),
     Framed(4, {1}, {2, 3, 4}, 4), Framed(4, {1}, {2, 3}, 3)}

Symmetric == Permutations(Client) \cup Permutations(Buffer)
===========================================================================
