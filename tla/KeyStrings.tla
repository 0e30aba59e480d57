----------------------------- MODULE KeyStrings -----------------------------
(***************************************************************************)
(* Object keys where their order matters.  A string is the sequence of its *)
(* bytes, each given by its rank: Slash is the path separator, smaller     *)
(* ranks are bytes below it (such as '-' and '.'), greater ones letters.   *)
(***************************************************************************)
EXTENDS Integers, SequencesExt

Slash == 2

(* Go's s < t on strings: byte by byte. *)
Less(s, t) ==
    \/ IsStrictPrefix(s, t)
    \/ \E n \in DOMAIN s \cap DOMAIN t :
          /\ SubSeq(s, 1, n - 1) = SubSeq(t, 1, n - 1)
          /\ s[n] < t[n]

HasPrefix(s, p) == IsPrefix(p, s)

TrimPrefix(s, p) == IF HasPrefix(s, p) THEN SubSeq(s, Len(p) + 1, Len(s)) ELSE s

(* Where s has a delimiter after its first n bytes. *)
Delimiters(s, n) == {i \in n + 1 .. Len(s) : s[i] = Slash}

(* s up to and including the first delimiter after its first n bytes. *)
CommonPrefix(s, n) ==
    SubSeq(s, 1, CHOOSE i \in Delimiters(s, n) : \A j \in Delimiters(s, n) : i <= j)

=============================================================================
