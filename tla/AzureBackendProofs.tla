------------------------- MODULE AzureBackendProofs -------------------------
(***************************************************************************)
(* Proofs about AzureBackend and its readers.                              *)
(*                                                                         *)
(* The first part shows that the buffering readers deliver a body of any   *)
(* length byte by byte, over a connection that delivers any number of      *)
(* bytes at a time, to every consumer but io.ReadAll through a buffer; the *)
(* cache gets as many bytes as the object says.  It is an induction over   *)
(* the number of Reads, for which the least-number principle stands.       *)
(* The second part is the inductive invariant of the backend; the third    *)
(* follows a client through the pages of ListParts.                        *)
(***************************************************************************)
EXTENDS AzureBackend, FiniteSetTheorems, SequenceTheorems, WellFoundedInduction, TLAPS

---------------------------------------------------------------------------
(* Induction. *)

(* A non-empty set of numbers has a least one. *)
LEMMA LeastNumber ==
    ASSUME NEW T, T \subseteq Nat, T # {}
    PROVE  \E x \in T : \A y \in T : x <= y
<1> DEFINE R == OpToRel(<, Nat)
<1>1. IsWellFoundedOn(R, Nat)
  BY NatLessThanWellFounded
<1>2. \A x, y \in Nat : y < x => <<y, x>> \in R
  BY DEF OpToRel
<1> HIDE DEF R
<1>3. PICK x \in T : \A y \in T : <<y, x>> \notin R
  BY <1>1, WFMin
<1>4. ASSUME NEW y \in T PROVE x <= y
  <2>1. x \in Nat /\ y \in Nat /\ ~(y < x)
    BY <1>2, <1>3
  <2> QED BY <2>1
<1> QED BY <1>4

(* So a set that has zero, and the successor of each of its members, has    *)
(* every number.                                                            *)
LEMMA Induction ==
    ASSUME NEW T, 0 \in T, \A n \in Nat : n \in T => n + 1 \in T
    PROVE  Nat \subseteq T
<1> SUFFICES ASSUME Nat \ T # {} PROVE FALSE
  OBVIOUS
<1>1. PICK m \in Nat \ T : \A y \in Nat \ T : m <= y
  BY LeastNumber
<1>2. m # 0 /\ m - 1 \in Nat
  BY <1>1
<1>3. m - 1 \in T
  BY <1>1, <1>2
<1>4. (m - 1) + 1 \in T
  BY <1>2, <1>3
<1> QED BY <1>1, <1>2, <1>4

(* The recursion that Reads is defined by has a solution. *)
LEMMA ReadsExist ==
    ASSUME NEW kind, NEW size, NEW total, NEW consumer, NEW chunk
    PROVE  \E f : f = [i \in Nat |->
              IF i = 0 THEN Fresh ELSE ReadOn(f[i - 1], kind, size, total, consumer, chunk)]
<1> DEFINE On(s) == ReadOn(s, kind, size, total, consumer, chunk)
           Good(g, n) == /\ g[0] = Fresh
                         /\ \A i \in 1 .. n : g[i] = On(g[i - 1])
<1> HIDE DEF On
<1>1. \A n \in Nat : \E g : Good(g, n)
  <2> DEFINE T == {n \in Nat : \E g : Good(g, n)}
  <2>1. 0 \in T
    <3>1. Good([i \in {0} |-> Fresh], 0)
      OBVIOUS
    <3> QED BY <3>1
  <2>2. ASSUME NEW n \in Nat, n \in T PROVE n + 1 \in T
    <3>1. PICK g : Good(g, n)
      BY <2>2
    <3> DEFINE h == [i \in 0 .. n + 1 |-> IF i = n + 1 THEN On(g[n]) ELSE g[i]]
    <3>2. h[0] = Fresh
      BY <3>1
    <3>3. ASSUME NEW i \in 1 .. n + 1 PROVE h[i] = On(h[i - 1])
      <4>1. CASE i = n + 1
        BY <4>1
      <4>2. CASE i # n + 1
        <5>1. i \in 1 .. n /\ i - 1 \in 0 .. n + 1 /\ i - 1 # n + 1 /\ i \in 0 .. n + 1
          BY <3>3, <4>2
        <5>2. h[i] = g[i] /\ h[i - 1] = g[i - 1]
          BY <5>1, <4>2
        <5> QED BY <3>1, <5>1, <5>2
      <4> QED BY <4>1, <4>2
    <3>4. Good(h, n + 1)
      BY <3>2, <3>3
    <3> HIDE DEF h, Good
    <3> QED BY <3>4
  <2> HIDE DEF T
  <2>3. Nat \subseteq T
    BY <2>1, <2>2, Induction
  <2> QED BY <2>3 DEF T
<1>2. ASSUME NEW n \in Nat, NEW g, NEW h, Good(g, n), Good(h, n)
      PROVE  \A i \in Nat : i <= n => g[i] = h[i]
  <2> DEFINE T == {i \in Nat : i <= n => g[i] = h[i]}
  <2>1. 0 \in T
    BY <1>2
  <2>2. ASSUME NEW i \in Nat, i \in T PROVE i + 1 \in T
    <3> SUFFICES ASSUME i + 1 <= n PROVE g[i + 1] = h[i + 1]
      OBVIOUS
    <3>1. i + 1 \in 1 .. n /\ (i + 1) - 1 = i /\ i <= n
      OBVIOUS
    <3> QED BY <1>2, <2>2, <3>1
  <2> HIDE DEF T
  <2>3. Nat \subseteq T
    BY <2>1, <2>2, Induction
  <2> QED BY <2>3 DEF T
<1> DEFINE G(n) == CHOOSE g : Good(g, n)
<1>3. \A n \in Nat : Good(G(n), n)
  BY <1>1
<1> HIDE DEF G
<1> DEFINE f == [i \in Nat |-> G(i)[i]]
<1>4. ASSUME NEW i \in Nat
      PROVE  f[i] = IF i = 0 THEN Fresh ELSE On(f[i - 1])
  <2>1. CASE i = 0
    BY <1>3, <2>1
  <2>2. CASE i # 0
    <3>1. i - 1 \in Nat /\ i \in 1 .. i /\ i - 1 <= i - 1
      BY <2>2
    <3>2. G(i)[i] = On(G(i)[i - 1])
      BY <1>3, <3>1
    <3>3. Good(G(i), i - 1)
      BY <1>3, <3>1
    <3>4. Good(G(i - 1), i - 1)
      BY <1>3, <3>1
    <3>5. G(i)[i - 1] = G(i - 1)[i - 1]
      <4> HIDE DEF Good
      <4> QED BY <1>2, <3>1, <3>3, <3>4
    <3> QED BY <2>2, <3>1, <3>2, <3>5
  <2> QED BY <2>1, <2>2
<1>5. f = [i \in Nat |-> IF i = 0 THEN Fresh ELSE On(f[i - 1])]
  BY <1>4
<1> HIDE DEF f
<1> QED BY <1>5 DEF On

(* So the reader is fresh at first, and what ReadOn makes of it after each  *)
(* Read.                                                                    *)
LEMMA ReadsAre ==
    ASSUME NEW kind, NEW size, NEW total, NEW consumer, NEW chunk
    PROVE  /\ Reads(kind, size, total, consumer, chunk)[0] = Fresh
           /\ \A i \in Nat : Reads(kind, size, total, consumer, chunk)[i + 1] =
                 ReadOn(Reads(kind, size, total, consumer, chunk)[i], kind, size, total, consumer, chunk)
<1> DEFINE step[i \in Nat] ==
            IF i = 0 THEN Fresh ELSE ReadOn(step[i - 1], kind, size, total, consumer, chunk)
<1>1. Reads(kind, size, total, consumer, chunk) = step
  BY DEF Reads
<1>2. step = [i \in Nat |-> IF i = 0 THEN Fresh
                            ELSE ReadOn(step[i - 1], kind, size, total, consumer, chunk)]
  BY ReadsExist
<1> HIDE DEF step
<1>3. step[0] = Fresh /\ \A i \in Nat : step[i + 1] = ReadOn(step[i], kind, size, total, consumer, chunk)
  BY <1>2
<1> QED BY <1>1, <1>3

---------------------------------------------------------------------------
(* One Read. *)

Reader == [src : Nat, cap : Nat, data : Seq(Nat), pos : Nat, n : Nat,
           out : Seq(Nat), room : Nat, ended : BOOLEAN, panicked : BOOLEAN]

(* The bytes of the body from the one after number k. *)
From(s, k) == \A i \in 1 .. Len(s) : s[i] = k + i

(* The reader's books: the consumer has a beginning of the body, the buffer *)
(* what follows, and the connection the rest.                               *)
Books(s, total) ==
    /\ s \in Reader /\ ~s.panicked
    /\ s.src <= total /\ From(s.out, 0)
    /\ s.ended => Len(s.out) = total
    /\ ~s.ended => /\ s.pos <= s.n /\ s.n = Len(s.data) /\ s.n <= s.src
                   /\ Len(s.out) + (s.n - s.pos) = s.src
                   /\ s.pos < s.n => From(s.data, s.src - s.n)

(* What follows what the consumer has extends it. *)
LEMMA FromAppend ==
    ASSUME NEW s \in Seq(Nat), NEW t \in Seq(Nat), From(s, 0), From(t, Len(s))
    PROVE  s \o t \in Seq(Nat) /\ Len(s \o t) = Len(s) + Len(t) /\ From(s \o t, 0)
<1>1. s \o t \in Seq(Nat) /\ Len(s \o t) = Len(s) + Len(t) /\ Len(s) \in Nat /\ Len(t) \in Nat
  OBVIOUS
<1>2. ASSUME NEW i \in 1 .. Len(s) + Len(t) PROVE (s \o t)[i] = 0 + i
  <2>1. CASE i <= Len(s)
    BY <1>1, <1>2, <2>1 DEF From
  <2>2. CASE i > Len(s)
    <3>1. i - Len(s) \in 1 .. Len(t) /\ (s \o t)[i] = t[i - Len(s)]
      BY <1>1, <1>2, <2>2
    <3> QED BY <1>1, <1>2, <3>1 DEF From
  <2> QED BY <1>1, <1>2, <2>1, <2>2
<1> QED BY <1>1, <1>2 DEF From

(* What arrives is the next bytes; nothing does only at the end. *)
LEMMA ArrivingIs ==
    ASSUME NEW total \in Nat, NEW s \in Reader, s.src <= total,
           NEW max \in Nat \ {0}, NEW chunk \in Nat \ {0}
    PROVE  LET got == Arriving(s, total, max, chunk) IN
           /\ got \in Seq(Nat) /\ Len(got) <= max /\ s.src + Len(got) <= total
           /\ From(got, s.src) /\ (got = <<>> <=> Len(got) = 0)
           /\ Len(got) = 0 <=> s.src = total
<1> DEFINE k == Least(Least(max, chunk), total - s.src)
           got == Arriving(s, total, max, chunk)
<1>1. s.src \in Nat
  BY DEF Reader
<1>2. k \in Nat /\ k <= max /\ s.src + k <= total /\ (k = 0 <=> s.src = total)
  BY <1>1 DEF Least
<1> HIDE DEF k
<1>3. got = [i \in 1 .. k |-> s.src + i]
  BY DEF Arriving, k
<1>4. got \in Seq(Nat) /\ Len(got) = k /\ \A i \in 1 .. k : got[i] = s.src + i
  BY <1>1, <1>2, <1>3
<1> HIDE DEF got
<1>5. got = <<>> <=> Len(got) = 0
  BY <1>4, EmptySeq
<1> QED BY <1>2, <1>4, <1>5 DEF From, got

(* A Read past the buffer, when that is empty. *)
LEMMA ReadPastKeeps ==
    ASSUME NEW total \in Nat, NEW s, Books(s, total), ~s.ended, s.pos = s.n,
           NEW len \in Nat \ {0}, NEW chunk \in Nat \ {0}
    PROVE  LET t == ReadPast(s, total, len, chunk) IN
           /\ Books(t, total) /\ t.cap = s.cap /\ t.room = s.room /\ (~t.ended => t.pos = t.n)
           /\ ~t.ended => Len(t.out) > Len(s.out)
           /\ Len(t.out) <= Len(s.out) + len
<1> DEFINE got == Arriving(s, total, len, chunk)
           t == ReadPast(s, total, len, chunk)
<1>1. /\ s \in Reader /\ s.src \in Nat /\ s.out \in Seq(Nat) /\ s.n \in Nat /\ s.pos \in Nat
      /\ s.src <= total /\ Len(s.out) \in Nat /\ s.cap \in Nat /\ s.data \in Seq(Nat)
      /\ s.room \in Nat /\ s.panicked = FALSE
  BY DEF Books, Reader
<1>2. Len(s.out) = s.src
  BY <1>1 DEF Books
<1>3. /\ got \in Seq(Nat) /\ s.src + Len(got) <= total /\ From(got, s.src)
      /\ got = <<>> <=> Len(got) = 0
      /\ Len(got) = 0 <=> s.src = total
      /\ Len(got) <= len
  BY <1>1, ArrivingIs
<1>4. t = [s EXCEPT !.src = s.src + Len(got), !.out = s.out \o got, !.ended = (got = <<>>)]
  BY DEF ReadPast
<1> HIDE DEF got, t
<1>5. /\ s.out \o got \in Seq(Nat) /\ Len(s.out \o got) = Len(s.out) + Len(got)
      /\ From(s.out \o got, 0) /\ Len(got) \in Nat
  <2>1. From(s.out, 0) /\ From(got, Len(s.out))
    BY <1>2, <1>3 DEF Books
  <2> QED BY <1>1, <1>3, <2>1, FromAppend
<1>6. /\ t.src = s.src + Len(got) /\ t.out = s.out \o got /\ (t.ended <=> Len(got) = 0)
      /\ t.pos = s.pos /\ t.n = s.n /\ t.cap = s.cap /\ t.data = s.data
      /\ ~t.panicked /\ t.room = s.room
  <2>1. t.ended = (got = <<>>)
    BY <1>1, <1>4 DEF Reader
  <2>2. t.ended <=> Len(got) = 0
    BY <1>3, <2>1
  <2> QED BY <1>1, <1>4, <2>2 DEF Reader
<1>7. t \in Reader
  <2>1. s.src + Len(got) \in Nat
    BY <1>1, <1>5
  <2>2. \A x \in Nat, y \in Seq(Nat), e \in BOOLEAN :
           [s EXCEPT !.src = x, !.out = y, !.ended = e] \in Reader
    BY <1>1 DEF Reader
  <2> QED BY <1>4, <1>5, <2>1, <2>2
<1>8. Books(t, total)
  <2>1. t.src <= total /\ From(t.out, 0) /\ ~t.panicked
    BY <1>3, <1>5, <1>6
  <2>2. Len(t.out) = t.src /\ (t.ended => t.src = total)
    BY <1>1, <1>2, <1>3, <1>5, <1>6
  <2>3. t.pos = t.n /\ t.n = Len(t.data) /\ s.n <= s.src
    BY <1>6 DEF Books
  <2>4. t.n <= t.src /\ t.n - t.pos = 0 /\ t.src \in Nat
    BY <1>1, <1>5, <1>6, <2>3
  <2> QED BY <1>7, <2>1, <2>2, <2>3, <2>4 DEF Books
<1>9. (~t.ended => Len(t.out) > Len(s.out)) /\ Len(t.out) <= Len(s.out) + len
  BY <1>1, <1>3, <1>5, <1>6
<1> QED BY <1>6, <1>8, <1>9 DEF t

(* The buffer is filled again, when all of it has been delivered. *)
LEMMA RefillKeeps ==
    ASSUME NEW total \in Nat, NEW s \in Reader, ~s.panicked, s.src <= total, From(s.out, 0),
           ~s.ended, Len(s.out) = s.src, s.cap # 0, NEW chunk \in Nat \ {0}
    PROVE  LET t == Refill(s, total, chunk) IN
           /\ Books(t, total) /\ t.cap = s.cap /\ t.out = s.out
           /\ ~t.ended => t.pos < t.n /\ t.n <= t.cap
<1> DEFINE got == Arriving(s, total, s.cap, chunk)
           t == Refill(s, total, chunk)
<1>1. /\ s.src \in Nat /\ s.out \in Seq(Nat) /\ s.n \in Nat /\ s.pos \in Nat
      /\ s.cap \in Nat \ {0} /\ s.data \in Seq(Nat) /\ s.room \in Nat
      /\ s.panicked \in BOOLEAN /\ s.ended \in BOOLEAN
  BY DEF Reader
<1>2. /\ got \in Seq(Nat) /\ Len(got) <= s.cap /\ s.src + Len(got) <= total /\ From(got, s.src)
      /\ got = <<>> <=> Len(got) = 0
      /\ Len(got) = 0 <=> s.src = total
  <2>1. PICK max \in Nat \ {0} : max = s.cap
    BY <1>1
  <2> QED BY <1>1, <2>1, ArrivingIs
<1>3. Len(got) \in Nat
  BY <1>2
<1>4. CASE got = <<>>
  <2>1. t = [s EXCEPT !.n = 0, !.ended = TRUE]
    BY <1>4 DEF Refill
  <2> HIDE DEF t, got
  <2>2. t \in Reader
    BY <1>1, <2>1 DEF Reader
  <2>3. t.ended /\ t.cap = s.cap /\ t.out = s.out /\ ~t.panicked /\ t.src = s.src
    BY <2>1 DEF Reader
  <2>4. Len(t.out) = total
    BY <1>2, <1>4, <2>3
  <2>5. Books(t, total)
    BY <2>2, <2>3, <2>4 DEF Books
  <2> QED BY <2>3, <2>5 DEF t
<1>5. CASE got # <<>>
  <2>1. t = [s EXCEPT !.src = s.src + Len(got), !.data = got, !.n = Len(got), !.pos = 0]
    BY <1>5 DEF Refill
  <2> HIDE DEF t, got
  <2>2. t \in Reader
    <3>1. \A x, y \in Nat : [s EXCEPT !.src = x, !.data = got, !.n = y, !.pos = 0] \in Reader
      BY <1>2 DEF Reader
    <3>2. s.src + Len(got) \in Nat
      BY <1>1, <1>3
    <3> QED BY <1>3, <2>1, <3>1, <3>2
  <2>3. /\ ~t.ended /\ t.cap = s.cap /\ t.out = s.out /\ ~t.panicked
        /\ t.src = s.src + Len(got) /\ t.data = got /\ t.n = Len(got) /\ t.pos = 0
    BY <2>1 DEF Reader
  <2>4. t.n > 0 /\ t.n <= t.cap /\ t.n <= t.src /\ t.src <= total /\ t.pos < t.n /\ t.pos <= t.n
    <3>1. PICK m \in Nat, src \in Nat, cap \in Nat : m = Len(got) /\ src = s.src /\ cap = s.cap
      BY <1>1, <1>3
    <3>2. m # 0 /\ m <= cap /\ src + m <= total
      BY <1>2, <1>5, <3>1
    <3>3. m > 0 /\ m <= src + m
      BY <3>2
    <3> QED BY <2>3, <3>1, <3>2, <3>3
  <2>5. Len(t.out) + (t.n - t.pos) = t.src /\ t.src - t.n = s.src
    <3>1. PICK m \in Nat, src \in Nat : m = Len(got) /\ src = s.src
      BY <1>1, <1>3
    <3>2. src + (m - 0) = src + m /\ (src + m) - m = src
      OBVIOUS
    <3> QED BY <2>3, <3>1, <3>2
  <2>6. From(t.data, t.src - t.n)
    BY <1>2, <2>3, <2>5
  <2>7. Books(t, total)
    BY <2>2, <2>3, <2>4, <2>5, <2>6 DEF Books
  <2> QED BY <2>3, <2>4, <2>7 DEF t
<1> QED BY <1>4, <1>5

(* Bytes of the buffer are handed out. *)
LEMMA CopyOutKeeps ==
    ASSUME NEW total \in Nat, NEW s, Books(s, total), ~s.ended, s.pos < s.n, s.n <= s.cap,
           NEW len \in Nat \ {0}
    PROVE  LET t == CopyOut(s, len) IN
           /\ Books(t, total) /\ ~t.ended /\ t.cap = s.cap /\ t.n = s.n
           /\ Len(t.out) > Len(s.out) /\ Len(t.out) <= Len(s.out) + len
           /\ t.pos = t.n \/ Len(t.out) = Len(s.out) + len
<1> DEFINE least == Least(len, s.n - s.pos)
           more == SubSeq(s.data, s.pos + 1, s.pos + least)
           t == CopyOut(s, len)
<1>1. /\ s \in Reader /\ s.out \in Seq(Nat) /\ s.data \in Seq(Nat) /\ s.cap \in Nat
      /\ s.room \in Nat /\ s.panicked \in BOOLEAN /\ s.ended \in BOOLEAN /\ ~s.panicked
  BY DEF Books, Reader
<1>2. PICK n \in Nat, pos \in Nat, src \in Nat, had \in Nat, cap \in Nat :
         n = s.n /\ pos = s.pos /\ src = s.src /\ had = Len(s.out) /\ cap = s.cap
  BY <1>1 DEF Reader
<1>3. n <= src /\ had + (n - pos) = src /\ src <= total /\ pos < n /\ n <= cap
  BY <1>2 DEF Books
<1>4. n = Len(s.data) /\ From(s.data, src - n) /\ From(s.out, 0)
  BY <1>2 DEF Books
<1>5. PICK k \in Nat : k = least
  BY <1>2, <1>3 DEF Least
<1>6. k >= 1 /\ k <= n - pos /\ k <= len /\ (k = n - pos \/ k = len)
  BY <1>2, <1>3, <1>5 DEF Least
<1>7. t = [s EXCEPT !.out = s.out \o more, !.pos = pos + k]
  <2>1. ~(s.n > s.cap)
    BY <1>2, <1>3
  <2>2. t = [s EXCEPT !.out = s.out \o more, !.pos = s.pos + least]
    BY <2>1 DEF CopyOut
  <2> HIDE DEF least, more, t
  <2> QED BY <1>2, <1>5, <2>2
<1> HIDE DEF least, more, t
<1>8. more \in Seq(Nat) /\ Len(more) = k /\ \A i \in 1 .. k : more[i] = s.data[pos + i]
  <2>1. pos + k <= n /\ pos + 1 \in 1 .. n + 1 /\ pos + k \in Nat /\ (pos + k) - (pos + 1) + 1 = k
    BY <1>3, <1>6
  <2>2. more = SubSeq(s.data, pos + 1, pos + k)
    BY <1>2, <1>5 DEF more
  <2>3. \A i \in 1 .. k : pos + 1 + i - 1 = pos + i
    OBVIOUS
  <2>4. 1 .. k = 1 .. (pos + k) - (pos + 1) + 1 /\ pos + 1 <= pos + k
    BY <1>6
  <2>5. PICK m \in 1 .. n + 1, e \in 0 .. n : m = pos + 1 /\ e = pos + k
    BY <2>1
  <2>6. /\ SubSeq(s.data, m, e) \in Seq(Nat)
        /\ Len(SubSeq(s.data, m, e)) = IF m <= e THEN e - m + 1 ELSE 0
        /\ \A i \in 1 .. e - m + 1 : SubSeq(s.data, m, e)[i] = s.data[m + i - 1]
    <3>1. m \in Int /\ e \in Int /\ \A i \in m .. e : i \in 1 .. n
      OBVIOUS
    <3>2. \A i \in m .. e : s.data[i] \in Nat
      BY <1>1, <1>4, <3>1, ElementOfSeq
    <3> QED BY <3>1, <3>2, SubSeqProperties
  <2>7. more = SubSeq(s.data, m, e) /\ m <= e /\ e - m + 1 = k /\ \A i \in 1 .. k : m + i - 1 = pos + i
    BY <2>1, <2>2, <2>3, <2>4, <2>5
  <2> QED BY <2>6, <2>7
<1>9. From(more, had)
  <2> SUFFICES ASSUME NEW i \in 1 .. k PROVE more[i] = had + i
    BY <1>8 DEF From
  <2>1. pos + i \in 1 .. n
    BY <1>3, <1>6
  <2>2. s.data[pos + i] = (src - n) + (pos + i)
    BY <1>4, <2>1 DEF From
  <2>3. (src - n) + (pos + i) = had + i
    BY <1>3
  <2> QED BY <1>8, <2>2, <2>3
<1>10. /\ s.out \o more \in Seq(Nat) /\ Len(s.out \o more) = had + k
      /\ From(s.out \o more, 0)
  BY <1>1, <1>2, <1>4, <1>8, <1>9, FromAppend
<1>11. t \in Reader
  <2>1. \A x \in Nat : [s EXCEPT !.out = s.out \o more, !.pos = x] \in Reader
    BY <1>1, <1>10 DEF Reader
  <2>2. pos + k \in Nat
    OBVIOUS
  <2> QED BY <1>7, <2>1, <2>2
<1>12. /\ t.out = s.out \o more /\ t.pos = pos + k /\ ~t.ended /\ ~t.panicked
       /\ t.cap = cap /\ t.n = n /\ t.src = src /\ t.data = s.data
  BY <1>1, <1>2, <1>7 DEF Reader
<1>13. pos + k <= n /\ (had + k) + (n - (pos + k)) = src /\ had + k > had
  BY <1>3, <1>6
<1>14. Books(t, total)
  BY <1>3, <1>4, <1>10, <1>11, <1>12, <1>13 DEF Books
<1>15. (pos + k = n \/ had + k = had + len) /\ had + k <= had + len
  BY <1>3, <1>6
<1> QED BY <1>2, <1>10, <1>12, <1>13, <1>14, <1>15 DEF t

(* A Read of less than the buffer. *)
LEMMA ReadBufferedKeeps ==
    ASSUME NEW total \in Nat, NEW s, Books(s, total), ~s.ended, NEW kind,
           NEW len \in Nat \ {0}, NEW chunk \in Nat \ {0},
           BufferFor(kind, s.cap, len) \in Nat \ {0},
           s.pos = s.n \/ (s.cap = BufferFor(kind, s.cap, len) /\ s.n <= s.cap)
    PROVE  LET t == ReadBuffered(s, kind, total, len, chunk) IN
           /\ Books(t, total)
           /\ ~t.ended => /\ t.cap = BufferFor(kind, s.cap, len) /\ t.n <= t.cap
                          /\ Len(t.out) > Len(s.out)
                          /\ t.pos = t.n \/ Len(t.out) = Len(s.out) + len
           /\ Len(t.out) <= Len(s.out) + len
<1> DEFINE cap == BufferFor(kind, s.cap, len)
           b == WithBuffer(s, cap)
           f == IF b.pos >= b.n THEN Refill(b, total, chunk) ELSE b
           t == ReadBuffered(s, kind, total, len, chunk)
<1>1. /\ s \in Reader /\ s.src \in Nat /\ s.n \in Nat /\ s.pos \in Nat /\ s.pos <= s.n
      /\ s.cap \in Nat /\ s.src <= total /\ From(s.out, 0) /\ ~s.panicked
      /\ Len(s.out) \in Nat /\ Len(s.out) + (s.n - s.pos) = s.src
  BY DEF Books, Reader
<1>2. t = IF f.ended THEN f ELSE CopyOut(f, len)
  BY DEF ReadBuffered
<1>3. cap \in Nat \ {0}
  OBVIOUS
<1> HIDE DEF cap, t
<1>4. /\ b \in Reader /\ b.cap = cap /\ b.out = s.out /\ b.pos = s.pos /\ b.n = s.n
      /\ b.src = s.src /\ ~b.panicked /\ ~b.ended
  <2>1. CASE cap = s.cap
    BY <1>1, <2>1 DEF WithBuffer
  <2>2. CASE cap # s.cap
    <3> DEFINE zeros == [i \in 1 .. s.n |-> Zero]
    <3>1. zeros \in Seq(Nat)
      BY <1>1 DEF Zero
    <3> HIDE DEF zeros
    <3>2. b = [s EXCEPT !.cap = cap, !.data = zeros]
      BY <2>2 DEF WithBuffer, zeros
    <3> HIDE DEF b
    <3> QED BY <1>1, <1>3, <3>1, <3>2 DEF Reader
  <2> QED BY <2>1, <2>2
<1>5. /\ Books(f, total) /\ f.cap = cap /\ f.out = s.out
      /\ ~f.ended => f.pos < f.n /\ f.n <= f.cap
  <2>1. CASE s.pos = s.n
    <3>1. Len(b.out) = b.src /\ b.pos >= b.n
      BY <1>1, <1>4, <2>1
    <3>2. f = Refill(b, total, chunk)
      BY <3>1
    <3> HIDE DEF b, f
    <3> QED BY <1>1, <1>3, <1>4, <3>1, <3>2, RefillKeeps
  <2>2. CASE s.pos # s.n
    <3>1. cap = s.cap /\ s.n <= s.cap
      BY <2>2 DEF cap
    <3>2. b = s /\ f = s
      BY <1>1, <2>2, <3>1 DEF WithBuffer
    <3> HIDE DEF b, f
    <3> QED BY <1>1, <2>2, <3>1, <3>2
  <2> QED BY <2>1, <2>2
<1> HIDE DEF b, f
<1>6. CASE f.ended
  <2>1. t = f
    BY <1>2, <1>6
  <2>2. Len(t.out) <= Len(s.out) + len
    BY <1>1, <1>5, <2>1
  <2> QED BY <1>5, <1>6, <2>1, <2>2 DEF t
<1>7. CASE ~f.ended
  <2>1. t = CopyOut(f, len)
    BY <1>2, <1>7
  <2>2. /\ Books(t, total) /\ ~t.ended /\ t.cap = f.cap /\ t.n = f.n
        /\ Len(t.out) > Len(f.out) /\ Len(t.out) <= Len(f.out) + len
        /\ t.pos = t.n \/ Len(t.out) = Len(f.out) + len
    BY <1>5, <1>7, <2>1, CopyOutKeeps
  <2> QED BY <1>5, <1>7, <2>2 DEF t, cap
<1> QED BY <1>6, <1>7

---------------------------------------------------------------------------
(* All Reads of a consumer. *)

(* Who reads through which reader. *)
Suits(kind, consumer) ==
    \/ kind = "upload" /\ consumer = "blocks"
    \/ kind \in {"high", "fast", "plain"} /\ consumer \in {"copy", "full"}
    \/ kind = "plain" /\ consumer = "all"

(* The one buffer that small Reads work with. *)
Fixed(kind) == IF kind = "high" THEN HighSmall ELSE Bypass(kind)

(* Between two Reads the buffer is empty, or its bytes are left for Reads   *)
(* that are all small, so that none replaces it or goes past it, or the     *)
(* consumer wants no more.                                                  *)
ReaderInv(s, kind, size, total, consumer) ==
    /\ Books(s, total)
    /\ consumer = "full" => Len(s.out) <= size
    /\ consumer = "all" => s.room >= 1 /\ Len(s.out) <= s.room
    /\ ~s.ended =>
          \/ s.pos = s.n
          \/ consumer = "full" /\ Len(s.out) = size
          \/ /\ kind # "plain" /\ consumer # "full"
             /\ s.cap = Fixed(kind) /\ s.n <= s.cap

(* The sizes of buffers and Reads. *)
LEMMA SizeFacts ==
    ASSUME NEW kind, NEW consumer, Suits(kind, consumer), NEW size \in Nat, NEW s \in Reader,
           ~Finished(s, consumer, size),
           consumer = "all" => s.room >= 1 /\ Len(s.out) <= s.room
    PROVE  LET len == Wanted(s, consumer, size) IN
           /\ len \in Nat \ {0} /\ Bypass(kind) \in Nat
           /\ kind = "plain" => len >= Bypass(kind)
           /\ kind # "plain" =>
                 /\ Bypass(kind) # 0 /\ Fixed(kind) \in Nat \ {0}
                 /\ BufferFor(kind, s.cap, len) \in Nat \ {0}
           /\ kind # "plain" /\ consumer # "full" =>
                 len < Bypass(kind) /\ BufferFor(kind, s.cap, len) = Fixed(kind)
           /\ consumer = "full" => len = size - Len(s.out)
           /\ consumer = "all" => len = Room(s) - Len(s.out) /\ Room(s) >= 1
<1> DEFINE len == Wanted(s, consumer, size)
<1>1. /\ HighSmall \in Nat /\ HighMedium \in Nat /\ HighLarge \in Nat /\ FastLarge \in Nat
      /\ UploadLarge \in Nat /\ CopySize \in Nat /\ BlockSize \in Nat
      /\ HighSmall > 0 /\ HighMedium > 0 /\ HighLarge > 0 /\ FastLarge > 0 /\ UploadLarge > 0
      /\ CopySize > 0 /\ BlockSize > 0
  BY ReaderAssumption
<1>2. /\ HighSmall < HighMedium /\ HighMedium < HighLarge
      /\ CopySize < HighSmall /\ CopySize < FastLarge /\ BlockSize < UploadLarge
  BY ReaderAssumption
<1>3. /\ kind \in {"upload", "high", "fast", "plain"}
      /\ consumer \in {"blocks", "copy", "full", "all"}
      /\ consumer = "blocks" <=> kind = "upload"
      /\ consumer = "all" => kind = "plain"
  BY DEF Suits
<1>4. /\ kind = "high" => Bypass(kind) = HighLarge
      /\ kind = "fast" => Bypass(kind) = FastLarge
      /\ kind = "upload" => Bypass(kind) = UploadLarge
      /\ kind = "plain" => Bypass(kind) = 0
  BY DEF Bypass
<1>5. PICK had \in Nat, cap \in Nat, room \in Nat :
         had = Len(s.out) /\ cap = s.cap /\ room = s.room
  BY DEF Reader
<1>6. /\ consumer = "copy" => len = CopySize
      /\ consumer = "full" => len = size - had
      /\ consumer = "blocks" => len = BlockSize - (had % BlockSize)
      /\ consumer = "all" => len = Room(s) - had
  BY <1>5 DEF Wanted
<1>7. /\ consumer = "full" => had < size
      /\ consumer = "all" => Room(s) \in Nat /\ Room(s) >= 1 /\ had < Room(s)
  BY <1>5 DEF Finished, Room
<1> HIDE DEF len
<1>8. had % BlockSize \in Nat /\ had % BlockSize < BlockSize
  BY <1>1
<1>9. len \in Nat \ {0} /\ (consumer = "blocks" => len <= BlockSize)
  <2>1. CASE consumer = "copy"
    BY <1>1, <1>6, <2>1
  <2>2. CASE consumer = "full"
    BY <1>6, <1>7, <2>2
  <2>3. CASE consumer = "blocks"
    <3>1. PICK m \in Nat : m = had % BlockSize /\ m < BlockSize
      BY <1>8
    <3>2. BlockSize - m \in Nat /\ BlockSize - m # 0 /\ BlockSize - m <= BlockSize
      BY <1>1, <3>1
    <3> QED BY <1>6, <2>3, <3>1, <3>2
  <2>4. CASE consumer = "all"
    BY <1>6, <1>7, <2>4
  <2> QED BY <1>3, <2>1, <2>2, <2>3, <2>4
<1>10. Bypass(kind) \in Nat /\ (kind = "plain" => len >= Bypass(kind))
  BY <1>1, <1>3, <1>4, <1>9
<1>11. kind # "plain" => Bypass(kind) # 0 /\ Fixed(kind) \in Nat \ {0}
  BY <1>1, <1>3, <1>4 DEF Fixed
<1>12. kind # "plain" => BufferFor(kind, s.cap, len) \in Nat \ {0}
  <2>1. CASE kind = "high"
    <3>1. BufferFor(kind, cap, len) \in {HighSmall, HighMedium, cap}
      BY <2>1 DEF BufferFor
    <3>2. BufferFor(kind, cap, len) = cap => cap >= HighMedium \/ cap \in {HighSmall, HighMedium}
      BY <1>1, <2>1 DEF BufferFor
    <3> QED BY <1>1, <1>5, <3>1, <3>2
  <2>2. CASE kind # "high"
    BY <1>10, <1>11, <2>2 DEF BufferFor
  <2> QED BY <2>1, <2>2
<1>13. kind # "plain" /\ consumer # "full" =>
          len < Bypass(kind) /\ BufferFor(kind, s.cap, len) = Fixed(kind)
  <2> SUFFICES ASSUME kind # "plain", consumer # "full"
               PROVE  len < Bypass(kind) /\ BufferFor(kind, s.cap, len) = Fixed(kind)
    OBVIOUS
  <2>1. CASE kind = "upload"
    <3>1. len <= BlockSize /\ Bypass(kind) = UploadLarge
      BY <1>3, <1>4, <1>9, <2>1
    <3>2. len < UploadLarge
      BY <1>1, <1>2, <1>9, <3>1
    <3> QED BY <2>1, <3>1, <3>2 DEF BufferFor, Fixed
  <2>2. CASE kind = "high"
    <3>1. len = CopySize /\ Bypass(kind) = HighLarge
      BY <1>3, <1>4, <1>6, <2>2
    <3>2. CopySize < HighSmall /\ CopySize < HighLarge
      BY <1>1, <1>2
    <3> QED BY <2>2, <3>1, <3>2 DEF BufferFor, Fixed
  <2>3. CASE kind = "fast"
    <3>1. len = CopySize /\ Bypass(kind) = FastLarge
      BY <1>3, <1>4, <1>6, <2>3
    <3> QED BY <1>2, <2>3, <3>1 DEF BufferFor, Fixed
  <2> QED BY <1>3, <2>1, <2>2, <2>3
<1>14. /\ consumer = "full" => len = size - Len(s.out)
       /\ consumer = "all" => len = Room(s) - Len(s.out) /\ Room(s) >= 1
  BY <1>5, <1>6, <1>7
<1> QED BY <1>9, <1>10, <1>11, <1>12, <1>13, <1>14 DEF len

(* A Read keeps the books and brings a byte, or there is no more to read. *)
LEMMA ReadOnKeeps ==
    ASSUME NEW kind, NEW consumer, Suits(kind, consumer), NEW size \in Nat, NEW total \in Nat,
           NEW chunk \in Nat \ {0}, NEW s, ReaderInv(s, kind, size, total, consumer)
    PROVE  LET t == ReadOn(s, kind, size, total, consumer, chunk) IN
           /\ ReaderInv(t, kind, size, total, consumer)
           /\ \/ Finished(t, consumer, size)
              \/ ~Finished(s, consumer, size) /\ Len(t.out) > Len(s.out)
<1> DEFINE t == ReadOn(s, kind, size, total, consumer, chunk)
           len == Wanted(s, consumer, size)
           u == [s EXCEPT !.room = Room(s)]
<1>1. CASE Finished(s, consumer, size)
  BY <1>1 DEF ReadOn
<1>2. CASE ~Finished(s, consumer, size)
  <2>1. s \in Reader /\ ~s.ended /\ Books(s, total)
    BY <1>2 DEF ReaderInv, Books, Finished
  <2>2. t = Read(u, kind, total, len, chunk)
    BY <1>2 DEF ReadOn
  <2>3. /\ u.src = s.src /\ u.cap = s.cap /\ u.data = s.data /\ u.pos = s.pos /\ u.n = s.n
        /\ u.out = s.out /\ u.ended = s.ended /\ u.panicked = s.panicked /\ u \in Reader
        /\ u.room = Room(s)
    <3>1. Room(s) \in Nat
      <4>1. PICK room \in Nat : room = s.room
        BY <2>1 DEF Reader
      <4> QED BY <4>1 DEF Room
    <3> HIDE DEF t, len
    <3> QED BY <2>1, <3>1 DEF Reader
  <2> HIDE DEF u
  <2>4. Books(u, total)
    BY <2>1, <2>3 DEF Books
  <2>5. /\ len \in Nat \ {0} /\ Bypass(kind) \in Nat
        /\ kind = "plain" => len >= Bypass(kind)
        /\ kind # "plain" => BufferFor(kind, u.cap, len) \in Nat \ {0}
        /\ kind # "plain" /\ consumer # "full" =>
              len < Bypass(kind) /\ BufferFor(kind, u.cap, len) = Fixed(kind)
        /\ consumer = "full" => len = size - Len(u.out)
        /\ consumer = "all" => len = u.room - Len(u.out) /\ u.room >= 1
    <3>1. consumer = "all" => s.room >= 1 /\ Len(s.out) <= s.room
      BY DEF ReaderInv
    <3> HIDE DEF t
    <3> QED BY <1>2, <2>1, <2>3, <3>1, SizeFacts
  <2> HIDE DEF len, t
  <2>6. consumer = "full" => Len(s.out) < size
    <3>1. PICK had \in Nat : had = Len(s.out)
      BY <2>1 DEF Reader
    <3> QED BY <1>2, <3>1 DEF Finished
  <2>7. ASSUME Books(t, total), Len(t.out) <= Len(u.out) + len, consumer = "all" => t.room = u.room
        PROVE  /\ consumer = "full" => Len(t.out) <= size
               /\ consumer = "all" => t.room >= 1 /\ Len(t.out) <= t.room
               /\ consumer = "full" /\ Len(t.out) = Len(u.out) + len => Len(t.out) = size
    <3>1. PICK now \in Nat, had \in Nat, room \in Nat :
             now = Len(t.out) /\ had = Len(u.out) /\ room = u.room
      BY <2>3, <2>7 DEF Books, Reader
    <3>2. PICK l \in Nat : l = len
      BY <2>5
    <3>3. now <= had + l
      BY <2>7, <3>1, <3>2
    <3>4. CASE consumer = "full"
      BY <2>5, <3>1, <3>2, <3>3, <3>4
    <3>5. CASE consumer = "all"
      BY <2>5, <2>7, <3>1, <3>2, <3>3, <3>5
    <3> QED BY <3>4, <3>5
  <2>8. CASE len >= Bypass(kind)
    <3>1. t = ReadPast(u, total, len, chunk)
      BY <2>2, <2>8 DEF Read
    <3>2. ~(len < Bypass(kind))
      BY <2>5, <2>8
    <3>3. u.pos = u.n
      <4>1. ~(consumer = "full" /\ Len(s.out) = size)
        BY <2>6
      <4> QED BY <2>1, <2>3, <2>5, <3>2, <4>1 DEF ReaderInv
    <3>4. /\ Books(t, total) /\ (~t.ended => t.pos = t.n) /\ t.room = u.room
          /\ ~t.ended => Len(t.out) > Len(u.out)
          /\ Len(t.out) <= Len(u.out) + len
      BY <2>1, <2>3, <2>4, <2>5, <3>1, <3>3, ReadPastKeeps
    <3>5. /\ consumer = "full" => Len(t.out) <= size
          /\ consumer = "all" => t.room >= 1 /\ Len(t.out) <= t.room
      BY <2>7, <3>4
    <3> QED BY <1>2, <2>3, <3>4, <3>5 DEF ReaderInv, Finished, t
  <2>9. CASE ~(len >= Bypass(kind))
    <3>1. t = ReadBuffered(u, kind, total, len, chunk)
      BY <2>2, <2>9 DEF Read
    <3>2. kind # "plain"
      BY <2>5, <2>9
    <3>3. u.pos = u.n \/ (u.cap = BufferFor(kind, u.cap, len) /\ u.n <= u.cap)
      <4>1. ~(consumer = "full" /\ Len(s.out) = size)
        BY <2>6
      <4> QED BY <2>1, <2>3, <2>5, <3>2, <4>1 DEF ReaderInv
    <3>4. /\ Books(t, total)
          /\ ~t.ended => /\ t.cap = BufferFor(kind, u.cap, len) /\ t.n <= t.cap
                         /\ Len(t.out) > Len(u.out)
                         /\ t.pos = t.n \/ Len(t.out) = Len(u.out) + len
          /\ Len(t.out) <= Len(u.out) + len
      <4>1. /\ ~u.ended /\ len \in Nat \ {0} /\ BufferFor(kind, u.cap, len) \in Nat \ {0}
        BY <2>1, <2>3, <2>5, <3>2
      <4> QED BY ONLY total \in Nat, chunk \in Nat \ {0}, <2>4, <3>1, <3>3, <4>1, ReadBufferedKeeps
    <3>5. consumer # "all"
      BY <3>2 DEF Suits
    <3>6. /\ consumer = "full" => Len(t.out) <= size
          /\ consumer = "full" /\ Len(t.out) = Len(u.out) + len => Len(t.out) = size
      BY <2>7, <3>4, <3>5
    <3> QED BY <1>2, <2>3, <2>5, <3>2, <3>4, <3>5, <3>6 DEF ReaderInv, Finished, t
  <2> QED BY <2>8, <2>9
<1> QED BY <1>1, <1>2

(* So every consumer gets every byte, once and in order, or as many as it   *)
(* wants.                                                                   *)
LEMMA Exact ==
    ASSUME NEW kind, NEW consumer, Suits(kind, consumer), NEW size \in Nat, NEW total \in Nat,
           NEW chunk \in Nat \ {0}
    PROVE  Delivered(kind, size, total, consumer, chunk) =
              [bytes |-> IF consumer = "full" THEN Least(size, total) ELSE total, ordered |-> TRUE]
<1> DEFINE R == Reads(kind, size, total, consumer, chunk)
           T == {i \in Nat : /\ ReaderInv(R[i], kind, size, total, consumer)
                             /\ Finished(R[i], consumer, size) \/ Len(R[i].out) >= i}
<1>1. R[0] = Fresh /\ \A i \in Nat : R[i + 1] = ReadOn(R[i], kind, size, total, consumer, chunk)
  BY ReadsAre
<1> HIDE DEF R
<1>2. 0 \in T
  <2>1. /\ Fresh \in Reader /\ Fresh.out = <<>> /\ Fresh.data = <<>> /\ Fresh.pos = 0
        /\ Fresh.n = 0 /\ Fresh.src = 0 /\ ~Fresh.ended /\ ~Fresh.panicked /\ Fresh.room = 1
    BY EmptySeq DEF Fresh, Reader
  <2>2. Len(<<>>) = 0 /\ From(<<>>, 0)
    BY EmptySeq DEF From
  <2>3. Books(Fresh, total)
    BY <2>1, <2>2 DEF Books
  <2>4. ReaderInv(Fresh, kind, size, total, consumer)
    BY <2>1, <2>2, <2>3 DEF ReaderInv
  <2>5. Len(Fresh.out) >= 0
    BY <2>1, <2>2
  <2> QED BY <1>1, <2>4, <2>5
<1>3. ASSUME NEW i \in Nat, i \in T PROVE i + 1 \in T
  <2>1. /\ ReaderInv(R[i + 1], kind, size, total, consumer)
        /\ \/ Finished(R[i + 1], consumer, size)
           \/ ~Finished(R[i], consumer, size) /\ Len(R[i + 1].out) > Len(R[i].out)
    <3>1. R[i + 1] = ReadOn(R[i], kind, size, total, consumer, chunk)
          /\ ReaderInv(R[i], kind, size, total, consumer)
      BY <1>1, <1>3
    <3> QED BY ONLY Suits(kind, consumer), size \in Nat, total \in Nat, chunk \in Nat \ {0}, <3>1,
                    ReadOnKeeps
  <2>2. Len(R[i + 1].out) \in Nat /\ Len(R[i].out) \in Nat
    BY <1>3, <2>1 DEF ReaderInv, Books, Reader
  <2>3. Finished(R[i + 1], consumer, size) \/ Len(R[i + 1].out) >= i + 1
    <3> SUFFICES ASSUME ~Finished(R[i + 1], consumer, size) PROVE Len(R[i + 1].out) >= i + 1
      OBVIOUS
    <3>1. PICK x \in Nat, y \in Nat : x = Len(R[i + 1].out) /\ y = Len(R[i].out)
      BY <2>2
    <3>2. x > y /\ y >= i
      BY <1>3, <2>1, <3>1
    <3>3. x >= i + 1
      BY <3>2
    <3> QED BY <3>1, <3>3
  <2> QED BY <2>1, <2>3
<1> HIDE DEF T
<1>4. Nat \subseteq T
  BY <1>2, <1>3, Induction
<1> DEFINE last == R[2 * total + 2]
<1>5. /\ ReaderInv(last, kind, size, total, consumer)
      /\ Finished(last, consumer, size) \/ Len(last.out) >= 2 * total + 2
  <2>1. 2 * total + 2 \in T
    BY <1>4
  <2> QED BY <2>1 DEF T
<1> HIDE DEF last
<1>6. PICK had \in Nat, n \in Nat, pos \in Nat, src \in Nat :
         had = Len(last.out) /\ n = last.n /\ pos = last.pos /\ src = last.src
  BY <1>5 DEF ReaderInv, Books, Reader
<1>7. had <= total
  <2>1. CASE last.ended
    BY <1>5, <1>6, <2>1 DEF ReaderInv, Books
  <2>2. CASE ~last.ended
    <3>1. pos <= n /\ had + (n - pos) = src /\ src <= total
      BY <1>5, <1>6, <2>2 DEF ReaderInv, Books
    <3> QED BY <3>1
  <2> QED BY <2>1, <2>2
<1>8. Finished(last, consumer, size)
  <2>1. ~(had >= 2 * total + 2)
    BY <1>7
  <2> QED BY <1>5, <1>6, <2>1
<1>9. last.out \in Seq(Nat) /\ From(last.out, 0) /\ ~last.panicked
  BY <1>5 DEF ReaderInv, Books, Reader
<1>10. had = IF consumer = "full" THEN Least(size, total) ELSE total
  <2>1. last.ended => had = total
    BY <1>5, <1>6 DEF ReaderInv, Books
  <2>2. ~last.ended => consumer = "full" /\ had >= size
    BY <1>6, <1>8, <1>9 DEF Finished
  <2>3. consumer = "full" => had <= size
    BY <1>5, <1>6 DEF ReaderInv
  <2> QED BY <1>7, <2>1, <2>2, <2>3 DEF Least
<1>11. last.out = [i \in 1 .. had |-> i]
  <2>1. last.out = [i \in 1 .. had |-> last.out[i]]
    <3>1. last.out \in [1 .. Len(last.out) -> Nat] /\ Len(last.out) = had
      BY <1>6, <1>9, LenProperties
    <3> QED BY <3>1
  <2>2. \A i \in 1 .. had : last.out[i] = i
    BY <1>6, <1>9 DEF From
  <2> QED BY <2>1, <2>2
<1>12. After(kind, size, total, consumer, chunk) = last
  BY DEF After, last, R
<1>13. Delivered(kind, size, total, consumer, chunk) = [bytes |-> had, ordered |-> TRUE]
  <2>1. ~last.panicked /\ last.out = [i \in 1 .. Len(last.out) |-> i]
    BY <1>6, <1>9, <1>11
  <2>2. (~last.panicked /\ last.out = [i \in 1 .. Len(last.out) |-> i]) = TRUE
    BY <2>1
  <2>3. Delivered(kind, size, total, consumer, chunk) =
           [bytes |-> Len(last.out),
            ordered |-> ~last.panicked /\ last.out = [i \in 1 .. Len(last.out) |-> i]]
    BY <1>12 DEF Delivered
  <2> QED BY <1>6, <2>2, <2>3
<1> QED BY <1>10, <1>13

---------------------------------------------------------------------------
(* The inductive invariant of the backend. *)

BlockMap == [PartNo -> Nat \cup {None}]

Promise == {Unknown, Gone} \cup ObjectType

Local == [key : Key \cup {None}, on : SUBSET Blob, size : SizeClass \cup {None},
          sent : Nat, alone : BOOLEAN, cleared : BOOLEAN, props : ObjectType \cup {None},
          want : Promise, failed : BOOLEAN, answer : AnswerType \cup {None}]

ServiceType ==
    /\ blob \in [Blob -> ObjectType \cup {None}]
    /\ committed \in BlockMap /\ staged \in BlockMap /\ stray \in BOOLEAN

UploadType ==
    /\ up \in [Upload -> {"none", "open", "done", "aborted"}] /\ own \in [Upload -> BlockMap]
    /\ crossed \subseteq Upload \X PartNo /\ cut \subseteq Upload /\ sent \in Nat

RequestType ==
    /\ pc \in [Request -> {"idle", "download", "replied"} \cup Changing]
    /\ req \in [Request -> Local] /\ promise \in [Blob -> Promise]

TypeOK == ServiceType /\ UploadType /\ RequestType

(* A block is never taken for another's: what a commit would use for a part *)
(* nobody else has staged is that part, or it is lost.                      *)
BlocksOK ==
    \A u \in Upload, n \in PartNo :
        own[u][n] # None /\ <<u, n>> \notin crossed =>
            /\ Latest(n) \in {None, own[u][n]}
            /\ u \notin cut => Latest(n) = own[u][n]

(* History: a request that is alone is, and what is promised is at rest. *)
Works(q, b) == pc[q] \in Changing /\ b \in req[q].on

AloneOK ==
    \A r, q \in Request, b \in Blob :
        r # q /\ req[r].alone /\ Works(r, b) => ~Works(q, b)

PromiseIdle ==
    \A b \in Blob, q \in Request : promise[b] # Unknown => ~Works(q, b)

HistoryInv == AloneOK /\ PromiseIdle

(* What a request is about, by where it is. *)
Shape(r) ==
    /\ pc[r] \in Changing =>
          /\ req[r].key \in Key /\ req[r].size \in Size
          /\ req[r].on = IF req[r].key = "k/" THEN Blob ELSE {"k"}
    /\ pc[r] \in {"conflict", "unlink"} => req[r].key = "k/"
    /\ pc[r] \in {"download", "replied"} =>
          req[r].key \in Key /\ req[r].on = {NormalizedKey(req[r].key)}
    /\ pc[r] = "download" =>
          req[r].props \in ObjectType /\ req[r].answer = None

(* A marker's PUT that is alone has seen the file of its name go. *)
WriterOK(r) ==
    req[r].alone /\ pc[r] \in Changing /\ req[r].key = "k/" /\ req[r].cleared => blob["k"] = None

(* What a reader with something to expect has seen so far. *)
ReaderOK(r) ==
    req[r].want # Unknown =>
        /\ pc[r] = "download" =>
              /\ req[r].want \in ObjectType /\ req[r].props = req[r].want
              /\ promise[NormalizedKey(req[r].key)] = req[r].want
        /\ pc[r] = "replied" =>
              /\ req[r].want = Gone => req[r].answer = None
              /\ req[r].want # Gone /\ req[r].answer = None =>
                    req[r].failed \/ (req[r].key = "k/" /\ req[r].want.size = "large")
              /\ req[r].answer # None =>
                    /\ req[r].answer.size = req[r].want /\ req[r].answer.body = req[r].want
                    /\ req[r].answer.etag = ETag(req[r].key, req[r].want)

Kept(b, left) == left # Unknown => blob[b] = IF left = Gone THEN None ELSE left

AllKept == \A b \in Blob : Kept(b, promise[b])

Locals == \A r \in Request : Shape(r) /\ WriterOK(r) /\ ReaderOK(r)

IInv == TypeOK /\ BlocksOK /\ HistoryInv /\ Locals /\ AllKept

---------------------------------------------------------------------------
(* The values that stand for nothing are no objects, answers or numbers. *)
LEMMA Basics ==
    /\ None \notin Nat /\ None \notin ObjectType /\ None \notin AnswerType
    /\ Unknown # Gone /\ Unknown \notin ObjectType /\ Gone \notin ObjectType
    /\ None # Unknown /\ None # Gone
    /\ NoReq \in Local /\ NoBlocks \in BlockMap
    /\ \A key \in Key : NormalizedKey(key) \in Blob
  BY NoneAssumption DEF NoReq, Local, Promise, NoBlocks, BlockMap, NormalizedKey, Key, Blob

---------------------------------------------------------------------------
(* The service. *)

(* What a call that writes or deletes b leaves: x in b, and no block that   *)
(* could be taken for another's.                                            *)
Writes(b, x) ==
    /\ blob' \in [Blob -> ObjectType \cup {None}] /\ blob'[b] = x
    /\ \A c \in Blob : c # b => blob'[c] = blob[c]
    /\ committed' \in BlockMap /\ staged' \in BlockMap /\ stray' \in BOOLEAN
    /\ cut' \subseteq Upload
    /\ BlocksOK'

(* If a commit keeps only blocks that stood for their ids already. *)
LEMMA ReplaceFacts ==
    ASSUME ServiceType, UploadType, BlocksOK, NEW b \in Blob, NEW x \in ObjectType \cup {None},
           NEW blocks \in BlockMap, \A n \in PartNo : blocks[n] \in {None, Latest(n)},
           Replace(b, x, blocks), UNCHANGED <<own, crossed>>
    PROVE  Writes(b, x)
<1>1. /\ blob' \in [Blob -> ObjectType \cup {None}] /\ blob'[b] = x
      /\ \A c \in Blob : c # b => blob'[c] = blob[c]
  BY DEF Replace, ServiceType
<1>2. CASE b # "k"
  <2>1. UNCHANGED <<committed, staged, stray, cut>>
    BY <1>2 DEF Replace
  <2> QED BY <1>1, <2>1 DEF Writes, ServiceType, UploadType, BlocksOK, Latest
<1>3. CASE b = "k"
  <2>1. /\ committed' = blocks /\ staged' = NoBlocks /\ stray' = FALSE
        /\ cut' = cut \cup {u \in Upload : own[u] # NoBlocks}
    BY <1>3 DEF Replace
  <2>2. \A n \in PartNo : Latest(n)' = blocks[n]
    BY <2>1 DEF Latest, NoBlocks
  <2>3. \A u \in Upload, n \in PartNo : own[u][n] # None => u \in cut'
    BY <2>1 DEF NoBlocks
  <2>4. BlocksOK'
    BY <2>2, <2>3 DEF BlocksOK
  <2> QED BY <1>1, <2>1, <2>4, Basics DEF Writes, UploadType
<1> QED BY <1>2, <1>3

(* Delete keeps some of them, or none. *)
LEMMA DeleteFacts ==
    ASSUME ServiceType, UploadType, BlocksOK, NEW b \in Blob,
           DeleteBlob(b), UNCHANGED <<own, crossed>>
    PROVE  Writes(b, None)
<1>1. CASE Replace(b, None, NoBlocks)
  <2>1. \A n \in PartNo : NoBlocks[n] \in {None, Latest(n)}
    BY DEF NoBlocks
  <2> QED BY <1>1, <2>1, Basics, ReplaceFacts
<1>2. CASE /\ blob' = [blob EXCEPT ![b] = None]
           /\ committed' = IF b = "k" THEN NoBlocks ELSE committed
           /\ cut' = IF b = "k" THEN cut \cup {u \in Upload : own[u] # NoBlocks} ELSE cut
           /\ UNCHANGED <<staged, stray>>
  <2>1. /\ blob' \in [Blob -> ObjectType \cup {None}] /\ blob'[b] = None
        /\ \A c \in Blob : c # b => blob'[c] = blob[c]
    BY <1>2 DEF ServiceType
  <2>2. committed' \in BlockMap /\ staged' \in BlockMap /\ stray' \in BOOLEAN /\ cut' \subseteq Upload
    BY <1>2, Basics DEF ServiceType, UploadType
  <2>3. \A n \in PartNo : Latest(n)' \in {None, Latest(n)} /\ (b # "k" => Latest(n)' = Latest(n))
    BY <1>2 DEF Latest, NoBlocks
  <2>4. /\ \A u \in Upload, n \in PartNo : b = "k" /\ own[u][n] # None => u \in cut'
        /\ \A u \in cut : u \in cut'
    BY <1>2 DEF NoBlocks
  <2>5. BlocksOK'
    BY <2>3, <2>4 DEF BlocksOK
  <2> QED BY <2>1, <2>2, <2>5 DEF Writes
<1> QED BY <1>1, <1>2 DEF DeleteBlob

---------------------------------------------------------------------------
(* Frames: a request whose own step it is not keeps its locals, but may     *)
(* lose its claims.                                                         *)

Same(q) ==
    /\ pc'[q] = pc[q]
    /\ req'[q].key = req[q].key /\ req'[q].on = req[q].on /\ req'[q].size = req[q].size
    /\ req'[q].cleared = req[q].cleared /\ req'[q].props = req[q].props
    /\ req'[q].answer = req[q].answer /\ req'[q].failed = req[q].failed
    /\ req'[q].alone => req[q].alone
    /\ req'[q].want # Unknown => req'[q].want = req[q].want

(* A request that is left alone, or loses its claims, is the same. *)
LEMMA SameLemma ==
    ASSUME NEW q, pc'[q] = pc[q], req[q] \in Local,
           \/ req'[q] = req[q]
           \/ req'[q] = [req[q] EXCEPT !.alone = FALSE, !.want = Unknown]
    PROVE  Same(q) /\ req'[q] \in Local
  BY DEF Same, Local, Promise

(* Its claims rest on the file a marker's PUT has seen go, and the promise  *)
(* a reader has read.                                                       *)
LEMMA Frame ==
    ASSUME NEW q \in Request, Shape(q), WriterOK(q), ReaderOK(q), Same(q),
           req'[q].alone /\ Works(q, "k") => blob'["k"] = blob["k"],
           pc[q] = "download" /\ req'[q].want # Unknown =>
              promise'[NormalizedKey(req[q].key)] = promise[NormalizedKey(req[q].key)]
    PROVE  (Shape(q) /\ WriterOK(q) /\ ReaderOK(q))'
<1>1. Shape(q)'
  BY DEF Shape, Same
<1>2. WriterOK(q)'
  BY DEF WriterOK, Same, Shape, Works, Blob
<1>3. ReaderOK(q)'
  BY DEF ReaderOK, Same
<1> QED BY <1>1, <1>2, <1>3

(* Those of Disturb: whoever works on one of bs or reads it loses them. *)
LEMMA DisturbFacts ==
    ASSUME RequestType, NEW r \in Request, NEW bs, NEW q \in Request,
           pc'[q] = pc[q], req'[q] = Disturb(r, bs)[q]
    PROVE  /\ Same(q) /\ req'[q] \in Local
           /\ q # r /\ req[q].on \cap bs # {} => ~req'[q].alone /\ req'[q].want = Unknown
<1>1. req[q] \in Local
  BY DEF RequestType
<1>2. req'[q] = IF q # r /\ req[q].on \cap bs # {}
                THEN [req[q] EXCEPT !.alone = FALSE, !.want = Unknown] ELSE req[q]
  BY DEF Disturb
<1>3. Same(q) /\ req'[q] \in Local
  BY <1>1, <1>2, SameLemma
<1> QED BY <1>1, <1>2, <1>3 DEF Local

---------------------------------------------------------------------------
(* Requests that begin, and requests of one call. *)

(* The other requests, when r begins to change bs: none of them keeps a     *)
(* claim that rests on one of these blobs.                                  *)
LEMMA OthersDisturbed ==
    ASSUME RequestType, Locals, NEW r \in Request, NEW bs \in SUBSET Blob,
           \A q \in Request : q # r => pc'[q] = pc[q] /\ req'[q] = Disturb(r, bs)[q],
           \A c \in Blob : c \notin bs => blob'[c] = blob[c] /\ promise'[c] = promise[c]
    PROVE  \A q \in Request : q # r =>
              /\ Same(q) /\ req'[q] \in Local
              /\ req[q].on \cap bs # {} => ~req'[q].alone
              /\ (Shape(q) /\ WriterOK(q) /\ ReaderOK(q))'
<1> SUFFICES ASSUME NEW q \in Request, q # r
             PROVE  /\ Same(q) /\ req'[q] \in Local
                    /\ req[q].on \cap bs # {} => ~req'[q].alone
                    /\ (Shape(q) /\ WriterOK(q) /\ ReaderOK(q))'
  OBVIOUS
<1>1. pc'[q] = pc[q] /\ req'[q] = Disturb(r, bs)[q]
  OBVIOUS
<1>2. /\ Same(q) /\ req'[q] \in Local
      /\ req[q].on \cap bs # {} => ~req'[q].alone /\ req'[q].want = Unknown
  BY <1>1, DisturbFacts
<1>3. Shape(q) /\ WriterOK(q) /\ ReaderOK(q)
  BY DEF Locals
<1>4. req'[q].alone /\ Works(q, "k") => blob'["k"] = blob["k"]
  BY <1>2 DEF Works, Blob
<1>5. pc[q] = "download" /\ req'[q].want # Unknown =>
          promise'[NormalizedKey(req[q].key)] = promise[NormalizedKey(req[q].key)]
  <2>1. pc[q] = "download" => /\ NormalizedKey(req[q].key) \in Blob
                              /\ req[q].on = {NormalizedKey(req[q].key)}
    BY <1>3, Basics DEF Shape
  <2> QED BY <1>2, <2>1
<1>6. (Shape(q) /\ WriterOK(q) /\ ReaderOK(q))'
  BY <1>2, <1>3, <1>4, <1>5, Frame
<1> QED BY <1>2, <1>6

(* A PUT begins: nobody is promised its blobs, and it is alone on them if   *)
(* nobody works there.                                                      *)
LEMMA PutObjectInv ==
    ASSUME IInv, NEW r \in Request, NEW key \in Key, NEW size \in Size, PutObject(r, key, size)
    PROVE  IInv'
<1> DEFINE bs == IF key = "k/" THEN Blob ELSE {"k"}
           new == [NoReq EXCEPT !.key = key, !.size = size, !.sent = sent', !.on = bs,
                                !.alone = ~Busy(r, bs)]
<1>1. /\ pc[r] = "idle" /\ sent' = sent + 1
      /\ pc' = [pc EXCEPT ![r] = IF key = "k/" THEN "conflict" ELSE "upload"]
      /\ UNCHANGED <<service, uploads>>
  BY DEF PutObject, Goto
<1>2. bs \in SUBSET Blob /\ "k" \in bs /\ (key = "k/" => "k/.dir" \in bs)
  BY DEF Blob
<1>3. /\ req'[r] = new /\ \A q \in Request : q # r => req'[q] = Disturb(r, bs)[q]
      /\ DOMAIN req' = Request /\ req' = [q \in Request |-> req'[q]]
      /\ promise' = Forget(bs)
  <2>1. /\ req' = [Disturb(r, bs) EXCEPT ![r] =
                     [[NoReq EXCEPT !.key = key, !.size = size, !.sent = sent'] EXCEPT
                         !.on = bs, !.alone = ~Busy(r, bs)]]
        /\ promise' = Forget(bs)
    BY DEF PutObject, Begin
  <2>2. new = [[NoReq EXCEPT !.key = key, !.size = size, !.sent = sent'] EXCEPT
                         !.on = bs, !.alone = ~Busy(r, bs)]
    BY DEF NoReq
  <2> QED BY <2>1, <2>2 DEF Disturb
<1>4. sent' \in Nat /\ sent \in Nat
  BY <1>1 DEF IInv, TypeOK, UploadType
<1>5. size \in SizeClass \cup {None} /\ key \in Key \cup {None}
  BY BackendAssumption
<1>6. /\ new \in Local /\ new.key = key /\ new.on = bs /\ new.size = size /\ new.want = Unknown
      /\ new.cleared = FALSE /\ new.alone = ~Busy(r, bs)
  <2> HIDE DEF bs
  <2> QED BY <1>2, <1>4, <1>5 DEF NoReq, Local, Promise
<1>7. /\ pc'[r] \in {"conflict", "upload"} /\ (pc'[r] = "conflict" => key = "k/")
      /\ \A q \in Request : q # r => pc'[q] = pc[q]
      /\ pc' \in [Request -> {"idle", "download", "replied"} \cup Changing]
  BY <1>1 DEF IInv, TypeOK, RequestType, Changing
<1>8. /\ \A c \in Blob : c \notin bs => promise'[c] = promise[c]
      /\ \A c \in Blob : c \in bs => promise'[c] = Unknown
      /\ promise' \in [Blob -> Promise]
  BY <1>3 DEF IInv, TypeOK, RequestType, Forget, Promise
<1>9. blob' = blob /\ committed' = committed /\ staged' = staged /\ stray' = stray
      /\ up' = up /\ own' = own /\ crossed' = crossed /\ cut' = cut
  BY <1>1 DEF service, uploads
<1> HIDE DEF bs, new
<1>10. \A q \in Request : q # r =>
              /\ Same(q) /\ req'[q] \in Local
              /\ req[q].on \cap bs # {} => ~req'[q].alone
              /\ (Shape(q) /\ WriterOK(q) /\ ReaderOK(q))'
  <2>1. RequestType /\ Locals
    BY DEF IInv, TypeOK
  <2>2. \A q \in Request : q # r => pc'[q] = pc[q] /\ req'[q] = Disturb(r, bs)[q]
    BY <1>3, <1>7
  <2>3. \A c \in Blob : c \notin bs => blob'[c] = blob[c] /\ promise'[c] = promise[c]
    BY <1>8, <1>9
  <2> QED BY ONLY <1>2, <2>1, <2>2, <2>3, OthersDisturbed
<1>11. TypeOK'
  <2>1. req' \in [Request -> Local]
    BY <1>3, <1>6, <1>10
  <2> QED BY <1>4, <1>7, <1>8, <1>9, <2>1 DEF IInv, TypeOK, ServiceType, UploadType, RequestType
<1>12. BlocksOK'
  BY <1>9 DEF IInv, BlocksOK, Latest
<1>13. \A q \in Request, b \in Blob : q # r => /\ Works(q, b)' <=> Works(q, b)
                                               /\ req'[q].alone => req[q].alone
  BY <1>10 DEF Works, Same
<1>14. \A b \in Blob : Works(r, b)' <=> b \in bs
  BY <1>3, <1>6, <1>7 DEF Works, Changing
<1>15. AloneOK'
  <2> SUFFICES ASSUME NEW p \in Request, NEW q \in Request, NEW b \in Blob,
                      p # q, req'[p].alone, Works(p, b)', Works(q, b)'
               PROVE  FALSE
    BY DEF AloneOK
  <2>1. CASE p = r
    <3>1. ~Busy(r, bs) /\ b \in bs
      BY <1>3, <1>6, <1>14, <2>1
    <3>2. pc[q] \in Changing /\ b \in req[q].on
      BY <1>13, <2>1 DEF Works
    <3> QED BY <2>1, <3>1, <3>2 DEF Busy
  <2>2. CASE p # r /\ q = r
    <3>1. b \in req[p].on /\ b \in bs
      BY <1>13, <1>14, <2>2 DEF Works
    <3> QED BY <1>10, <2>2, <3>1
  <2>3. CASE p # r /\ q # r
    BY <1>13, <2>3 DEF IInv, HistoryInv, AloneOK
  <2> QED BY <2>1, <2>2, <2>3
<1>16. PromiseIdle'
  <2> SUFFICES ASSUME NEW b \in Blob, NEW q \in Request, promise'[b] # Unknown, Works(q, b)'
               PROVE  FALSE
    BY DEF PromiseIdle
  <2>1. b \notin bs /\ promise[b] # Unknown
    BY <1>8
  <2> QED BY <1>13, <1>14, <2>1 DEF IInv, HistoryInv, PromiseIdle
<1>17. AllKept'
  BY <1>8, <1>9 DEF IInv, AllKept, Kept
<1>18. (Shape(r) /\ WriterOK(r) /\ ReaderOK(r))'
  <2>1. Shape(r)'
    BY <1>1, <1>3, <1>6, <1>7 DEF Shape, bs
  <2>2. WriterOK(r)' /\ ReaderOK(r)'
    BY <1>3, <1>6 DEF WriterOK, ReaderOK
  <2> QED BY <2>1, <2>2
<1>19. Locals'
  BY <1>10, <1>18 DEF Locals
<1> QED BY <1>11, <1>12, <1>15, <1>16, <1>17, <1>19 DEF IInv, HistoryInv

(* A request of one call: what it leaves is promised only if nobody else    *)
(* works on the blob.                                                       *)
LEMMA OneCall ==
    ASSUME IInv, NEW r \in Request, pc[r] = "idle", NEW b \in Blob, NEW x, Writes(b, x),
           UNCHANGED <<own, crossed, sent, pc>>,
           up' \in [Upload -> {"none", "open", "done", "aborted"}],
           req' = Disturb(r, {b}), NEW l \in Promise, promise' = [promise EXCEPT ![b] = l],
           l # Unknown => ~Busy(r, {b}) /\ x = IF l = Gone THEN None ELSE l
    PROVE  IInv'
<1>1. PICK bs \in SUBSET Blob : bs = {b}
  OBVIOUS
<1>2. /\ \A q \in Request : pc'[q] = pc[q] /\ req'[q] = Disturb(r, bs)[q]
      /\ \A q \in Request : q # r => pc'[q] = pc[q] /\ req'[q] = Disturb(r, bs)[q]
      /\ req' = [q \in Request |-> req'[q]]
  BY <1>1 DEF Disturb
<1>3. /\ promise' \in [Blob -> Promise] /\ promise'[b] = l
      /\ \A c \in Blob : c \notin bs => blob'[c] = blob[c] /\ promise'[c] = promise[c]
  BY <1>1 DEF IInv, TypeOK, RequestType, Writes
<1>4. RequestType /\ Locals
  BY DEF IInv, TypeOK
<1>5. \A q \in Request : q # r =>
              /\ Same(q) /\ req'[q] \in Local
              /\ req[q].on \cap bs # {} => ~req'[q].alone
              /\ (Shape(q) /\ WriterOK(q) /\ ReaderOK(q))'
  BY ONLY <1>2, <1>3, <1>4, OthersDisturbed
<1>6. /\ Same(r) /\ req'[r] \in Local
  BY ONLY <1>2, <1>4, r \in Request, DisturbFacts
<1>7. (Shape(r) /\ WriterOK(r) /\ ReaderOK(r))'
  BY <1>6 DEF Same, Shape, WriterOK, ReaderOK, Changing
<1>8. TypeOK'
  <2>1. req' \in [Request -> Local]
    BY ONLY <1>2, <1>5, <1>6
  <2> QED BY <1>3, <2>1 DEF IInv, TypeOK, ServiceType, UploadType, RequestType, Writes
<1>9. \A q \in Request, c \in Blob : /\ Works(q, c)' <=> Works(q, c)
                                     /\ req'[q].alone => req[q].alone
  <2>1. \A q \in Request : Same(q)
    BY <1>5, <1>6
  <2> QED BY ONLY <2>1 DEF Works, Same
<1>10. AloneOK'
  BY <1>9 DEF IInv, HistoryInv, AloneOK
<1>11. PromiseIdle'
  <2> SUFFICES ASSUME NEW c \in Blob, NEW q \in Request, promise'[c] # Unknown, Works(q, c)
               PROVE  FALSE
    BY <1>9 DEF PromiseIdle
  <2>1. CASE c = b
    <3>1. ~Busy(r, {b})
      BY <1>3, <2>1
    <3>2. q # r
      BY DEF Works, Changing
    <3> QED BY <2>1, <3>1, <3>2 DEF Busy, Works
  <2>2. CASE c # b
    BY <1>1, <1>3, <2>2 DEF IInv, HistoryInv, PromiseIdle
  <2> QED BY <2>1, <2>2
<1>12. AllKept'
  <2> SUFFICES ASSUME NEW c \in Blob PROVE promise'[c] # Unknown =>
                   blob'[c] = IF promise'[c] = Gone THEN None ELSE promise'[c]
    BY DEF AllKept, Kept
  <2>1. CASE c = b
    BY <1>3, <2>1 DEF Writes
  <2>2. CASE c # b
    BY <1>1, <1>3, <2>2 DEF IInv, AllKept, Kept
  <2> QED BY <2>1, <2>2
<1>13. Locals'
  BY <1>5, <1>7 DEF Locals
<1> QED BY <1>8, <1>10, <1>11, <1>12, <1>13 DEF IInv, HistoryInv, Writes

(* DELETE. *)
LEMMA DeleteObjectInv ==
    ASSUME IInv, NEW r \in Request, NEW key \in Key, DeleteObject(r, key)
    PROVE  IInv'
<1>1. PICK b \in Blob : b = NormalizedKey(key)
  BY Basics
<1>2. /\ pc[r] = "idle" /\ DeleteBlob(b) /\ UNCHANGED <<up, own, crossed, sent>>
      /\ Acknowledge(r, b, Gone) \/ NotAcknowledged(r, b)
  BY <1>1 DEF DeleteObject
<1>3. Writes(b, None)
  BY <1>2, DeleteFacts DEF IInv, TypeOK
<1>5. /\ req' = Disturb(r, {b}) /\ UNCHANGED pc
      /\ \E l \in Promise : /\ promise' = [promise EXCEPT ![b] = l]
                            /\ l # Unknown => ~Busy(r, {b}) /\ l = Gone
  <2>1. CASE Acknowledge(r, b, Gone)
    BY <2>1 DEF Acknowledge, Promise
  <2>2. CASE NotAcknowledged(r, b)
    BY <2>2 DEF NotAcknowledged, Forget, IInv, TypeOK, RequestType, Promise
  <2> QED BY <1>2, <2>1, <2>2
<1>6. PICK l \in Promise : /\ promise' = [promise EXCEPT ![b] = l]
                           /\ l # Unknown => ~Busy(r, {b}) /\ l = Gone
  BY <1>5
<1>7. l # Unknown => ~Busy(r, {b}) /\ None = IF l = Gone THEN None ELSE l
  BY <1>6
<1>8. /\ UNCHANGED <<own, crossed, sent, pc>>
      /\ up' \in [Upload -> {"none", "open", "done", "aborted"}]
  BY <1>2, <1>5 DEF IInv, TypeOK, UploadType
<1> QED BY ONLY IInv, r \in Request, b \in Blob, l \in Promise, <1>2, <1>3, <1>5, <1>6,
              <1>7, <1>8, OneCall

(* A commit: the list's blocks are known, and those nobody else has staged  *)
(* are the parts the upload was acknowledged.                               *)
LEMMA CompleteInv ==
    ASSUME IInv, NEW r \in Request, NEW u \in Upload, NEW list \in PartLists,
           CompleteMultipartUpload(r, u, list)
    PROVE  IInv'
<1> DEFINE blocks == [n \in PartNo |-> IF n \in ToSet(list) THEN Latest(n) ELSE None]
           x == Object(InOrder(list, Latest), "large")
           mine(n) == own[u][n]
           left == IF \A n \in ToSet(list) : own[u][n] # None /\ <<u, n>> \notin crossed
                   THEN Object(InOrder(list, mine), "large") ELSE Unknown
<1>1. /\ pc[r] = "idle" /\ \A n \in ToSet(list) : Latest(n) # None
      /\ Replace("k", x, blocks) /\ UNCHANGED <<own, crossed, sent>>
      /\ \/ up' = [up EXCEPT ![u] = "done"] /\ Acknowledge(r, "k", left)
         \/ UNCHANGED up /\ NotAcknowledged(r, "k")
  BY DEF CompleteMultipartUpload
<1>2. /\ list \in Seq(PartNo) /\ ToSet(list) \subseteq PartNo
      /\ \A i \in DOMAIN list : list[i] \in ToSet(list)
      /\ DOMAIN list = 1 .. Len(list) /\ Len(list) \in Nat
  BY BackendAssumption DEF ToSet
<1>3. \A n \in PartNo : Latest(n) \in Nat \cup {None} /\ own[u][n] \in Nat \cup {None}
  BY DEF IInv, TypeOK, ServiceType, UploadType, BlockMap, Latest
<1>4. x \in ObjectType /\ x.body = InOrder(list, Latest) /\ x.size = "large"
  <2>1. InOrder(list, Latest) = [i \in 1 .. Len(list) |-> Latest(list[i])]
    BY <1>2 DEF InOrder
  <2>2. \A i \in 1 .. Len(list) : Latest(list[i]) \in Nat
    BY <1>1, <1>2, <1>3
  <2>3. InOrder(list, Latest) \in Seq(Nat)
    BY <1>2, <2>1, <2>2, SeqDef
  <2> QED BY <2>3 DEF Object, ObjectType, SizeClass
<1>5. left # Unknown => left = x
  <2> SUFFICES ASSUME \A n \in ToSet(list) : own[u][n] # None /\ <<u, n>> \notin crossed
               PROVE  InOrder(list, mine) = InOrder(list, Latest)
    OBVIOUS
  <2>1. \A n \in ToSet(list) : Latest(n) = own[u][n]
    BY <1>1, <1>2 DEF IInv, BlocksOK
  <2> QED BY <1>2, <2>1 DEF InOrder
<1>6. blocks \in BlockMap /\ \A n \in PartNo : blocks[n] \in {None, Latest(n)}
  BY <1>3 DEF BlockMap
<1> HIDE DEF blocks, x, mine, left
<1>7. PICK b \in Blob : b = "k"
  BY DEF Blob
<1>8. Writes(b, x)
  <2>1. ServiceType /\ UploadType /\ BlocksOK /\ Replace(b, x, blocks) /\ UNCHANGED <<own, crossed>>
    BY <1>1, <1>7 DEF IInv, TypeOK
  <2>2. x \in ObjectType \cup {None}
    BY <1>4
  <2> QED BY ONLY b \in Blob, <1>6, <2>1, <2>2, ReplaceFacts
<1>10. /\ req' = Disturb(r, {b}) /\ UNCHANGED pc
       /\ \E l \in Promise : /\ promise' = [promise EXCEPT ![b] = l]
                             /\ l # Unknown => ~Busy(r, {b}) /\ l = x
  <2>1. CASE Acknowledge(r, b, left)
    BY <1>4, <1>5, <2>1 DEF Acknowledge, Promise
  <2>2. CASE NotAcknowledged(r, b)
    BY <2>2 DEF NotAcknowledged, Forget, IInv, TypeOK, RequestType, Promise
  <2> QED BY <1>1, <1>7, <2>1, <2>2
<1>11. PICK l \in Promise : /\ promise' = [promise EXCEPT ![b] = l]
                            /\ l # Unknown => ~Busy(r, {b}) /\ l = x
  BY <1>10
<1>12. l # Unknown => ~Busy(r, {b}) /\ x = IF l = Gone THEN None ELSE l
  BY <1>4, <1>11, Basics
<1>13. up' \in [Upload -> {"none", "open", "done", "aborted"}]
  BY <1>1 DEF IInv, TypeOK, UploadType
<1>14. UNCHANGED <<own, crossed, sent, pc>>
  BY <1>1, <1>10
<1> QED BY ONLY IInv, r \in Request, b \in Blob, l \in Promise, <1>1, <1>8, <1>10, <1>11,
              <1>12, <1>13, <1>14, OneCall

---------------------------------------------------------------------------
(* The steps of a PUT. *)

(* A request at work changes its own locals and its own blobs, and makes    *)
(* promises of them when it is done and was alone.                          *)
LEMMA WorkStep ==
    ASSUME IInv, NEW r \in Request, pc[r] \in Changing,
           \A q \in Request : q # r => pc'[q] = pc[q] /\ req'[q] = req[q],
           TypeOK', BlocksOK',
           \A c \in Blob : c \notin req[r].on => blob'[c] = blob[c] /\ promise'[c] = promise[c],
           \A c \in Blob : c \in req[r].on /\ promise'[c] # Unknown =>
              /\ ~Works(r, c)' /\ req[r].alone
              /\ blob'[c] = IF promise'[c] = Gone THEN None ELSE promise'[c],
           \A c \in Blob : Works(r, c)' => Works(r, c) /\ (req'[r].alone => req[r].alone),
           Shape(r)', WriterOK(r)', ReaderOK(r)'
    PROVE  IInv'
<1>1. RequestType /\ Locals /\ AloneOK /\ PromiseIdle /\ AllKept
  BY DEF IInv, TypeOK, HistoryInv
<1>2. \A c \in Blob : c \in req[r].on <=> Works(r, c)
  BY DEF Works
<1>3. \A q \in Request : q # r => Same(q)
  BY <1>1, SameLemma DEF RequestType
<1>4. \A q \in Request : q # r => (Shape(q) /\ WriterOK(q) /\ ReaderOK(q))'
  <2> SUFFICES ASSUME NEW q \in Request, q # r
               PROVE  (Shape(q) /\ WriterOK(q) /\ ReaderOK(q))'
    OBVIOUS
  <2>1. Shape(q) /\ WriterOK(q) /\ ReaderOK(q)
    BY <1>1 DEF Locals
  <2>2. req'[q].alone /\ Works(q, "k") => blob'["k"] = blob["k"]
    BY <1>1, <1>2 DEF AloneOK, Blob
  <2>3. pc[q] = "download" /\ req'[q].want # Unknown =>
            promise'[NormalizedKey(req[q].key)] = promise[NormalizedKey(req[q].key)]
    <3>1. pc[q] = "download" => NormalizedKey(req[q].key) \in Blob
      BY <2>1, Basics DEF Shape
    <3>2. pc[q] = "download" /\ req[q].want # Unknown =>
              promise[NormalizedKey(req[q].key)] # Unknown
      BY <2>1 DEF ReaderOK
    <3> QED BY <1>1, <1>2, <3>1, <3>2 DEF PromiseIdle
  <2> QED BY <1>3, <2>1, <2>2, <2>3, Frame
<1>5. \A q \in Request, c \in Blob : q # r => (Works(q, c)' <=> Works(q, c))
  BY <1>3 DEF Works, Same
<1>6. AloneOK'
  BY <1>1, <1>5 DEF AloneOK
<1>7. PromiseIdle'
  <2> SUFFICES ASSUME NEW c \in Blob, NEW q \in Request, promise'[c] # Unknown, Works(q, c)'
               PROVE  FALSE
    BY DEF PromiseIdle
  <2>1. CASE c \in req[r].on
    <3>1. q # r /\ req[r].alone /\ Works(r, c)
      BY <1>2, <2>1
    <3> QED BY <1>1, <1>5, <3>1 DEF AloneOK
  <2>2. CASE c \notin req[r].on
    BY <1>1, <1>2, <1>5, <2>2 DEF PromiseIdle
  <2> QED BY <2>1, <2>2
<1>8. AllKept'
  BY <1>1 DEF AllKept, Kept
<1>9. Locals'
  BY <1>4 DEF Locals
<1> QED BY <1>6, <1>7, <1>8, <1>9 DEF IInv, HistoryInv

(* What a request at work is about, and that nobody is promised its blobs. *)
LEMMA WorkFacts ==
    ASSUME IInv, NEW r \in Request, pc[r] \in Changing
    PROVE  /\ req[r] \in Local /\ req[r].key \in Key /\ req[r].size \in Size
           /\ NormalizedKey(req[r].key) \in Blob /\ NormalizedKey(req[r].key) \in req[r].on
           /\ \A c \in Blob : c \in req[r].on => promise[c] = Unknown
           /\ \A c \in Blob : c \in req[r].on /\ c # NormalizedKey(req[r].key) =>
                 c = "k" /\ req[r].key = "k/"
           /\ Body(r) \in Seq(Nat)
<1>1. Shape(r) /\ req[r] \in Local
  BY DEF IInv, TypeOK, RequestType, Locals
<1>2. \A c \in Blob : c \in req[r].on => promise[c] = Unknown
  BY DEF IInv, HistoryInv, PromiseIdle, Works
<1>3. Body(r) \in Seq(Nat)
  BY <1>1 DEF Body, Local
<1> QED BY <1>1, <1>2, <1>3 DEF Shape, NormalizedKey, Key, Blob

(* Its end. *)
LEMMA ReturnFacts ==
    ASSUME RequestType, NEW r \in Request, Return(r)
    PROVE  /\ \A q \in Request : q # r => pc'[q] = pc[q] /\ req'[q] = req[q]
           /\ pc'[r] = "idle" /\ req'[r] = NoReq
           /\ pc' \in [Request -> {"idle", "download", "replied"} \cup Changing]
           /\ req' \in [Request -> Local]
           /\ \A c : ~Works(r, c)'
           /\ Shape(r)' /\ WriterOK(r)' /\ ReaderOK(r)'
<1>1. /\ \A q \in Request : q # r => pc'[q] = pc[q] /\ req'[q] = req[q]
      /\ pc'[r] = "idle" /\ req'[r] = NoReq
      /\ pc' \in [Request -> {"idle", "download", "replied"} \cup Changing]
      /\ req' \in [Request -> Local]
  BY Basics DEF Return, Goto, RequestType
<1>2. NoReq.want = Unknown
  BY DEF NoReq
<1> QED BY <1>1, <1>2 DEF Works, Changing, Shape, WriterOK, ReaderOK

(* The object is written, and acknowledged or not. *)
LEMMA PutEnds ==
    ASSUME IInv, NEW r \in Request, pc[r] \in Changing, NEW x \in ObjectType,
           Writes(NormalizedKey(req[r].key), x), Return(r), UNCHANGED <<up, own, crossed, sent>>,
           promise' = promise \/ promise' = PutPromise(r, x)
    PROVE  IInv'
<1>1. PICK b \in Blob : b = NormalizedKey(req[r].key)
  BY WorkFacts
<1>2. /\ req[r].key \in Key /\ b \in req[r].on
      /\ \A c \in Blob : c \in req[r].on => promise[c] = Unknown
      /\ \A c \in Blob : c \in req[r].on /\ c # b => c = "k" /\ req[r].key = "k/"
  BY <1>1, WorkFacts
<1>3. /\ blob'[b] = x /\ \A c \in Blob : c # b => blob'[c] = blob[c]
  BY <1>1 DEF Writes
<1>4. /\ \A q \in Request : q # r => pc'[q] = pc[q] /\ req'[q] = req[q]
      /\ pc' \in [Request -> {"idle", "download", "replied"} \cup Changing]
      /\ req' \in [Request -> Local]
      /\ \A c : ~Works(r, c)'
      /\ Shape(r)' /\ WriterOK(r)' /\ ReaderOK(r)'
  BY ReturnFacts DEF IInv, TypeOK
<1>5. /\ promise' \in [Blob -> Promise]
      /\ \A c \in Blob : c \notin req[r].on => promise'[c] = promise[c]
      /\ \A c \in Blob : c \in req[r].on /\ promise'[c] # Unknown =>
            /\ req[r].alone
            /\ blob'[c] = IF promise'[c] = Gone THEN None ELSE promise'[c]
  <2>0. promise \in [Blob -> Promise]
    BY DEF IInv, TypeOK, RequestType
  <2>1. CASE promise' = promise
    BY <1>2, <2>0, <2>1
  <2>2. CASE promise' = PutPromise(r, x)
    <3>1. promise' = [c \in Blob |->
              IF ~req[r].alone \/ c \notin req[r].on THEN promise[c]
              ELSE IF c = b THEN x ELSE IF req[r].cleared THEN Gone ELSE promise[c]]
      BY <1>1, <2>2 DEF PutPromise
    <3>2. promise' \in [Blob -> Promise]
      BY <2>0, <3>1 DEF Promise
    <3>3. \A c \in Blob : c \in req[r].on /\ promise'[c] # Unknown =>
            /\ req[r].alone
            /\ blob'[c] = IF promise'[c] = Gone THEN None ELSE promise'[c]
      <4> SUFFICES ASSUME NEW c \in Blob, c \in req[r].on, promise'[c] # Unknown
                   PROVE  /\ req[r].alone
                          /\ blob'[c] = IF promise'[c] = Gone THEN None ELSE promise'[c]
        OBVIOUS
      <4>1. req[r].alone /\ (c = b \/ req[r].cleared)
        BY <1>2, <3>1
      <4>2. CASE c = b
        BY <1>3, <3>1, <4>1, <4>2, Basics
      <4>3. CASE c # b
        <5>1. c = "k" /\ req[r].key = "k/" /\ req[r].cleared /\ promise'[c] = Gone
          BY <1>2, <3>1, <4>1, <4>3
        <5>2. blob["k"] = None
          BY <4>1, <5>1 DEF IInv, Locals, WriterOK
        <5> QED BY <1>3, <4>1, <4>3, <5>1, <5>2
      <4> QED BY <4>2, <4>3
    <3> QED BY <3>1, <3>2, <3>3
  <2> QED BY <2>1, <2>2
<1>6. TypeOK' /\ BlocksOK'
  BY <1>4, <1>5 DEF IInv, TypeOK, ServiceType, UploadType, RequestType, Writes
<1>8. \A c \in Blob : c \notin req[r].on => blob'[c] = blob[c] /\ promise'[c] = promise[c]
  BY <1>2, <1>3, <1>5
<1>9. \A c \in Blob : c \in req[r].on /\ promise'[c] # Unknown =>
              /\ ~Works(r, c)' /\ req[r].alone
              /\ blob'[c] = IF promise'[c] = Gone THEN None ELSE promise'[c]
  BY <1>4, <1>5
<1>10. \A c \in Blob : Works(r, c)' => Works(r, c) /\ (req'[r].alone => req[r].alone)
  BY <1>4
<1> QED BY ONLY IInv, r \in Request, pc[r] \in Changing, <1>4, <1>6, <1>8, <1>9, <1>10, WorkStep

(* A body is written under the request's own key, whole. *)
LEMMA BodyWritten ==
    ASSUME IInv, NEW r \in Request, pc[r] \in Changing, NEW size \in Size,
           Replace(NormalizedKey(req[r].key), Object(Body(r), size), NoBlocks),
           Return(r), UNCHANGED <<up, own, crossed, sent>>,
           promise' = promise \/ promise' = PutPromise(r, Object(Body(r), size))
    PROVE  IInv'
<1>1. PICK x \in ObjectType : x = Object(Body(r), size) /\ x.size = size
  BY WorkFacts, BackendAssumption DEF Object, ObjectType
<1>2. PICK b \in Blob : b = NormalizedKey(req[r].key)
  BY WorkFacts
<1>3. Writes(b, x)
  <2>1. /\ ServiceType /\ UploadType /\ BlocksOK /\ Replace(b, x, NoBlocks) /\ UNCHANGED <<own, crossed>>
    BY <1>1, <1>2 DEF IInv, TypeOK
  <2>2. NoBlocks \in BlockMap /\ \A n \in PartNo : NoBlocks[n] \in {None, Latest(n)}
    BY Basics DEF NoBlocks
  <2>3. x \in ObjectType \cup {None}
    BY <1>1
  <2> QED BY ONLY b \in Blob, <2>1, <2>2, <2>3, ReplaceFacts
<1>4. promise' = promise \/ promise' = PutPromise(r, x)
  BY <1>1
<1>5. Writes(NormalizedKey(req[r].key), x)
  BY <1>1, <1>2, <1>3
<1> QED BY ONLY IInv, r \in Request, pc[r] \in Changing, x \in ObjectType, Return(r),
              UNCHANGED <<up, own, crossed, sent>>, <1>4, <1>5, PutEnds

(* One call for a small body. *)
LEMMA UploadWholeInv ==
    ASSUME IInv, NEW r \in Request, UploadWhole(r)
    PROVE  IInv'
<1>1. pc[r] \in Changing
  BY DEF UploadWhole, Changing
<1>2. req[r].size \in Size
  BY <1>1, WorkFacts
<1> QED BY <1>1, <1>2, BodyWritten DEF UploadWhole

(* A commit of a stream: azureFastUploadReader passes the whole body on. *)
LEMMA CommitStreamInv ==
    ASSUME IInv, NEW r \in Request, CommitStream(r)
    PROVE  IInv'
<1>1. pc[r] \in Changing /\ pc[r] = "commit"
  BY DEF CommitStream, Changing
<1>2. req[r].size \in Size
  BY <1>1, WorkFacts
<1>3. PICK size \in Size : size = req[r].size
  BY <1>2
<1>4. \A chunk \in Chunk : SentExactly[size][chunk] = TRUE
  <2> TAKE chunk \in Chunk
  <2>1. Length[size] \in Nat /\ chunk \in Nat \ {0}
    BY BackendAssumption
  <2> DEFINE sends == Delivered("upload", Length[size], Length[size], "blocks", chunk)
  <2>2. sends.ordered = TRUE /\ sends.bytes = Length[size]
    <3>1. Suits("upload", "blocks") /\ "blocks" # "full"
      BY DEF Suits
    <3>2. PICK total \in Nat : total = Length[size]
      BY <2>1
    <3>3. Delivered("upload", total, total, "blocks", chunk) = [bytes |-> total, ordered |-> TRUE]
      BY ONLY <2>1, <3>1, Exact
    <3> QED BY <3>2, <3>3
  <2>3. SentExactly[size][chunk] = (sends.ordered /\ sends.bytes = Length[size])
    BY DEF SentExactly
  <2> HIDE DEF sends
  <2> QED BY <2>2, <2>3
<1>5. Replace(NormalizedKey(req[r].key), Object(Body(r), size), NoBlocks)
  <2>1. PICK chunk \in Chunk :
          Replace(NormalizedKey(req[r].key),
                  Object(IF SentExactly[size][chunk] THEN Body(r) ELSE <<Garbled>>, size),
                  NoBlocks)
    BY <1>3 DEF CommitStream
  <2>2. (IF SentExactly[size][chunk] THEN Body(r) ELSE <<Garbled>>) = Body(r)
    BY <1>4
  <2> QED BY <2>1, <2>2
<1>6. /\ promise' = PutPromise(r, Object(Body(r), size)) /\ Return(r)
      /\ UNCHANGED <<up, own, crossed, sent>>
  BY <1>3 DEF CommitStream
<1> QED BY ONLY IInv, r \in Request, size \in Size, <1>1, <1>5, <1>6, BodyWritten

(* A PUT that fails promises nothing. *)
LEMMA PutFailsInv ==
    ASSUME IInv, NEW r \in Request, PutFails(r)
    PROVE  IInv'
<1>1. /\ pc[r] \in Changing /\ Return(r) /\ UNCHANGED <<up, own, crossed, sent, promise>>
  BY DEF PutFails
<1>2. CASE UNCHANGED <<service, cut>>
  <2>1. /\ \A q \in Request : q # r => pc'[q] = pc[q] /\ req'[q] = req[q]
        /\ pc' \in [Request -> {"idle", "download", "replied"} \cup Changing]
        /\ req' \in [Request -> Local]
        /\ \A c : ~Works(r, c)'
        /\ Shape(r)' /\ WriterOK(r)' /\ ReaderOK(r)'
    BY <1>1, ReturnFacts DEF IInv, TypeOK
  <2>2. /\ blob' = blob /\ committed' = committed /\ staged' = staged /\ stray' = stray
        /\ cut' = cut /\ up' = up /\ own' = own /\ crossed' = crossed /\ sent' = sent
        /\ promise' = promise
    BY <1>1, <1>2 DEF service
  <2>3. TypeOK' /\ BlocksOK'
    BY <2>1, <2>2 DEF IInv, TypeOK, ServiceType, UploadType, RequestType, BlocksOK, Latest
  <2>4. \A c \in Blob : c \in req[r].on => promise'[c] = Unknown
    BY <1>1, <2>2, WorkFacts
  <2> QED BY <1>1, <2>1, <2>2, <2>3, <2>4, WorkStep
<1>3. CASE Replace(NormalizedKey(req[r].key), Object(Body(r), req[r].size), NoBlocks)
  <2>1. req[r].size \in Size
    BY <1>1, WorkFacts
  <2> QED BY <1>1, <1>3, <2>1, BodyWritten
<1> QED BY <1>2, <1>3 DEF PutFails

(* Steps before the end: the request goes on, on the same key. *)
LEMMA GoesOn ==
    ASSUME IInv, NEW r \in Request, pc[r] \in Changing, NEW l \in Changing, Goto(r, l),
           NEW cleared \in BOOLEAN, req' = [req EXCEPT ![r].cleared = cleared]
    PROVE  /\ \A q \in Request : q # r => pc'[q] = pc[q] /\ req'[q] = req[q]
           /\ pc'[r] = l /\ req'[r].cleared = cleared
           /\ req'[r].key = req[r].key /\ req'[r].on = req[r].on /\ req'[r].size = req[r].size
           /\ req'[r].alone = req[r].alone /\ req'[r].want = req[r].want
           /\ RequestType' <=> promise' \in [Blob -> Promise]
           /\ \A c \in Blob : Works(r, c)' => Works(r, c) /\ (req'[r].alone => req[r].alone)
<1>1. req[r] \in Local /\ req \in [Request -> Local]
      /\ pc \in [Request -> {"idle", "download", "replied"} \cup Changing]
  BY DEF IInv, TypeOK, RequestType
<1>2. /\ \A q \in Request : q # r => pc'[q] = pc[q] /\ req'[q] = req[q]
      /\ pc'[r] = l /\ req'[r] = [req[r] EXCEPT !.cleared = cleared]
      /\ pc' \in [Request -> {"idle", "download", "replied"} \cup Changing]
  BY <1>1 DEF Goto
<1>3. /\ req'[r] \in Local /\ req'[r].cleared = cleared
      /\ req'[r].key = req[r].key /\ req'[r].on = req[r].on /\ req'[r].size = req[r].size
      /\ req'[r].alone = req[r].alone /\ req'[r].want = req[r].want
  BY <1>1, <1>2 DEF Local
<1>4. req' \in [Request -> Local]
  BY <1>1, <1>3
<1> QED BY <1>2, <1>3, <1>4 DEF RequestType, Works

(* Looking for the file a marker replaces: cleared means it was not there. *)
LEMMA FindConflictInv ==
    ASSUME IInv, NEW r \in Request, FindConflict(r)
    PROVE  IInv'
<1>1. /\ pc[r] = "conflict" /\ pc[r] \in Changing
      /\ UNCHANGED <<service, uploads, sent, promise>>
  BY DEF FindConflict, Changing
<1>2. /\ blob' = blob /\ committed' = committed /\ staged' = staged /\ stray' = stray
      /\ up' = up /\ own' = own /\ crossed' = crossed /\ cut' = cut /\ sent' = sent
      /\ promise' = promise
  BY <1>1 DEF service, uploads
<1>3. req[r] \in Local /\ req \in [Request -> Local] /\ Shape(r) /\ WriterOK(r) /\ ReaderOK(r)
  BY DEF IInv, TypeOK, RequestType, Locals
<1>4. \E l \in {"unlink", "upload"}, cleared \in BOOLEAN :
          /\ Goto(r, l) /\ req' = [req EXCEPT ![r].cleared = cleared]
          /\ cleared => blob["k"] = None \/ req[r].cleared
  <2>1. CASE Goto(r, "unlink") /\ UNCHANGED req
    <3>1. req[r].cleared \in BOOLEAN /\ req' = [req EXCEPT ![r].cleared = req[r].cleared]
      BY <1>3, <2>1 DEF Local
    <3> QED BY <2>1, <3>1
  <2>2. CASE Goto(r, "upload") /\ req' = [req EXCEPT ![r].cleared = blob["k"] = None]
    BY <2>2
  <2> QED BY <2>1, <2>2 DEF FindConflict
<1>5. PICK l \in {"unlink", "upload"}, cleared \in BOOLEAN :
          /\ Goto(r, l) /\ req' = [req EXCEPT ![r].cleared = cleared]
          /\ cleared => blob["k"] = None \/ req[r].cleared
  BY <1>4
<1>6. /\ \A q \in Request : q # r => pc'[q] = pc[q] /\ req'[q] = req[q]
      /\ pc'[r] = l /\ req'[r].cleared = cleared
      /\ req'[r].key = req[r].key /\ req'[r].on = req[r].on /\ req'[r].size = req[r].size
      /\ req'[r].alone = req[r].alone /\ req'[r].want = req[r].want
      /\ RequestType' <=> promise' \in [Blob -> Promise]
      /\ \A c \in Blob : Works(r, c)' => Works(r, c) /\ (req'[r].alone => req[r].alone)
  <2>1. l \in Changing
    BY DEF Changing
  <2> QED BY <1>1, <1>5, <2>1, GoesOn
<1>7. TypeOK' /\ BlocksOK'
  BY <1>2, <1>6 DEF IInv, TypeOK, ServiceType, UploadType, RequestType, BlocksOK, Latest
<1>8. \A c \in Blob : c \in req[r].on => promise'[c] = Unknown
  BY <1>1, <1>2, WorkFacts
<1>9. Shape(r)' /\ ReaderOK(r)'
  BY ONLY <1>1, <1>3, <1>6, l \in {"unlink", "upload"} DEF Shape, ReaderOK, Changing
<1>10. WriterOK(r)'
  BY ONLY <1>1, <1>2, <1>3, <1>5, <1>6, l \in {"unlink", "upload"} DEF WriterOK
<1>11. /\ \A c \in Blob : c \notin req[r].on => blob'[c] = blob[c] /\ promise'[c] = promise[c]
       /\ \A c \in Blob : c \in req[r].on /\ promise'[c] # Unknown =>
              /\ ~Works(r, c)' /\ req[r].alone
              /\ blob'[c] = IF promise'[c] = Gone THEN None ELSE promise'[c]
  BY <1>2, <1>8
<1> QED BY ONLY IInv, r \in Request, <1>1, <1>6, <1>7, <1>9, <1>10, <1>11, WorkStep

(* Deleting it. *)
LEMMA DeleteConflictInv ==
    ASSUME IInv, NEW r \in Request, DeleteConflict(r)
    PROVE  IInv'
<1>1. /\ pc[r] = "unlink" /\ pc[r] \in Changing /\ Goto(r, "upload")
      /\ up' = up /\ own' = own /\ crossed' = crossed /\ sent' = sent /\ promise' = promise
  BY DEF DeleteConflict, Changing
<1>2. req[r] \in Local /\ req \in [Request -> Local] /\ Shape(r) /\ WriterOK(r) /\ ReaderOK(r)
  BY DEF IInv, TypeOK, RequestType, Locals
<1>3. req[r].key = "k/" /\ "k" \in req[r].on /\ "k" \in Blob
  BY <1>1, <1>2 DEF Shape, Blob
<1>4. /\ ServiceType' /\ cut' \subseteq Upload /\ BlocksOK'
      /\ \A c \in Blob : c # "k" => blob'[c] = blob[c]
      /\ \E cleared \in BOOLEAN : /\ req' = [req EXCEPT ![r].cleared = cleared]
                                  /\ \/ blob'["k"] = None
                                     \/ blob'["k"] = blob["k"] /\ cleared = req[r].cleared
  <2>1. CASE DeleteBlob("k") /\ req' = [req EXCEPT ![r].cleared = TRUE]
    <3>1. Writes("k", None)
      BY <1>1, <1>3, <2>1, DeleteFacts DEF IInv, TypeOK
    <3>2. ServiceType' /\ cut' \subseteq Upload /\ BlocksOK'
      BY ONLY <3>1 DEF Writes, ServiceType
    <3> QED BY <2>1, <3>1, <3>2 DEF Writes
  <2>2. CASE UNCHANGED <<service, cut, req>>
    <3>1. /\ blob' = blob /\ committed' = committed /\ staged' = staged /\ stray' = stray
          /\ cut' = cut /\ req' = req
      BY <2>2 DEF service
    <3>2. ServiceType' /\ cut' \subseteq Upload /\ BlocksOK'
      BY <1>1, <3>1 DEF IInv, TypeOK, ServiceType, UploadType, BlocksOK, Latest
    <3>3. req[r].cleared \in BOOLEAN /\ req' = [req EXCEPT ![r].cleared = req[r].cleared]
      BY <1>2, <3>1 DEF Local
    <3> QED BY <3>1, <3>2, <3>3
  <2> QED BY <2>1, <2>2 DEF DeleteConflict
<1>5. PICK cleared \in BOOLEAN :
          /\ req' = [req EXCEPT ![r].cleared = cleared]
          /\ \/ blob'["k"] = None
             \/ blob'["k"] = blob["k"] /\ cleared = req[r].cleared
  BY <1>4
<1>6. /\ \A q \in Request : q # r => pc'[q] = pc[q] /\ req'[q] = req[q]
      /\ pc'[r] = "upload" /\ req'[r].cleared = cleared
      /\ req'[r].key = req[r].key /\ req'[r].on = req[r].on /\ req'[r].size = req[r].size
      /\ req'[r].alone = req[r].alone /\ req'[r].want = req[r].want
      /\ RequestType' <=> promise' \in [Blob -> Promise]
      /\ \A c \in Blob : Works(r, c)' => Works(r, c) /\ (req'[r].alone => req[r].alone)
  <2>1. "upload" \in Changing
    BY DEF Changing
  <2> QED BY <1>1, <1>5, <2>1, GoesOn
<1>7. TypeOK'
  BY <1>1, <1>4, <1>6 DEF IInv, TypeOK, UploadType, RequestType
<1>8. \A c \in Blob : c \in req[r].on => promise'[c] = Unknown
  BY <1>1, WorkFacts
<1>9. Shape(r)' /\ ReaderOK(r)'
  BY ONLY <1>1, <1>2, <1>6 DEF Shape, ReaderOK, Changing
<1>10. WriterOK(r)'
  BY ONLY <1>1, <1>2, <1>5, <1>6 DEF WriterOK
<1>11. /\ \A c \in Blob : c \notin req[r].on => blob'[c] = blob[c] /\ promise'[c] = promise[c]
       /\ \A c \in Blob : c \in req[r].on /\ promise'[c] # Unknown =>
              /\ ~Works(r, c)' /\ req[r].alone
              /\ blob'[c] = IF promise'[c] = Gone THEN None ELSE promise'[c]
  BY <1>1, <1>3, <1>4, <1>8
<1> QED BY ONLY IInv, r \in Request, <1>1, <1>4, <1>6, <1>7, <1>9, <1>10, <1>11, WorkStep

(* Staging a stream: blocks of its own, under ids of its own. *)
LEMMA StageStreamInv ==
    ASSUME IInv, NEW r \in Request, StageStream(r)
    PROVE  IInv'
<1>1. /\ pc[r] = "upload" /\ pc[r] \in Changing /\ stray' \in BOOLEAN
      /\ blob' = blob /\ committed' = committed /\ staged' = staged
      /\ up' = up /\ own' = own /\ crossed' = crossed /\ cut' = cut /\ sent' = sent
      /\ req' = req /\ promise' = promise /\ Goto(r, "commit")
  BY DEF StageStream, uploads, Changing
<1>2. req[r] \in Local /\ req \in [Request -> Local] /\ Shape(r) /\ WriterOK(r) /\ ReaderOK(r)
  BY DEF IInv, TypeOK, RequestType, Locals
<1>3. req[r].cleared \in BOOLEAN /\ req' = [req EXCEPT ![r].cleared = req[r].cleared]
  BY <1>1, <1>2 DEF Local
<1>4. /\ \A q \in Request : q # r => pc'[q] = pc[q] /\ req'[q] = req[q]
      /\ pc'[r] = "commit"
      /\ RequestType' <=> promise' \in [Blob -> Promise]
      /\ \A c \in Blob : Works(r, c)' => Works(r, c) /\ (req'[r].alone => req[r].alone)
  <2>1. "commit" \in Changing
    BY DEF Changing
  <2> QED BY <1>1, <1>3, <2>1, GoesOn
<1>5. TypeOK' /\ BlocksOK'
  BY <1>1, <1>4 DEF IInv, TypeOK, ServiceType, UploadType, RequestType, BlocksOK, Latest
<1>6. \A c \in Blob : c \in req[r].on => promise'[c] = Unknown
  BY <1>1, WorkFacts
<1>7. Shape(r)' /\ WriterOK(r)' /\ ReaderOK(r)'
  BY ONLY <1>1, <1>2, <1>4 DEF Shape, WriterOK, ReaderOK, Changing, Key
<1> QED BY <1>1, <1>4, <1>5, <1>6, <1>7, WorkStep

---------------------------------------------------------------------------
(* Reads. *)

(* A request that only reads changes nothing but its own locals. *)
LEMMA LookStep ==
    ASSUME IInv, NEW r \in Request, pc[r] \notin Changing,
           UNCHANGED <<service, uploads, sent, promise>>,
           NEW l \in {"idle", "download", "replied"}, Goto(r, l),
           NEW new \in Local, req' = [req EXCEPT ![r] = new],
           Shape(r)', ReaderOK(r)'
    PROVE  IInv'
<1>1. /\ blob' = blob /\ committed' = committed /\ staged' = staged /\ stray' = stray
      /\ up' = up /\ own' = own /\ crossed' = crossed /\ cut' = cut /\ sent' = sent
      /\ promise' = promise
  BY DEF service, uploads
<1>2. RequestType /\ Locals /\ AloneOK /\ PromiseIdle /\ AllKept
  BY DEF IInv, TypeOK, HistoryInv
<1>3. /\ \A q \in Request : q # r => pc'[q] = pc[q] /\ req'[q] = req[q]
      /\ pc'[r] \notin Changing
      /\ RequestType'
  BY <1>1, <1>2 DEF Goto, RequestType, Changing
<1>4. TypeOK' /\ BlocksOK' /\ AllKept'
  BY <1>1, <1>2, <1>3 DEF IInv, TypeOK, ServiceType, UploadType, BlocksOK, Latest, AllKept, Kept
<1>5. \A q \in Request : q # r => (Shape(q) /\ WriterOK(q) /\ ReaderOK(q))'
  <2> SUFFICES ASSUME NEW q \in Request, q # r
               PROVE  (Shape(q) /\ WriterOK(q) /\ ReaderOK(q))'
    OBVIOUS
  <2>1. Shape(q) /\ WriterOK(q) /\ ReaderOK(q)
    BY <1>2 DEF Locals
  <2>2. Same(q)
    BY <1>2, <1>3, SameLemma DEF RequestType
  <2> QED BY ONLY q \in Request, <1>1, <2>1, <2>2, Frame
<1>6. WriterOK(r)'
  BY <1>3 DEF WriterOK
<1>7. \A q \in Request, c \in Blob : /\ Works(q, c)' => q # r
                                     /\ q # r => (Works(q, c)' <=> Works(q, c))
  BY ONLY <1>3 DEF Works
<1>8. AloneOK' /\ PromiseIdle'
  BY ONLY <1>1, <1>2, <1>3, <1>7 DEF AloneOK, PromiseIdle
<1>9. Locals'
  BY <1>5, <1>6 DEF Locals
<1> QED BY <1>4, <1>8, <1>9 DEF IInv, HistoryInv

(* GetObject asks for the properties. *)
LEMMA GetObjectInv ==
    ASSUME IInv, NEW r \in Request, NEW key \in Key, GetObject(r, key)
    PROVE  IInv'
<1>1. PICK b \in Blob : b = NormalizedKey(key)
  BY Basics
<1> DEFINE asked == [NoReq EXCEPT !.key = key, !.on = {b}, !.want = promise[b]]
<1>2. /\ pc[r] = "idle" /\ pc[r] \notin Changing
      /\ UNCHANGED <<service, uploads, sent, promise>> /\ promise' = promise
  BY DEF GetObject, Changing
<1>3. /\ blob[b] \in ObjectType \cup {None} /\ promise[b] \in Promise /\ {b} \in SUBSET Blob
      /\ req \in [Request -> Local] /\ DOMAIN pc = Request /\ Kept(b, promise[b])
  BY DEF IInv, TypeOK, ServiceType, RequestType, AllKept
<1>4. /\ asked \in Local /\ asked.key = key /\ asked.on = {b} /\ asked.want = promise[b]
      /\ asked.answer = None
  BY <1>3 DEF NoReq, Local
<1>5. \/ blob[b] # None /\ Goto(r, "download")
         /\ req' = [req EXCEPT ![r] = [asked EXCEPT !.props = blob[b]]]
      \/ Goto(r, "replied") /\ req' = [req EXCEPT ![r] = [asked EXCEPT !.failed = blob[b] # None]]
  BY <1>1 DEF GetObject
<1> HIDE DEF asked
<1>6. CASE /\ blob[b] # None /\ Goto(r, "download")
           /\ req' = [req EXCEPT ![r] = [asked EXCEPT !.props = blob[b]]]
  <2> DEFINE new == [asked EXCEPT !.props = blob[b]]
  <2>1. /\ new \in Local /\ new.key = key /\ new.on = {b} /\ new.want = promise[b]
        /\ new.answer = None /\ new.props = blob[b]
    BY <1>3, <1>4 DEF Local
  <2>2. req' = [req EXCEPT ![r] = new] /\ req'[r] = new /\ pc'[r] = "download"
    BY <1>3, <1>6 DEF Goto
  <2> HIDE DEF new
  <2>3. Shape(r)'
    BY ONLY <1>1, <1>3, <1>6, <2>1, <2>2, key \in Key DEF Shape, Changing
  <2>4. ReaderOK(r)'
    BY ONLY <1>1, <1>2, <1>3, <1>6, <2>1, <2>2, Basics DEF ReaderOK, Kept, Promise
  <2>5. "download" \in {"idle", "download", "replied"}
    OBVIOUS
  <2> QED BY ONLY IInv, r \in Request, <1>2, <1>6, <2>1, <2>2, <2>3, <2>4, <2>5, LookStep
<1>7. CASE Goto(r, "replied") /\ req' = [req EXCEPT ![r] = [asked EXCEPT !.failed = blob[b] # None]]
  <2>1. PICK failed \in BOOLEAN : failed = (blob[b] # None)
    OBVIOUS
  <2> DEFINE new == [asked EXCEPT !.failed = failed]
  <2>2. /\ new \in Local /\ new.key = key /\ new.on = {b} /\ new.want = promise[b]
        /\ new.answer = None /\ new.failed = failed
    BY <1>4 DEF Local
  <2>3. req' = [req EXCEPT ![r] = new]
    BY <1>7, <2>1
  <2> HIDE DEF new
  <2>4. req'[r] = new /\ pc'[r] = "replied"
    BY <1>3, <1>7, <2>3 DEF Goto
  <2>5. Shape(r)'
    BY ONLY <1>1, <2>2, <2>4, key \in Key DEF Shape, Changing
  <2>6. ReaderOK(r)'
    <3>1. promise[b] # Unknown /\ promise[b] # Gone => failed
      BY ONLY <1>3, <2>1, Basics DEF Kept, Promise
    <3> QED BY ONLY <2>2, <2>4, <3>1 DEF ReaderOK
  <2>7. "replied" \in {"idle", "download", "replied"}
    OBVIOUS
  <2> QED BY ONLY IInv, r \in Request, <1>2, <1>7, <2>2, <2>3, <2>5, <2>6, <2>7, LookStep
<1> QED BY <1>5, <1>6, <1>7

(* The download: a read with something to expect gets what it expects, a    *)
(* failed call, or no blob for a large marker.                              *)
LEMMA DownloadInv ==
    ASSUME IInv, NEW r \in Request, Download(r)
    PROVE  IInv'
<1>1. /\ pc[r] = "download" /\ pc[r] \notin Changing /\ Goto(r, "replied")
      /\ UNCHANGED <<service, uploads, sent, promise>>
  BY DEF Download, Changing
<1>2. /\ req[r] \in Local /\ req \in [Request -> Local] /\ DOMAIN pc = Request
      /\ Shape(r) /\ ReaderOK(r)
  BY DEF IInv, TypeOK, RequestType, Locals
<1>3. PICK props \in ObjectType : props = req[r].props
  BY <1>1, <1>2 DEF Shape
<1>4. PICK key \in Key : /\ key = req[r].key /\ req[r].on = {NormalizedKey(key)}
                         /\ req[r].answer = None
  BY <1>1, <1>2 DEF Shape
<1>5. PICK b \in Blob : b = NormalizedKey(key)
  BY Basics
<1>6. PICK got \in ObjectType \cup {None} :
         /\ got = Downloads(key, props)
         /\ got = IF key = "k/" /\ props.size = "large" THEN None ELSE blob[b]
  <2>1. blob[b] \in ObjectType \cup {None}
    BY DEF IInv, TypeOK, ServiceType
  <2>2. Downloads(key, props) = IF key = "k/" /\ props.size = "large" THEN None ELSE blob[b]
    BY <1>5 DEF Downloads, NormalizedKey, Key, Blob
  <2> QED BY <2>1, <2>2
<1>7. "replied" \in {"idle", "download", "replied"} /\ pc'[r] = "replied"
  BY <1>1, <1>2 DEF Goto
<1>8. req[r].want # Unknown =>
          req[r].want \in ObjectType /\ blob[b] = req[r].want /\ props = req[r].want
  <2>1. req[r].want # Unknown =>
            req[r].want \in ObjectType /\ props = req[r].want /\ promise[b] = req[r].want
    BY ONLY <1>1, <1>2, <1>3, <1>4, <1>5 DEF ReaderOK
  <2>2. Kept(b, promise[b])
    BY DEF IInv, AllKept
  <2> QED BY ONLY <2>1, <2>2, Basics DEF Kept
<1>9. \/ got # None /\ req' = [req EXCEPT ![r].props = None, ![r].answer = Answer(key, props, got)]
      \/ req' = [req EXCEPT ![r].props = None, ![r].failed = got # None]
  BY ONLY <1>3, <1>4, <1>6, Download(r) DEF Download
<1>10. CASE req' = [req EXCEPT ![r].props = None, ![r].failed = got # None]
  <2>1. PICK failed \in BOOLEAN : failed = (got # None)
    OBVIOUS
  <2> DEFINE new == [req[r] EXCEPT !.props = None, !.failed = failed]
  <2>2. /\ new \in Local /\ new.key = key /\ new.on = req[r].on /\ new.want = req[r].want
        /\ new.answer = None /\ new.failed = failed
    BY <1>2, <1>4 DEF Local
  <2>3. req' = [req EXCEPT ![r] = new]
    BY <1>2, <1>10, <2>1
  <2> HIDE DEF new
  <2>4. req'[r] = new
    BY <1>2, <2>3
  <2>5. Shape(r)'
    BY ONLY <1>4, <1>7, <2>2, <2>4 DEF Shape, Changing
  <2>6. ReaderOK(r)'
    <3>1. req[r].want # Unknown => failed \/ (key = "k/" /\ req[r].want.size = "large")
      BY ONLY <1>6, <1>8, <2>1, Basics
    <3> QED BY ONLY <1>7, <2>2, <2>4, <3>1 DEF ReaderOK
  <2> QED BY ONLY IInv, r \in Request, <1>1, <1>7, <2>2, <2>3, <2>5, <2>6, LookStep
<1>11. CASE got # None /\
            req' = [req EXCEPT ![r].props = None, ![r].answer = Answer(key, props, got)]
  <2>1. PICK answer \in AnswerType :
           /\ answer = Answer(key, props, got) /\ answer.size = props /\ answer.body = got
           /\ answer.etag = ETag(key, IF props.size = "large" THEN props ELSE got)
    <3>1. PICK o \in ObjectType : o = IF props.size = "large" THEN props ELSE got
      BY <1>11
    <3>2. ETag(key, o) \in ObjectType \cup {EmptyMD5}
      BY DEF ETag
    <3>3. ReaderOf(props, got) \in {"high", "fast", "plain"}
      BY DEF ReaderOf
    <3>4. got \in ObjectType
      BY <1>11
    <3> DEFINE a == Answer(key, props, got)
    <3>5. a = [size |-> props, etag |-> ETag(key, o), body |-> got, reader |-> ReaderOf(props, got)]
      BY <3>1 DEF Answer
    <3> HIDE DEF a
    <3>6. a \in AnswerType /\ a.size = props /\ a.body = got /\ a.etag = ETag(key, o)
      BY <3>2, <3>3, <3>4, <3>5 DEF AnswerType
    <3> QED BY <3>1, <3>6 DEF a
  <2>2. answer # None
    BY Basics
  <2> DEFINE new == [req[r] EXCEPT !.props = None, !.answer = answer]
  <2>3. /\ new \in Local /\ new.key = key /\ new.on = req[r].on /\ new.want = req[r].want
        /\ new.answer = answer
    BY <1>2, <1>4 DEF Local
  <2>4. req' = [req EXCEPT ![r] = new]
    BY <1>2, <1>11, <2>1
  <2> HIDE DEF new
  <2>5. req'[r] = new
    BY <1>2, <2>4
  <2>6. Shape(r)'
    BY ONLY <1>4, <1>7, <2>3, <2>5 DEF Shape, Changing
  <2>7. ReaderOK(r)'
    <3>1. req[r].want # Unknown =>
            /\ req[r].want \in ObjectType /\ got = req[r].want /\ props = req[r].want
            /\ answer.etag = ETag(key, req[r].want)
      BY <1>6, <1>8, <1>11, <2>1
    <3> QED BY ONLY <1>7, <2>1, <2>2, <2>3, <2>5, <3>1, Basics DEF ReaderOK
  <2> QED BY ONLY IInv, r \in Request, <1>1, <1>7, <2>3, <2>4, <2>6, <2>7, LookStep
<1> QED BY <1>9, <1>10, <1>11

(* The end of a read. *)
LEMMA FinishInv ==
    ASSUME IInv, NEW r \in Request, Finish(r)
    PROVE  IInv'
<1>1. /\ pc[r] = "replied" /\ pc[r] \notin Changing /\ Return(r)
      /\ UNCHANGED <<service, uploads, sent, promise>>
  BY DEF Finish, Changing
<1>2. Shape(r)' /\ ReaderOK(r)'
  BY <1>1, ReturnFacts DEF IInv, TypeOK
<1>3. Goto(r, "idle") /\ req' = [req EXCEPT ![r] = NoReq]
  BY <1>1 DEF Return
<1> QED BY <1>1, <1>2, <1>3, Basics, LookStep

---------------------------------------------------------------------------
(* Uploads. *)

(* Uploads and their blocks are none of the other requests' business. *)
LEMMA UploadStep ==
    ASSUME IInv, UNCHANGED <<blob, pc, req, promise>>, ServiceType', UploadType', BlocksOK'
    PROVE  IInv'
<1>1. blob' = blob /\ pc' = pc /\ req' = req /\ promise' = promise
  OBVIOUS
<1>2. TypeOK' /\ AllKept'
  BY <1>1 DEF IInv, TypeOK, RequestType, AllKept, Kept
<1>3. HistoryInv'
  BY <1>1 DEF IInv, HistoryInv, AloneOK, PromiseIdle, Works
<1>4. Locals'
  <2> SUFFICES ASSUME NEW q \in Request PROVE (Shape(q) /\ WriterOK(q) /\ ReaderOK(q))'
    BY DEF Locals
  <2>1. Shape(q) /\ WriterOK(q) /\ ReaderOK(q)
    BY DEF IInv, Locals
  <2> QED BY <1>1, <2>1 DEF Shape, WriterOK, ReaderOK
<1> QED BY <1>2, <1>3, <1>4 DEF IInv

(* An id is made or dropped. *)
LEMMA InitiateAbortInv ==
    ASSUME IInv, NEW u \in Upload, InitiateMultipartUpload(u) \/ AbortMultipartUpload(u)
    PROVE  IInv'
<1>1. /\ blob' = blob /\ committed' = committed /\ staged' = staged /\ stray' = stray
      /\ own' = own /\ crossed' = crossed /\ cut' = cut /\ sent' = sent
      /\ UNCHANGED <<blob, pc, req, promise>>
      /\ up' = [up EXCEPT ![u] = "open"] \/ up' = [up EXCEPT ![u] = "aborted"]
  BY DEF InitiateMultipartUpload, AbortMultipartUpload, service
<1>2. ServiceType' /\ UploadType' /\ BlocksOK'
  BY <1>1 DEF IInv, TypeOK, ServiceType, UploadType, BlocksOK, Latest
<1> QED BY <1>1, <1>2, UploadStep

(* A part is staged: over those of the same number, which are crossed now. *)
LEMMA UploadPartInv ==
    ASSUME IInv, NEW u \in Upload, NEW n \in PartNo, UploadPart(u, n)
    PROVE  IInv'
<1>1. /\ blob' = blob /\ committed' = committed /\ stray' = stray /\ up' = up /\ cut' = cut
      /\ UNCHANGED <<blob, pc, req, promise>>
      /\ sent' = sent + 1 /\ staged' = [staged EXCEPT ![n] = sent']
      /\ \/ /\ own' = [own EXCEPT ![u][n] = sent']
            /\ crossed' = (crossed \ {<<u, n>>}) \cup CrossedBy(Upload \ {u}, n)
         \/ /\ crossed' = crossed \cup CrossedBy(Upload, n)
            /\ own' = own
  BY DEF UploadPart
<1>2. /\ sent \in Nat /\ staged \in BlockMap /\ committed \in BlockMap
      /\ own \in [Upload -> BlockMap] /\ crossed \subseteq Upload \X PartNo /\ BlocksOK
  BY DEF IInv, TypeOK, ServiceType, UploadType
<1>3. PICK s \in Nat : s = sent'
  BY <1>1, <1>2
<1>4. s # None
  BY Basics
<1>5. /\ staged' \in BlockMap /\ staged'[n] = s
      /\ \A m \in PartNo : m # n => staged'[m] = staged[m]
  BY <1>1, <1>2, <1>3 DEF BlockMap
<1>6. Latest(n)' = s /\ \A m \in PartNo : m # n => Latest(m)' = Latest(m)
  BY <1>1, <1>4, <1>5 DEF Latest
<1>7. /\ CrossedBy(Upload, n) \subseteq Upload \X PartNo
      /\ CrossedBy(Upload \ {u}, n) \subseteq Upload \X PartNo
      /\ \A v \in Upload : own[v][n] # None => <<v, n>> \in CrossedBy(Upload, n)
      /\ \A v \in Upload : v # u /\ own[v][n] # None => <<v, n>> \in CrossedBy(Upload \ {u}, n)
  BY DEF CrossedBy
<1>8. own' \in [Upload -> BlockMap] /\ crossed' \subseteq Upload \X PartNo /\ BlocksOK'
  <2>1. CASE /\ own' = [own EXCEPT ![u][n] = sent']
             /\ crossed' = (crossed \ {<<u, n>>}) \cup CrossedBy(Upload \ {u}, n)
    <3>1. /\ own'[u][n] = s
          /\ \A v \in Upload, m \in PartNo : v # u \/ m # n => own'[v][m] = own[v][m]
          /\ own' \in [Upload -> BlockMap]
      BY <1>2, <1>3, <2>1 DEF BlockMap
    <3>2. crossed' \subseteq Upload \X PartNo
      BY <1>2, <1>7, <2>1
    <3>3. /\ \A v \in Upload : v # u /\ own[v][n] # None => <<v, n>> \in crossed'
          /\ \A v \in Upload, m \in PartNo : m # n /\ <<v, m>> \in crossed => <<v, m>> \in crossed'
      BY <1>7, <2>1
    <3>4. BlocksOK'
      <4> SUFFICES ASSUME NEW v \in Upload, NEW m \in PartNo,
                          own'[v][m] # None, <<v, m>> \notin crossed'
                   PROVE  /\ Latest(m)' \in {None, own'[v][m]}
                          /\ v \notin cut' => Latest(m)' = own'[v][m]
        BY DEF BlocksOK
      <4>1. CASE m = n
        <5>1. v = u
          BY ONLY v \in Upload, own'[v][m] # None, <<v, m>> \notin crossed', <3>1, <3>3, <4>1, m \in PartNo
        <5> QED BY ONLY <1>6, <3>1, <4>1, <5>1
      <4>2. CASE m # n
        <5>1. own[v][m] # None /\ <<v, m>> \notin crossed
          BY ONLY v \in Upload, own'[v][m] # None, <<v, m>> \notin crossed', <3>1, <3>3, <4>2, m \in PartNo
        <5> QED BY ONLY v \in Upload, m \in PartNo, <1>1, <1>2, <1>6, <3>1, <4>2, <5>1 DEF BlocksOK
      <4> QED BY <4>1, <4>2
    <3> QED BY <3>1, <3>2, <3>4
  <2>2. CASE crossed' = crossed \cup CrossedBy(Upload, n) /\ own' = own
    <3>1. crossed' \subseteq Upload \X PartNo
      BY <1>2, <1>7, <2>2
    <3>2. /\ \A v \in Upload : own[v][n] # None => <<v, n>> \in crossed'
          /\ \A v \in Upload, m \in PartNo : <<v, m>> \in crossed => <<v, m>> \in crossed'
      BY <1>7, <2>2
    <3>3. BlocksOK'
      BY ONLY <1>1, <1>2, <1>6, <2>2, <3>2, n \in PartNo DEF BlocksOK
    <3> QED BY <1>2, <2>2, <3>1, <3>3
  <2> QED BY <1>1, <2>1, <2>2
<1>9. ServiceType' /\ UploadType'
  BY ONLY <1>1, <1>3, <1>5, <1>8, IInv DEF IInv, TypeOK, ServiceType, UploadType
<1> QED BY ONLY IInv, <1>1, <1>8, <1>9, UploadStep

---------------------------------------------------------------------------
(* The invariant. *)

(* It holds of an empty container. *)
LEMMA InitInv == Init => IInv
<1> SUFFICES ASSUME Init PROVE IInv
  OBVIOUS
<1>1. TypeOK
  BY Basics DEF Init, TypeOK, ServiceType, UploadType, RequestType, Promise
<1>2. BlocksOK
  BY DEF Init, BlocksOK, NoBlocks
<1>3. /\ \A r \in Request : pc[r] = "idle" /\ req[r] = NoReq
      /\ NoReq.want = Unknown
  BY DEF Init, NoReq
<1>4. HistoryInv /\ Locals
  BY <1>3 DEF HistoryInv, AloneOK, PromiseIdle, Works, Changing, Locals, Shape, WriterOK, ReaderOK
<1>5. AllKept
  BY Basics DEF Init, AllKept, Kept
<1> QED BY <1>1, <1>2, <1>4, <1>5 DEF IInv

(* A step in which nothing happens keeps it. *)
LEMMA StutterInv ==
    ASSUME IInv, UNCHANGED vars
    PROVE  IInv'
<1>1. /\ UNCHANGED <<blob, pc, req, promise>>
      /\ blob' = blob /\ committed' = committed /\ staged' = staged /\ stray' = stray
      /\ up' = up /\ own' = own /\ crossed' = crossed /\ cut' = cut /\ sent' = sent
  BY DEF vars, service, uploads
<1>2. ServiceType' /\ UploadType' /\ BlocksOK'
  BY <1>1 DEF IInv, TypeOK, ServiceType, UploadType, BlocksOK, Latest
<1> QED BY <1>1, <1>2, UploadStep

(* Every step keeps it. *)
LEMMA NextInv == IInv /\ [Next]_vars => IInv'
<1> SUFFICES ASSUME IInv, [Next]_vars PROVE IInv'
  OBVIOUS
<1>1. CASE \E r \in Request, key \in Key :
              \/ \E size \in Size : PutObject(r, key, size)
              \/ DeleteObject(r, key) \/ GetObject(r, key)
  BY <1>1, PutObjectInv, DeleteObjectInv, GetObjectInv
<1>2. CASE \E r \in Request :
              \/ FindConflict(r) \/ DeleteConflict(r) \/ UploadWhole(r)
              \/ StageStream(r) \/ CommitStream(r) \/ PutFails(r)
              \/ Download(r) \/ Finish(r)
              \/ \E u \in Upload, list \in PartLists : CompleteMultipartUpload(r, u, list)
  BY <1>2, FindConflictInv, DeleteConflictInv, UploadWholeInv, StageStreamInv, CommitStreamInv,
     PutFailsInv, DownloadInv, FinishInv, CompleteInv
<1>3. CASE \E u \in Upload :
              \/ InitiateMultipartUpload(u) \/ AbortMultipartUpload(u)
              \/ \E n \in PartNo : UploadPart(u, n)
  BY <1>3, InitiateAbortInv, UploadPartInv
<1>4. CASE UNCHANGED vars
  BY <1>4, StutterInv
<1> QED BY <1>1, <1>2, <1>3, <1>4 DEF Next

(* The inductive invariant holds of every behaviour of the backend. *)
THEOREM Invariance == Spec => []IInv
  BY InitInv, NextInv, PTL DEF Spec

(* What was acknowledged stays, as long as no other request has begun to    *)
(* change the blob, and HEAD and listings show it: whichever calls fail,    *)
(* and however the calls of concurrent requests interleave.                 *)
THEOREM AcknowledgedStays == Spec => []AcknowledgedIsKept
<1>1. IInv => AcknowledgedIsKept
  <2> SUFFICES ASSUME IInv, NEW key \in Key, promise[NormalizedKey(key)] # Unknown
               PROVE  LET left == promise[NormalizedKey(key)] IN
                      /\ HeadObject(key) = IF left = Gone THEN None ELSE left
                      /\ Lists(key) <=> left # Gone
    BY DEF AcknowledgedIsKept
  <2>1. PICK b \in Blob : b = NormalizedKey(key)
    BY Basics
  <2>2. promise[b] \in Promise /\ blob[b] = IF promise[b] = Gone THEN None ELSE promise[b]
    BY <2>1 DEF IInv, TypeOK, RequestType, AllKept, Kept
  <2>3. blob[b] # None <=> promise[b] # Gone
    BY <2>1, <2>2, Basics DEF Promise
  <2>4. Lists(key) <=> blob[b] # None
    <3>1. CASE key = "k"
      <4>1. b = "k" /\ {FALSE, key = "k/"} = {FALSE}
        BY <2>1, <3>1 DEF NormalizedKey
      <4>2. \A delimiter \in BOOLEAN :
              LET l == ListObjects(FALSE, delimiter) IN
              {"k"} \cap (l.keys \cup l.prefixes) # {} <=> blob["k"] # None
        BY DEF ListObjects, OriginalKey, ListedMetadata, Blob
      <4>3. {key, NormalizedKey(key)} = {"k"}
        BY <3>1 DEF NormalizedKey
      <4> QED BY <3>1, <4>1, <4>2, <4>3 DEF Lists
    <3>2. CASE key = "k/"
      <4>1. b = "k/.dir" /\ {FALSE, key = "k/"} = BOOLEAN
        BY <2>1, <3>2 DEF NormalizedKey
      <4>2. \A delimiter \in BOOLEAN, below \in BOOLEAN :
              LET l == ListObjects(below, delimiter) IN
              {"k/", "k/.dir"} \cap (l.keys \cup l.prefixes) # {} <=> blob["k/.dir"] # None
        BY DEF ListObjects, OriginalKey, ListedMetadata, Blob
      <4>3. {key, NormalizedKey(key)} = {"k/", "k/.dir"}
        BY <3>2 DEF NormalizedKey
      <4> QED BY <3>2, <4>1, <4>2, <4>3 DEF Lists
    <3> QED BY <3>1, <3>2 DEF Key
  <2> QED BY <2>1, <2>2, <2>3, <2>4 DEF HeadObject
<1> QED BY Invariance, <1>1, PTL

(* A part stays what a commit would use until somebody stages that part     *)
(* number again or writes or deletes the object.                            *)
THEOREM PartsStay == Spec => []PartsAreKept
<1>1. IInv => PartsAreKept
  BY DEF IInv, BlocksOK, PartsAreKept
<1> QED BY Invariance, <1>1, PTL

(* A read nobody disturbs answers with one version, out of its two calls,   *)
(* or with an error that has a cause.                                       *)
THEOREM ReadsAreExact == Spec => []UndisturbedReadsAreExact
<1>1. IInv => UndisturbedReadsAreExact
  BY DEF IInv, Locals, ReaderOK, UndisturbedReadsAreExact
<1> QED BY Invariance, <1>1, PTL

(* No body loses or repeats a byte on its way through a reader, whatever    *)
(* its length and however the connection cuts it, except under io.ReadAll   *)
(* through a buffer; the cache gets as many bytes as the properties said.   *)
THEOREM BodiesAreExact == Spec => []BodyIsExact
<1>1. IInv => BodyIsExact
  <2> SUFFICES ASSUME IInv, NEW r \in Request, NEW consumer \in Consumer, NEW chunk \in Chunk,
                      req[r].answer # None, consumer = "all" => req[r].answer.reader = "plain"
               PROVE  LET said == req[r].answer.size.size
                          size == req[r].answer.body.size
                          reads == Delivers[req[r].answer.reader][said][size][consumer][chunk] IN
                      /\ reads.ordered
                      /\ reads.bytes = IF consumer = "full" THEN Least(Length[said], Length[size])
                                       ELSE Length[size]
    BY DEF BodyIsExact
  <2>1. req[r].answer \in AnswerType
    BY DEF IInv, TypeOK, RequestType, Local
  <2>2. PICK kind \in {"high", "fast", "plain"}, said \in SizeClass, size \in SizeClass :
           /\ kind = req[r].answer.reader /\ said = req[r].answer.size.size
           /\ size = req[r].answer.body.size
    BY <2>1 DEF AnswerType, ObjectType
  <2>3. PICK given \in Nat, total \in Nat : given = Length[said] /\ total = Length[size]
    BY BackendAssumption
  <2>4. chunk \in Nat \ {0}
    BY BackendAssumption
  <2>5. Suits(kind, consumer)
    BY <2>2 DEF Suits, Consumer
  <2> DEFINE reads == Delivered(kind, given, total, consumer, chunk)
  <2>6. reads = [bytes |-> IF consumer = "full" THEN Least(given, total) ELSE total, ordered |-> TRUE]
    BY ONLY given \in Nat, total \in Nat, <2>4, <2>5, Exact
  <2>7. Delivers[kind][said][size][consumer][chunk] = reads
    BY <2>3 DEF Delivers
  <2>8. reads.ordered /\ reads.bytes = IF consumer = "full" THEN Least(given, total) ELSE total
    BY <2>6
  <2> HIDE DEF reads
  <2>9. Delivers[req[r].answer.reader][req[r].answer.size.size][req[r].answer.body.size][consumer][chunk]
          = reads
    BY ONLY <2>2, <2>7
  <2> QED BY ONLY <2>2, <2>3, <2>8, <2>9
<1> QED BY Invariance, <1>1, PTL

---------------------------------------------------------------------------
(* The pages of ListParts. *)

(* A page has the numbers after its marker, up to max of them. *)
LEMMA PageIs ==
    ASSUME NEW max \in Nat \ {0}, NEW marker \in Nat, NEW count \in Nat, count = StagedCount,
           marker <= count
    PROVE  /\ PartsPage(max, marker).parts =
                 (marker + 1) .. (IF marker + max <= count THEN marker + max ELSE count)
           /\ PartsPage(max, marker).truncated <=> marker + max < count
           /\ marker + Cardinality(PartsPage(max, marker).parts) =
                 IF marker + max <= count THEN marker + max ELSE count
<1> DEFINE end == IF marker + max <= count THEN marker + max ELSE count
<1>1. PartsPage(max, marker).parts = {i \in 1 .. count : i > marker /\ i <= marker + max}
  BY DEF PartsPage
<1>2. {i \in 1 .. count : i > marker /\ i <= marker + max} = (marker + 1) .. end
  OBVIOUS
<1>3. PartsPage(max, marker).truncated <=> marker + max < count
  BY DEF PartsPage
<1>4. end \in Nat /\ end >= marker
  OBVIOUS
<1> HIDE DEF end
<1>5. Cardinality((marker + 1) .. end) = end - marker
  <2>1. PICK from \in Int, to \in Int : from = marker + 1 /\ to = end
    BY <1>4
  <2>2. Cardinality(from .. to) = IF from > to THEN 0 ELSE to - from + 1
    BY FS_Interval
  <2> QED BY <1>4, <2>1, <2>2
<1>6. marker + Cardinality(PartsPage(max, marker).parts) = end
  <2>1. PICK page : page = PartsPage(max, marker).parts
    OBVIOUS
  <2>2. page = (marker + 1) .. end
    BY <1>1, <1>2, <2>1, Zenon
  <2>3. Cardinality(page) = end - marker
    BY <1>5, <2>2, Zenon
  <2> QED BY <1>4, <2>1, <2>3
<1> QED BY <1>1, <1>2, <1>3, <1>6 DEF end

(* The recursion that the markers are defined by has a solution. *)
LEMMA MarkersExist ==
    ASSUME NEW max \in Nat \ {0}, StagedCount \in Nat
    PROVE  \E f : f = [i \in Nat |->
              IF i = 0 THEN 0 ELSE f[i - 1] + Cardinality(PartsPage(max, f[i - 1]).parts)]
<1>1. PICK count \in Nat : count = StagedCount
  OBVIOUS
<1> DEFINE f == [i \in Nat |-> IF i * max <= count THEN i * max ELSE count]
<1>2. ASSUME NEW i \in Nat
      PROVE  f[i] = IF i = 0 THEN 0 ELSE f[i - 1] + Cardinality(PartsPage(max, f[i - 1]).parts)
  <2>1. CASE i = 0
    BY <2>1
  <2>2. CASE i # 0
    <3>1. PICK j \in Nat : j = i - 1
      BY <2>2
    <3>2. PICK a \in Nat, b \in Nat : a = j * max /\ b = i * max /\ b = a + max
      BY <3>1
    <3>3. f[j] = (IF a <= count THEN a ELSE count) /\ f[i] = (IF b <= count THEN b ELSE count)
      BY <3>2
    <3>4. PICK m \in Nat : m = f[j] /\ m <= count
      BY <3>3
    <3>5. m + Cardinality(PartsPage(max, m).parts) = IF m + max <= count THEN m + max ELSE count
      BY <1>1, <3>4, PageIs
    <3>6. f[i] = IF m + max <= count THEN m + max ELSE count
      BY <3>2, <3>3, <3>4
    <3> HIDE DEF f
    <3> QED BY <2>2, <3>1, <3>4, <3>5, <3>6
  <2> QED BY <2>1, <2>2
<1>3. f = [i \in Nat |->
              IF i = 0 THEN 0 ELSE f[i - 1] + Cardinality(PartsPage(max, f[i - 1]).parts)]
  <2>1. f = [i \in Nat |-> f[i]]
    OBVIOUS
  <2> HIDE DEF f
  <2> QED BY <1>2, <2>1
<1> QED BY <1>3

(* Each marker is a page beyond the one before it, or at the end. *)
LEMMA MarkersAre ==
    ASSUME NEW max \in Nat \ {0}, NEW count \in Nat, count = StagedCount,
           NEW marker, marker = NextMarkers(max)
    PROVE  /\ marker[0] = 0
           /\ \A i \in Nat : /\ marker[i] \in Nat /\ marker[i] <= count
                             /\ marker[i] >= i \/ marker[i] = count
                             /\ marker[i + 1] = IF marker[i] + max <= count THEN marker[i] + max
                                                ELSE count
<1> DEFINE step[i \in Nat] ==
            IF i = 0 THEN 0 ELSE step[i - 1] + Cardinality(PartsPage(max, step[i - 1]).parts)
<1>1. marker = step
  BY DEF NextMarkers
<1>2. step = [i \in Nat |->
              IF i = 0 THEN 0 ELSE step[i - 1] + Cardinality(PartsPage(max, step[i - 1]).parts)]
  BY MarkersExist
<1> HIDE DEF step
<1>3. /\ marker[0] = 0
      /\ \A i \in Nat : marker[i + 1] = marker[i] + Cardinality(PartsPage(max, marker[i]).parts)
  BY <1>1, <1>2
<1> DEFINE T == {i \in Nat : /\ marker[i] \in Nat /\ marker[i] <= count
                             /\ marker[i] >= i \/ marker[i] = count}
<1>4. 0 \in T
  BY <1>3
<1>5. ASSUME NEW i \in Nat, i \in T
      PROVE  marker[i + 1] = IF marker[i] + max <= count THEN marker[i] + max ELSE count
  <2>1. PICK m \in Nat : m = marker[i] /\ m <= count
    BY <1>5
  <2>2. m + Cardinality(PartsPage(max, m).parts) = IF m + max <= count THEN m + max ELSE count
    BY <2>1, PageIs
  <2> QED BY <1>3, <2>1, <2>2
<1>6. ASSUME NEW i \in Nat, i \in T PROVE i + 1 \in T
  <2>1. PICK m \in Nat : m = marker[i] /\ m <= count /\ (m >= i \/ m = count)
    BY <1>6
  <2>2. marker[i + 1] = IF m + max <= count THEN m + max ELSE count
    BY <1>5, <1>6, <2>1
  <2> QED BY <2>1, <2>2
<1> HIDE DEF T
<1>7. Nat \subseteq T
  BY <1>4, <1>6, Induction
<1> QED BY <1>3, <1>5, <1>7 DEF T

(* So the pages have every part between them, whatever their size. *)
LEMMA PagesCoverTheParts ==
    ASSUME NEW max \in Nat \ {0}, NEW count \in Nat, count = StagedCount
    PROVE  ListedParts(max) = 1 .. count
<1> DEFINE marker == NextMarkers(max)
           pages == {i \in 0 .. count : \A j \in 0 .. i - 1 : PartsPage(max, marker[j]).truncated}
<1>1. ListedParts(max) = UNION {PartsPage(max, marker[i]).parts : i \in pages}
  BY DEF ListedParts
<1>2. /\ marker[0] = 0
      /\ \A i \in Nat : /\ marker[i] \in Nat /\ marker[i] <= count
                        /\ marker[i] >= i \/ marker[i] = count
                        /\ marker[i + 1] = IF marker[i] + max <= count THEN marker[i] + max
                                           ELSE count
  BY MarkersAre
<1> HIDE DEF marker
<1>3. \A i \in pages : i \in Nat /\ PartsPage(max, marker[i]).parts \subseteq 1 .. count
  BY DEF PartsPage
<1>4. ASSUME NEW p \in 1 .. count
      PROVE  \E i \in pages : p \in PartsPage(max, marker[i]).parts
  <2> DEFINE T == {i \in Nat : marker[i] >= p}
  <2>1. count \in T
    BY <1>2
  <2>2. PICK m \in T : \A y \in T : m <= y
    BY <2>1, LeastNumber
  <2>3. m \in Nat /\ m <= count /\ m # 0
    BY <1>2, <2>1, <2>2
  <2>4. PICK i \in Nat : m = i + 1 /\ i <= count
    BY <2>3
  <2>5. PICK a \in Nat : a = marker[i] /\ a < p /\ a <= count
    BY <1>2, <2>2, <2>4
  <2>6. p <= a + max
    BY <1>2, <2>2, <2>4, <2>5
  <2>7. p \in PartsPage(max, marker[i]).parts
    <3>1. PartsPage(max, a).parts = (a + 1) .. (IF a + max <= count THEN a + max ELSE count)
      BY <2>5, PageIs
    <3> QED BY <2>5, <2>6, <3>1
  <2>8. ASSUME NEW j \in 0 .. i - 1 PROVE PartsPage(max, marker[j]).truncated
    <3>1. PICK b \in Nat : b = marker[j] /\ b <= count
      BY <1>2, <2>4
    <3>2. j + 1 \in Nat /\ j + 1 < m
      BY <2>4
    <3>3. marker[j + 1] \in Nat /\ marker[j + 1] < p
      BY <1>2, <2>2, <2>3, <3>2
    <3>4. b + max < count
      BY <1>2, <3>1, <3>3
    <3> QED BY <3>1, <3>4, PageIs
  <2>9. i \in pages
    BY <2>4, <2>8
  <2> QED BY <2>7, <2>9
<1> HIDE DEF pages
<1> QED BY <1>1, <1>3, <1>4

(* The pages of ListParts show an upload whose parts are numbered without   *)
(* gaps each of its parts, and nothing else.                                *)
THEOREM EveryPartIsListed == Spec => []PartsAreListed
<1>1. PartsAreListed
  <2> SUFFICES ASSUME NEW u \in Upload, OnlyOwn(u), NEW mine,
                      mine = {n \in PartNo : own[u][n] # None}, mine = 1 .. Cardinality(mine),
                      NEW max \in 1 .. MaxParts
               PROVE  ListedParts(max) = mine
    BY DEF PartsAreListed
  <2>1. mine \subseteq PartNo /\ IsFiniteSet(mine)
    BY BackendAssumption, FS_Subset
  <2>2. PICK count \in Nat : count = Cardinality(mine)
    BY <2>1, FS_CardinalityType
  <2>3. {n \in PartNo : staged[n] # None} = mine /\ ~stray
    BY DEF OnlyOwn
  <2>4. StagedCount = count
    BY <2>2, <2>3 DEF StagedCount
  <2>5. ListedParts(max) = 1 .. count
    BY <2>4, PagesCoverTheParts, BackendAssumption
  <2> QED BY <2>2, <2>5
<1> QED BY <1>1, PTL

=============================================================================
