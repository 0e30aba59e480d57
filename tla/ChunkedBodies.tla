---------------------------- MODULE ChunkedBodies ----------------------------
(***************************************************************************)
(* storage.chunkedDecodingReader (internal/storage/s3.go), through which   *)
(* the body of every object S3Backend.GetObject returns is read.  Objects  *)
(* may have been stored as clients with streaming signatures sent them,    *)
(* with a line "<size>;chunk-signature=..." before each chunk and a marker *)
(* "0\r\n\r\n" at the end.  The reader looks for both in what one read of  *)
(* the connection delivers: for the first such line as long as it has not  *)
(* dropped one, wherever in the body the read is, and for the marker at    *)
(* the end of every read.                                                  *)
(*                                                                         *)
(* A stored body is [size, sigs, breaks, mark]: the pieces 1 .. size, of   *)
(* which those in sigs have a ";chunk-signature=" in them, after a byte at *)
(* least, and those in breaks a line break.  The MarkerLen pieces that end *)
(* at mark are those of the marker, wherever it is, unless mark is 0.  A   *)
(* read may begin and end anywhere.  A reader belongs to one request, so   *)
(* all its Reads are one calculation.                                      *)
(***************************************************************************)
EXTENDS Integers, Sequences

MarkerLen == 2

(* A signature counts if it begins in the first 20 bytes of a read: in one  *)
(* of its first pieces.                                                     *)
Near == 2

IsBody(v) ==
    /\ v.size \in Nat
    /\ v.sigs \subseteq 1 .. v.size /\ v.breaks \subseteq (1 .. v.size) \ v.sigs
    /\ v.mark \in {0} \cup (MarkerLen .. v.size)
    /\ v.mark > 0 => {v.mark - 1, v.mark} \subseteq v.breaks

(* Where reads of the connection may cut a body. *)
Cuts(v) == SUBSET (1 .. v.size - 1)

(* Nothing in it looks like chunks. *)
Plain(v) == v.sigs = {} /\ v.mark = 0

Smaller(a, b) == IF a < b THEN a ELSE b

(* buffer, inChunk and done are the reader's; src counts what it took from  *)
(* the connection, out is what its caller has got.                          *)
Fresh == [src |-> 0, buffer |-> <<>>, inChunk |-> FALSE, done |-> FALSE,
          out |-> <<>>, ended |-> FALSE]

(* What the next read of the connection delivers: the pieces up to the next *)
(* of the cuts, or the rest.                                                *)
Arriving(s, v, cuts) ==
    LET ends == {n \in cuts \cup {v.size} : n > s.src}
        end == CHOOSE n \in ends : \A m \in ends : n <= m IN
    [i \in 1 .. end - s.src |-> s.src + i]

(* Which of the pieces read have a signature, and a line break; the first.  *)
Signatures(v, raw) == {i \in 1 .. Len(raw) : raw[i] \in v.sigs}
Newlines(v, raw) == {i \in 1 .. Len(raw) : raw[i] \in v.breaks}
First(is) == CHOOSE i \in is : \A j \in is : i <= j

(* A header is recognised by a signature near the start of the read, if the *)
(* first line break comes after it.                                         *)
HasHeader(s, v, raw) ==
    LET sigs == Signatures(v, raw)
        newlines == Newlines(v, raw) IN
    /\ ~s.inChunk
    /\ sigs # {} /\ First(sigs) <= Near
    /\ newlines # {} /\ First(newlines) > First(sigs)

(* ... and what is dropped is the read up to that line break. *)
WithoutHeader(s, v, raw) ==
    IF HasHeader(s, v, raw) THEN SubSeq(raw, First(Newlines(v, raw)) + 1, Len(raw)) ELSE raw

HasMarker(v, data) == v.mark > 0 /\ Len(data) >= MarkerLen /\ data[Len(data)] = v.mark

(* Mutant: a byte too little is cut off. *)
WithoutMarkerShort(v, data) ==
    IF HasMarker(v, data) THEN SubSeq(data, 1, Len(data) - 1) ELSE data

WithoutMarker(v, data) ==
    IF HasMarker(v, data) THEN SubSeq(data, 1, Len(data) - MarkerLen) ELSE data

(* The caller gets as much of data as it has room for, the rest is kept. *)
Hand(s, data, room) ==
    LET n == Smaller(room, Len(data)) IN
    [s EXCEPT !.out = @ \o SubSeq(data, 1, n), !.buffer = SubSeq(data, n + 1, Len(data))]

ReadMore(s, v, room, cuts) ==
    LET raw == Arriving(s, v, cuts)
        headless == WithoutHeader(s, v, raw)
    IN Hand([s EXCEPT !.src = @ + Len(raw), !.inChunk = @ \/ HasHeader(s, v, raw),
                      !.done = HasMarker(v, headless)],
            WithoutMarker(v, headless), room)

(* Read: done is looked at before what is left in the buffer. *)
Read(s, v, room, cuts) ==
    IF s.done \/ (s.buffer = <<>> /\ s.src = v.size) THEN [s EXCEPT !.ended = TRUE]
    ELSE IF s.buffer # <<>> THEN Hand(s, s.buffer, room)
    ELSE ReadMore(s, v, room, cuts)

(* io.CopyN of n pieces from the reader, or of all there is; one Read of    *)
(* it, and the reader after each number of them.  Every Read but the last   *)
(* takes a piece from the connection or hands one out.                      *)
CopyOn(s, v, n, cuts) ==
    IF s.ended \/ Len(s.out) = n THEN s ELSE Read(s, v, n - Len(s.out), cuts)

Copying(s0, v, n, cuts) ==
    LET step[i \in Nat] ==
            IF i = 0 THEN [s0 EXCEPT !.out = <<>>] ELSE CopyOn(step[i - 1], v, n, cuts)
    IN step

CopyN(s0, v, n, cuts) == Copying(s0, v, n, cuts)[2 * v.size + 2]

=============================================================================
