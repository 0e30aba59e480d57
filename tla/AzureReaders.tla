---------------------------- MODULE AzureReaders ----------------------------
(***************************************************************************)
(* The buffering readers of internal/storage/azure.go, through which the   *)
(* body of an Azure download is read and that of an upload is sent.  What  *)
(* a Read returns depends on its size: large ones go past the buffer, and  *)
(* azureHighPerfReader has two sizes of buffers.                           *)
(*                                                                         *)
(* A reader belongs to one request, so all its Reads are one calculation:  *)
(* After(kind, size, n, consumer, chunk) is the reader after the consumer  *)
(* has read a body of n bytes, which the object it belongs to says to be   *)
(* size bytes long, from a connection that delivers at most chunk bytes at *)
(* a time.  Byte i of the body is i; a buffer that was never written to    *)
(* holds Zero.                                                             *)
(***************************************************************************)
EXTENDS Integers, Sequences

CONSTANTS
    HighSmall,    \* azureHighPerfReader: the small buffer, and the least medium Read,
    HighMedium,   \* the medium buffer,
    HighLarge,    \* and the least Read that goes past them
    FastLarge,    \* azureFastReader: the buffer, and the least Read past it
    UploadLarge,  \* azureFastUploadReader: the same
    CopySize,     \* the buffer of io.Copy and io.CopyN
    BlockSize     \* the block UploadStreamToBlockBlob fills with one ReadFull

ASSUME ReaderAssumption ==
    /\ {HighSmall, HighMedium, HighLarge, FastLarge, UploadLarge, CopySize, BlockSize}
           \subseteq Nat \ {0}
    /\ HighSmall < HighMedium /\ HighMedium < HighLarge
    /\ CopySize < HighSmall /\ CopySize < FastLarge /\ BlockSize < UploadLarge

Zero == 0

Least(a, b) == IF a < b THEN a ELSE b

(* cap, data, pos and n are the reader's buf, pos and n; src counts what it *)
(* took from the connection, out is what the consumer has, room what the    *)
(* consumer has allocated (io.ReadAll).                                     *)
Fresh == [src |-> 0, cap |-> 0, data |-> <<>>, pos |-> 0, n |-> 0,
          out |-> <<>>, room |-> 1, ended |-> FALSE, panicked |-> FALSE]

(* The size of a Read that goes past the buffer. *)
Bypass(kind) == CASE kind = "high" -> HighLarge
                  [] kind = "fast" -> FastLarge
                  [] kind = "upload" -> UploadLarge
                  [] kind = "plain" -> 0

(* The buffer a Read of len bytes works with: azureHighPerfReader replaces  *)
(* a buffer of the wrong size, the others keep theirs.                      *)
BufferFor(kind, cap, len) ==
    IF kind # "high" THEN Bypass(kind)
    ELSE IF len < HighSmall THEN HighSmall
    ELSE IF cap < HighMedium THEN HighMedium ELSE cap

(* The next bytes of the connection, at most max of them. *)
Arriving(s, total, max, chunk) ==
    [i \in 1 .. Least(Least(max, chunk), total - s.src) |-> s.src + i]

ReadPast(s, total, len, chunk) ==
    LET got == Arriving(s, total, len, chunk) IN
    [s EXCEPT !.src = @ + Len(got), !.out = @ \o got, !.ended = got = <<>>]

(* copy(p, r.buf[r.pos:r.n]), which panics if the buffer has become smaller *)
(* than n.                                                                  *)
CopyOut(s, len) ==
    LET k == Least(len, s.n - s.pos) IN
    IF s.n > s.cap THEN [s EXCEPT !.panicked = TRUE]
    ELSE [s EXCEPT !.out = @ \o SubSeq(s.data, s.pos + 1, s.pos + k), !.pos = @ + k]

Refill(s, total, chunk) ==
    LET got == Arriving(s, total, s.cap, chunk) IN
    IF got = <<>> THEN [s EXCEPT !.n = 0, !.ended = TRUE]
    ELSE [s EXCEPT !.src = @ + Len(got), !.data = got, !.n = Len(got), !.pos = 0]

(* A replaced buffer is empty, but pos and n stay. *)
WithBuffer(s, cap) ==
    IF cap = s.cap THEN s
    ELSE [s EXCEPT !.cap = cap, !.data = [i \in 1 .. s.n |-> Zero]]

(* Mutant of ReadBuffered: the buffer is refilled on every Read. *)
ReadBufferedAfresh(s, kind, total, len, chunk) ==
    LET b == WithBuffer(s, BufferFor(kind, s.cap, len))
        f == Refill(b, total, chunk) IN
    IF f.ended THEN f ELSE CopyOut(f, len)

ReadBuffered(s, kind, total, len, chunk) ==
    LET b == WithBuffer(s, BufferFor(kind, s.cap, len))
        f == IF b.pos >= b.n THEN Refill(b, total, chunk) ELSE b IN
    IF f.ended THEN f ELSE CopyOut(f, len)

(* Read of azureHighPerfReader, azureFastReader and azureFastUploadReader;  *)
(* "plain" is the SDK's own reader.                                         *)
Read(s, kind, total, len, chunk) ==
    IF len >= Bypass(kind) THEN ReadPast(s, total, len, chunk)
    ELSE ReadBuffered(s, kind, total, len, chunk)

(* Who reads.  The handler copies with one small buffer ("copy"); the       *)
(* object cache fills a slice of the object's Size, whatever the body's     *)
(* length ("full"); an upload fills block after block ("blocks"); the       *)
(* encrypted backend calls io.ReadAll, which reads into what it has         *)
(* allocated and doubles it when it is full ("all").                        *)
Room(s) == IF Len(s.out) = s.room THEN 2 * s.room ELSE s.room

Wanted(s, consumer, size) ==
    CASE consumer = "copy" -> CopySize
      [] consumer = "full" -> size - Len(s.out)
      [] consumer = "blocks" -> BlockSize - (Len(s.out) % BlockSize)
      [] consumer = "all" -> Room(s) - Len(s.out)

Finished(s, consumer, size) ==
    s.ended \/ s.panicked \/ (consumer = "full" /\ Len(s.out) >= size)

ReadOn(s, kind, size, total, consumer, chunk) ==
    IF Finished(s, consumer, size) THEN s
    ELSE Read([s EXCEPT !.room = Room(s)], kind, total, Wanted(s, consumer, size), chunk)

(* The reader after each number of Reads; every Read but the last brings a  *)
(* byte at least.                                                           *)
Reads(kind, size, total, consumer, chunk) ==
    LET step[i \in Nat] ==
            IF i = 0 THEN Fresh ELSE ReadOn(step[i - 1], kind, size, total, consumer, chunk)
    IN step

After(kind, size, total, consumer, chunk) ==
    Reads(kind, size, total, consumer, chunk)[2 * total + 2]

(* How many bytes the consumer has, and whether they are the first of the   *)
(* body, one after the other.                                               *)
Delivered(kind, size, total, consumer, chunk) ==
    LET s == After(kind, size, total, consumer, chunk) IN
    [bytes |-> Len(s.out),
     ordered |-> ~s.panicked /\ s.out = [i \in 1 .. Len(s.out) |-> i]]

=============================================================================
