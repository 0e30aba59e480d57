---------------------------- MODULE StreamReader ----------------------------
(***************************************************************************)
(* storage.StreamReader (internal/storage/stream.go): a goroutine reads a  *)
(* source ahead in chunks and sends them on the bounded channel "buffer";  *)
(* Read receives them, Close stops the goroutine.                          *)
(*                                                                         *)
(* The source holds the bytes 1 .. Total; a chunk is a run of consecutive  *)
(* ones.  "delivered", "result", "split" and "broke" are history: what     *)
(* Read has copied to the client so far, what the last Read returned,      *)
(* whether a Read has ended inside a chunk, and whether the source has     *)
(* broken off with io.ErrUnexpectedEOF, as a cut HTTP body does.           *)
(***************************************************************************)
EXTENDS Integers, Sequences

CONSTANTS
    Total,         \* length of the source
    ChunkSize,
    PrefetchSize,  \* capacity of buffer
    ReadLens       \* lengths of the slices given to Read

ASSUME SizeAssumption ==
    /\ Total \in Nat
    /\ ChunkSize \in Nat \ {0}
    /\ PrefetchSize \in Nat \ {0}
    /\ ReadLens \subseteq Nat \ {0}

VARIABLES
    pos,        \* bytes taken from the source
    pf,         \* where the prefetch goroutine is
    chunk,      \* the chunk it has read
    last,       \* ReadFull reported the end of the source with it
    buffer,     \* the channel; it is closed when pf = "exited"
    err,        \* sr.err: "none", "ctx" or "io"
    done,       \* the done channel is closed
    ctxDone,    \* the context is done
    recycled,   \* a *[]byte lies in bufferPool
    rd,         \* where Read is
    want,       \* len(p) - totalRead
    got,        \* totalRead
    remainder,  \* what Read is about to put back
    closeCall,  \* Close: "no", "waiting" or "returned"
    crashed,    \* an unrecovered panic
    delivered, result, split, broke

reader == <<rd, want, got, remainder, delivered, result, split, broke>>
readerVars == <<pos, pf, chunk, last, buffer, err, done, ctxDone, recycled, reader,
               closeCall, crashed>>

NoChunk == [off |-> 0, len |-> 0]

ReaderInit ==
    /\ pos = 0 /\ pf = "loop" /\ chunk = NoChunk /\ last = FALSE
    /\ buffer = <<>> /\ err = "none"
    /\ done = FALSE /\ ctxDone = FALSE /\ recycled = FALSE
    /\ rd = "idle" /\ want = 0 /\ got = 0 /\ remainder = NoChunk
    /\ closeCall = "no" /\ crashed = FALSE
    /\ delivered = <<>> /\ result = "none" /\ split = FALSE /\ broke = FALSE

Lesser(a, b) == IF a < b THEN a ELSE b

---------------------------------------------------------------------------
(* prefetch.  The select at the head of the loop goes on to bufferPool.Get  *)
(* only if neither the context nor done is ready.                           *)

Stop(e) == pf' = "exiting" /\ err' = e

PrefetchStops ==
    /\ pf = "loop"
    /\ \/ ctxDone /\ Stop("ctx")
       \/ done /\ Stop(err)
    /\ UNCHANGED <<pos, chunk, last, buffer, done, ctxDone, recycled, reader,
                   closeCall, crashed>>

(* bufferPool.Get: a new []byte, or what was put there.  The code puts      *)
(* *[]byte and asserts []byte: a recycled buffer panics in this goroutine,  *)
(* and that ends the program.                                               *)
PrefetchGetBuffer ==
    /\ pf = "loop"
    /\ ~ctxDone /\ ~done
    /\ \/ pf' = "read" /\ UNCHANGED crashed
       \/ recycled /\ crashed' = TRUE /\ UNCHANGED pf
    /\ UNCHANGED <<pos, chunk, last, buffer, err, done, ctxDone, recycled, reader,
                   closeCall>>

(* io.ReadFull: a whole chunk, the rest of the source, or nothing.          *)
PrefetchRead ==
    /\ pf = "read"
    /\ LET n == Lesser(ChunkSize, Total - pos) IN
       /\ pos' = pos + n
       /\ chunk' = [off |-> pos, len |-> n]
       /\ last' = (n < ChunkSize)
       /\ \/ n > 0 /\ pf' = "send" /\ UNCHANGED recycled
          \/ n = 0 /\ pf' = "exiting" /\ recycled' = TRUE
    /\ UNCHANGED <<buffer, err, done, ctxDone, reader, closeCall, crashed>>

(* The source breaks off with io.ErrUnexpectedEOF.  io.ReadFull returns the *)
(* same error when the source ends inside a chunk, and the goroutine cannot *)
(* tell the two apart: what has been read is sent, and no error is stored.  *)
PrefetchBreaksOff ==
    /\ pf = "read"
    /\ \E n \in 0 .. Lesser(ChunkSize - 1, Total - pos) :
       /\ pos' = pos + n
       /\ chunk' = [off |-> pos, len |-> n]
       /\ \/ n > 0 /\ pf' = "send" /\ UNCHANGED recycled
          \/ n = 0 /\ pf' = "exiting" /\ recycled' = TRUE
    /\ last' = TRUE
    /\ broke' = TRUE
    /\ UNCHANGED <<buffer, err, done, ctxDone, rd, want, got, remainder, delivered, result,
                   split, closeCall, crashed>>

(* Mutant of PrefetchReadFails: The error of the source is not kept for     *)
(* Read.                                                                    *)
PrefetchReadErrorLost ==
    /\ pf = "read"
    /\ Stop(err)
    /\ recycled' = TRUE
    /\ UNCHANGED <<pos, chunk, last, buffer, done, ctxDone, reader, closeCall, crashed>>

(* Any other error of the source is stored, and what was read is dropped.   *)
PrefetchReadFails ==
    /\ pf = "read"
    /\ Stop("io")
    /\ recycled' = TRUE
    /\ UNCHANGED <<pos, chunk, last, buffer, done, ctxDone, reader, closeCall, crashed>>

(* Mutant of PrefetchSend: The send has a default case that drops the       *)
(* chunk.                                                                   *)
PrefetchSendDrops ==
    /\ pf = "send"
    /\ buffer' = IF Len(buffer) < PrefetchSize THEN Append(buffer, chunk) ELSE buffer
    /\ pf' = IF last THEN "exiting" ELSE "loop"
    /\ UNCHANGED <<pos, chunk, last, err, done, ctxDone, recycled, reader, closeCall, crashed>>

PrefetchSend ==
    /\ pf = "send"
    /\ Len(buffer) < PrefetchSize
    /\ buffer' = Append(buffer, chunk)
    /\ pf' = IF last THEN "exiting" ELSE "loop"
    /\ UNCHANGED <<pos, chunk, last, err, done, ctxDone, recycled, reader, closeCall, crashed>>

(* Mutant of PrefetchGivesUp: The send does not watch the done channel. *)
PrefetchIgnoresDone ==
    /\ pf = "send"
    /\ ctxDone /\ Stop("ctx")
    /\ recycled' = TRUE
    /\ UNCHANGED <<pos, chunk, last, buffer, done, ctxDone, reader, closeCall, crashed>>

PrefetchGivesUp ==
    /\ pf = "send"
    /\ \/ ctxDone /\ Stop("ctx")
       \/ done /\ Stop(err)
    /\ recycled' = TRUE
    /\ UNCHANGED <<pos, chunk, last, buffer, done, ctxDone, reader, closeCall, crashed>>

(* Mutant of PrefetchExits: The goroutine returns without closing the       *)
(* channel.                                                                 *)
PrefetchLeavesChannelOpen ==
    /\ pf = "exiting"
    /\ pf' = "gone"
    /\ UNCHANGED <<pos, chunk, last, buffer, err, done, ctxDone, recycled, reader,
                   closeCall, crashed>>

(* The deferred reader.Close, close(buffer) and wg.Done. *)
PrefetchExits ==
    /\ pf = "exiting"
    /\ pf' = "exited"
    /\ UNCHANGED <<pos, chunk, last, buffer, err, done, ctxDone, recycled, reader,
                   closeCall, crashed>>

---------------------------------------------------------------------------
(* Read(p): the stored error first, then chunks until p is full.            *)

ReadCall ==
    /\ rd = "idle"
    /\ \/ err # "none" /\ result' = "error" /\ UNCHANGED <<rd, want, got>>
       \/ /\ err = "none"
          /\ rd' = "reading" /\ want' \in ReadLens /\ got' = 0 /\ result' = "none"
    /\ UNCHANGED <<pos, pf, chunk, last, buffer, err, done, ctxDone, recycled,
                   remainder, delivered, split, broke, closeCall, crashed>>

Returns(res) == rd' = "idle" /\ want' = 0 /\ got' = 0 /\ result' = res

(* A chunk is received and copied.  If it is longer than what is left of p, *)
(* its rest is to be put back, and p is full.                               *)
ReadReceive ==
    /\ rd = "reading"
    /\ buffer # <<>>
    /\ buffer' = Tail(buffer)
    /\ LET c == Head(buffer)
           n == Lesser(want, c.len) IN
       /\ delivered' = delivered \o [i \in 1 .. n |-> c.off + i]
       /\ split' = (split \/ n < c.len)
       /\ \/ /\ n < c.len
             /\ rd' = "putback"
             /\ remainder' = [off |-> c.off + n, len |-> c.len - n]
             /\ want' = want - n /\ got' = got + n
             /\ UNCHANGED <<recycled, result>>
          \/ /\ n = c.len /\ n < want
             /\ want' = want - n /\ got' = got + n
             /\ recycled' = TRUE
             /\ UNCHANGED <<rd, remainder, result>>
          \/ /\ n = c.len /\ n = want
             /\ Returns("data")
             /\ recycled' = TRUE
             /\ UNCHANGED remainder
    /\ UNCHANGED <<pos, pf, chunk, last, err, done, ctxDone, broke, closeCall, crashed>>

(* The remainder goes to the END of the channel, or is dropped if that is   *)
(* full; a send on the closed channel panics.                               *)
ReadPutBack ==
    /\ rd = "putback"
    /\ remainder' = NoChunk
    /\ recycled' = TRUE
    /\ \/ pf = "exited" /\ crashed' = TRUE /\ UNCHANGED <<buffer, rd, want, got, result>>
       \/ /\ pf # "exited"
          /\ buffer' = IF Len(buffer) < PrefetchSize THEN Append(buffer, remainder) ELSE buffer
          /\ Returns("data")
          /\ UNCHANGED crashed
    /\ UNCHANGED <<pos, pf, chunk, last, err, done, ctxDone, delivered, split,
                   broke, closeCall>>

(* The channel is closed and empty. *)
ReadEnds ==
    /\ rd = "reading"
    /\ buffer = <<>> /\ pf = "exited"
    /\ \/ err # "none" /\ Returns("error")
       \/ err = "none" /\ got > 0 /\ Returns("data")
       \/ err = "none" /\ got = 0 /\ Returns("eof")
    /\ UNCHANGED <<pos, pf, chunk, last, buffer, err, done, ctxDone, recycled,
                   remainder, delivered, split, broke, closeCall, crashed>>

ReadCancelled ==
    /\ rd = "reading"
    /\ ctxDone
    /\ Returns("error")
    /\ UNCHANGED <<pos, pf, chunk, last, buffer, err, done, ctxDone, recycled,
                   remainder, delivered, split, broke, closeCall, crashed>>

---------------------------------------------------------------------------
(* Close: close(done), wg.Wait. *)

CloseReader ==
    /\ closeCall = "no"
    /\ done' = TRUE
    /\ closeCall' = "waiting"
    /\ UNCHANGED <<pos, pf, chunk, last, buffer, err, ctxDone, recycled, reader, crashed>>

CloseReaderReturns ==
    /\ closeCall = "waiting"
    /\ pf = "exited"
    /\ closeCall' = "returned"
    /\ UNCHANGED <<pos, pf, chunk, last, buffer, err, done, ctxDone, recycled, reader, crashed>>

CancelReader ==
    /\ ~ctxDone
    /\ ctxDone' = TRUE
    /\ UNCHANGED <<pos, pf, chunk, last, buffer, err, done, recycled, reader, closeCall, crashed>>

Prefetch == ~crashed /\ \/ PrefetchStops \/ PrefetchGetBuffer \/ PrefetchRead
                        \/ PrefetchBreaksOff \/ PrefetchReadFails \/ PrefetchSend
                        \/ PrefetchGivesUp \/ PrefetchExits

(* What Read does once it has been called. *)
Reading == ~crashed /\ (ReadReceive \/ ReadPutBack \/ ReadEnds \/ ReadCancelled)

ReaderNext == \/ Prefetch \/ Reading
              \/ ~crashed /\ (ReadCall \/ CloseReader \/ CloseReaderReturns \/ CancelReader)
              \/ crashed /\ UNCHANGED readerVars

ReaderSpec == ReaderInit /\ [][ReaderNext]_readerVars

(* The Go scheduler runs every goroutine that can go on, and the source     *)
(* answers; nobody has to call Read or Close.                               *)
ReaderFairness == /\ WF_readerVars(Prefetch) /\ WF_readerVars(Reading)
                  /\ WF_readerVars(~crashed /\ CloseReaderReturns)

FairReaderSpec == ReaderSpec /\ ReaderFairness

---------------------------------------------------------------------------
(* Properties. *)

(* However prefetch, Read, Close and cancellation interleave, the client   *)
(* receives no byte twice, and until a Read ends inside a chunk it receives *)
(* the source's bytes in order with none missing.  After that the rest of   *)
(* the chunk is queued behind those read ahead, or dropped.                 *)
DeliveredInOrder ==
    /\ \A i, j \in 1 .. Len(delivered) : i # j => delivered[i] # delivered[j]
    /\ ~split => \A i \in 1 .. Len(delivered) : delivered[i] = i

(* io.EOF means the end: all of the source has been delivered, unless Close *)
(* was called, a Read ended inside a chunk, or the source broke off with    *)
(* io.ErrUnexpectedEOF, which is taken for its end; no other error of the   *)
(* source, and none of the context, ever looks like it.                     *)
EOFIsTheEnd ==
    result = "eof" => err = "none" /\ (done \/ split \/ broke \/ Len(delivered) = Total)

(* A Read that was called returns: the channel is fed or gets closed.       *)
(* Close never waits for ever, though the goroutine it waits for may be     *)
(* blocked on a full channel that nobody reads.                             *)
ReadCallsReturn ==
    /\ (rd # "idle") ~> (rd = "idle" \/ crashed)
    /\ (closeCall = "waiting") ~> (closeCall = "returned" \/ crashed)

=============================================================================
