---------------------------- MODULE StreamProofs ----------------------------
(***************************************************************************)
(* Proofs about the streams of bytes: the two halves of storage/stream.go, *)
(* and the bodies of object requests (pkg/s3/handler.go) with the reader   *)
(* that decodes them (chunkedDecodingReader, storage/s3.go).               *)
(*                                                                         *)
(* ParallelWriter, for any number of callers and workers, any lengths and  *)
(* any capacity of its channels.  The bounded errChan loses errors; the    *)
(* invariant says that it never loses the last one (ErrorIsKept).  The     *)
(* bytes are followed from the offset's reservation to writeFunc (Below,   *)
(* Conserved), and Quiet says that a closing writer has nothing under way  *)
(* that Close could overlook.                                              *)
(*                                                                         *)
(* StreamReader, for any source, chunk size, capacity of the channel and   *)
(* lengths of reads.  Each byte taken from the source is in one place at   *)
(* most (OnePlace); while no Read has ended inside a chunk, what is        *)
(* delivered, the channel and the goroutine's chunk follow on each other   *)
(* (Contiguous); AtEnd says why the goroutine has ended.                   *)
(*                                                                         *)
(* ObjectRequests, for any clients, bodies, cuts, headers and buffers.     *)
(* What the decoding reader has handed out after i Reads is said by        *)
(* Decoding, for a whole body, and by Ranging, for a range of a plain one; *)
(* both are kept by a Read, and Induction takes them to the end of a copy. *)
(* RequestsIInv then follows a body through its buffer: a buffer has one   *)
(* owner (BuffersOwned) and holds its owner's bytes (BuffersFilled), and a *)
(* range request that is not marked as changed still has the object its    *)
(* HEAD saw (ChangesNoted).                                                *)
(***************************************************************************)
EXTENDS ParallelWriter, StreamReader, ObjectRequests,
        FiniteSetTheorems, SequenceTheorems, WellFoundedInduction, TLAPS

Queued == {queue[i] : i \in 1 .. Len(queue)}
Jobs == {job[w] : w \in {w \in Worker : job[w] # None}}
Mine == {mine[c] : c \in {c \in Caller : mine[c] # None}}

(* A failed call of writeFunc has left an error somewhere it will be seen.  *)
ErrorIsKept == failed # {} => errs > 0 \/ reported \/ closing = "error"

(* What is no longer going on once Close was called, a worker has exited or *)
(* Close has returned.                                                      *)
Quiet ==
    /\ \A c \in Caller : mine[c] # None => pc[c] \in {"reserved", "sending"}
    /\ \A c \in Caller : pc[c] \in {"reserved", "sending"} => mine[c] # None
    /\ \A c \in Caller : closing # "no" => pc[c] \in {"idle", "panicked"}
    /\ exited # {} => closing # "no" /\ queue = <<>>
    /\ \A w \in Worker : w \in exited => job[w] = None
    /\ closing \in {"ok", "error"} => exited = Worker
    /\ closing = "ok" => errs = 0

(* Ranges handed out lie below the offset and do not overlap.               *)
Below == \A q \in Accepted : q.off + q.len <= offset

(* Every reserved byte is still somewhere, unless an error was reported.    *)
Conserved == reported \/ \A b \in Nat : b < offset => \E q \in Accepted : Covers(q, b)

IInv == TypeOK /\ ErrorIsKept /\ Quiet /\ Below /\ RangesDisjoint /\ Conserved

---------------------------------------------------------------------------
(* Where the ranges are. *)

(* A range that Write accepted is written, failed, queued, with a worker or *)
(* still with its caller.                                                   *)
LEMMA AcceptedParts == Accepted = written \cup failed \cup Queued \cup Jobs \cup Mine
BY DEF Accepted, Queued, Jobs, Mine

(* Sending on, and receiving from, writeChan. *)
LEMMA AppendElements ==
    ASSUME NEW s \in Seq(WriteRequest), NEW e \in WriteRequest
    PROVE  /\ Append(s, e) \in Seq(WriteRequest)
           /\ {Append(s, e)[i] : i \in 1 .. Len(Append(s, e))} =
                 {s[i] : i \in 1 .. Len(s)} \cup {e}
<1>1. /\ Append(s, e) \in Seq(WriteRequest) /\ Len(Append(s, e)) = Len(s) + 1
      /\ \A i \in 1 .. Len(s) : Append(s, e)[i] = s[i]
      /\ Append(s, e)[Len(s) + 1] = e
  OBVIOUS
<1>2. Len(s) \in Nat /\ Len(s) + 1 \in 1 .. Len(s) + 1
  OBVIOUS
<1>3. \A i \in 1 .. Len(s) + 1 : i \in 1 .. Len(s) \/ i = Len(s) + 1
  BY <1>2
<1>4. \A i \in 1 .. Len(s) : i \in 1 .. Len(s) + 1
  BY <1>2
<1> QED BY <1>1, <1>2, <1>3, <1>4

(* Receiving from writeChan takes one range out of it and keeps the others. *)
LEMMA TailElements ==
    ASSUME NEW s \in Seq(WriteRequest), s # <<>>
    PROVE  /\ Tail(s) \in Seq(WriteRequest) /\ Head(s) \in WriteRequest
           /\ {s[i] : i \in 1 .. Len(s)} =
                 {Tail(s)[i] : i \in 1 .. Len(Tail(s))} \cup {Head(s)}
<1>1. /\ Tail(s) \in Seq(WriteRequest) /\ Len(Tail(s)) = Len(s) - 1 /\ Len(s) \in Nat \ {0}
      /\ Head(s) = s[1] /\ \A i \in 1 .. Len(s) - 1 : Tail(s)[i] = s[i + 1]
  OBVIOUS
<1>2. \A i \in 1 .. Len(s) : i = 1 \/ (i - 1 \in 1 .. Len(s) - 1 /\ (i - 1) + 1 = i)
  BY <1>1
<1>3. \A i \in 1 .. Len(s) - 1 : i + 1 \in 1 .. Len(s)
  BY <1>1
<1>4. 1 \in 1 .. Len(s)
  BY <1>1
<1>5. s[1] \in WriteRequest
  BY <1>4
<1> DEFINE T == {Tail(s)[i] : i \in 1 .. Len(Tail(s))}
           S == {s[i] : i \in 1 .. Len(s)}
<1>6. ASSUME NEW i \in 1 .. Len(s) PROVE s[i] \in T \cup {Head(s)}
  <2>1. CASE i = 1
    BY <1>1, <2>1
  <2>2. CASE i - 1 \in 1 .. Len(s) - 1 /\ (i - 1) + 1 = i
    <3>1. Tail(s)[i - 1] = s[i]
      BY <1>1, <2>2
    <3> QED BY <1>1, <2>2, <3>1
  <2> QED BY <1>2, <2>1, <2>2
<1>7. ASSUME NEW i \in 1 .. Len(Tail(s)) PROVE Tail(s)[i] \in S
  BY <1>1, <1>3
<1>8. S \subseteq T \cup {Head(s)}
  BY <1>6
<1>9. T \cup {Head(s)} \subseteq S
  BY <1>1, <1>4, <1>7
<1> QED BY <1>1, <1>5, <1>8, <1>9

(* Ranges that only change place, or disappear when an error is reported.   *)
LEMMA RangesStep ==
    ASSUME IInv, UNCHANGED offset, Accepted' \subseteq Accepted,
           reported' = TRUE \/ (Accepted' = Accepted /\ reported' = reported)
    PROVE  Below' /\ RangesDisjoint' /\ Conserved'
<1>1. Below'
  BY DEF IInv, Below
<1>2. RangesDisjoint'
  BY DEF IInv, RangesDisjoint, Disjoint
<1>3. Conserved'
  BY DEF IInv, Conserved, Covers
<1> QED BY <1>1, <1>2, <1>3

---------------------------------------------------------------------------
(* The actions of Write. *)

(* Steps in which no range moves at all. *)
LEMMA SameRanges ==
    ASSUME IInv, UNCHANGED <<offset, queue, mine, job, written, failed>>,
           reported' = TRUE \/ reported' = reported
    PROVE  Below' /\ RangesDisjoint' /\ Conserved'
<1>1. Accepted' = Accepted
  BY DEF Accepted
<1> QED BY <1>1, RangesStep

(* A Write that finds an error in errChan, or a cancelled context, takes no *)
(* range.                                                                   *)
LEMMA WriteRefusedStep == ASSUME IInv, NEW c \in Caller, WriteRefused(c) PROVE IInv'
<1>1. TypeOK'
  BY ParallelismAssumption DEF IInv, TypeOK, WriteRefused
<1>2. ErrorIsKept' /\ Quiet'
  BY DEF IInv, TypeOK, ErrorIsKept, Quiet, WriteRefused
<1> QED BY <1>1, <1>2, SameRanges DEF IInv, WriteRefused

(* A Write that found no error has taken nothing yet.                       *)
LEMMA WriteCheckedStep == ASSUME IInv, NEW c \in Caller, WriteChecked(c) PROVE IInv'
<1>1. TypeOK'
  BY DEF IInv, TypeOK, WriteChecked
<1>2. ErrorIsKept' /\ Quiet'
  BY DEF IInv, TypeOK, ErrorIsKept, Quiet, WriteChecked
<1> QED BY <1>1, <1>2, SameRanges DEF IInv, WriteChecked

(* The new range starts at the offset, above all others. *)
LEMMA WriteReserveStep == ASSUME IInv, NEW c \in Caller, WriteReserve(c) PROVE IInv'
<1>1. PICK n \in Lens : /\ mine' = [mine EXCEPT ![c] = [off |-> offset, len |-> n]]
                        /\ offset' = offset + n
  BY DEF WriteReserve
<1> DEFINE x == [off |-> offset, len |-> n]
<1>2. n \in Nat /\ offset \in Nat /\ x \in WriteRequest /\ x # None /\ offset' \in Nat
      /\ x.off = offset /\ x.len = n
  BY <1>1, LensAssumption, NoneAssumption DEF IInv, TypeOK, WriteRequest
<1>3. TypeOK'
  BY <1>1, <1>2 DEF IInv, TypeOK, WriteReserve
<1>4. ErrorIsKept' /\ Quiet'
  BY <1>1, <1>2 DEF IInv, TypeOK, ErrorIsKept, Quiet, WriteReserve
<1>5. Accepted' = Accepted \cup {x}
  <2>1. mine[c] = None /\ mine \in [Caller -> WriteRequest \cup {None}]
    BY DEF IInv, TypeOK, Quiet, WriteReserve
  <2>2. Mine' = Mine \cup {x}
    BY <1>1, <1>2, <2>1 DEF Mine
  <2>3. UNCHANGED <<written, failed, Queued, Jobs>>
    BY DEF WriteReserve, Queued, Jobs
  <2>4. Accepted' = written' \cup failed' \cup Queued' \cup Jobs' \cup Mine'
    BY DEF Accepted, Queued, Jobs, Mine
  <2> QED BY <2>2, <2>3, <2>4, AcceptedParts
<1>6. \A q \in Accepted : q \in WriteRequest
  BY DEF IInv, TypeOK, Accepted
<1>7. \A q \in Accepted : q.off \in Nat /\ q.len \in Nat /\ q.off + q.len <= offset
  BY <1>6 DEF IInv, Below, WriteRequest
<1>8. Below'
  BY <1>1, <1>2, <1>5, <1>7 DEF Below
<1>9. RangesDisjoint'
  BY <1>2, <1>5, <1>7 DEF IInv, RangesDisjoint, Disjoint
<1>10. Conserved'
  <2> SUFFICES ASSUME ~reported', NEW b \in Nat, b < offset'
               PROVE  \E q \in Accepted' : Covers(q, b)
    BY DEF Conserved, Covers
  <2>1. CASE b < offset
    BY <1>5, <2>1 DEF IInv, Conserved, WriteReserve
  <2>2. CASE ~(b < offset)
    <3>1. Covers(x, b)
      BY <1>1, <1>2, <2>2 DEF Covers
    <3> QED BY <1>5, <3>1
  <2> QED BY <2>1, <2>2
<1> QED BY <1>3, <1>4, <1>8, <1>9, <1>10 DEF IInv

(* Taking the buffer does not touch the ranges.                             *)
LEMMA WriteGetBufferStep == ASSUME IInv, NEW c \in Caller, WriteGetBuffer(c) PROVE IInv'
<1>1. TypeOK'
  BY DEF IInv, TypeOK, WriteGetBuffer
<1>2. ErrorIsKept' /\ Quiet'
  BY DEF IInv, TypeOK, ErrorIsKept, Quiet, WriteGetBuffer
<1>3. CASE UNCHANGED <<mine, reported>>
  BY <1>1, <1>2, <1>3, SameRanges DEF IInv, WriteGetBuffer
<1>4. CASE mine' = [mine EXCEPT ![c] = None] /\ reported' = TRUE
  <2>1. Accepted' \subseteq Accepted
    BY <1>4 DEF IInv, TypeOK, Accepted, WriteGetBuffer
  <2> QED BY <1>1, <1>2, <1>4, <2>1, RangesStep DEF IInv, WriteGetBuffer
<1> QED BY <1>3, <1>4 DEF WriteGetBuffer

(* A range moves from its caller into writeChan.                            *)
LEMMA WriteSendStep == ASSUME IInv, NEW c \in Caller, WriteSend(c) PROVE IInv'
<1>1. /\ mine[c] \in WriteRequest /\ queue \in Seq(WriteRequest)
      /\ mine \in [Caller -> WriteRequest \cup {None}]
      /\ closing = "no" /\ exited = {}
  BY DEF IInv, TypeOK, Quiet, WriteSend
<1>2. queue' \in Seq(WriteRequest) /\ Queued' = Queued \cup {mine[c]}
  BY <1>1, AppendElements DEF WriteSend, Queued
<1>3. TypeOK'
  BY <1>2 DEF IInv, TypeOK, WriteSend
<1>4. ErrorIsKept' /\ Quiet'
  BY <1>1 DEF IInv, TypeOK, ErrorIsKept, Quiet, WriteSend
<1>5. Mine = Mine' \cup {mine[c]}
  BY <1>1, NoneAssumption DEF Mine, WriteSend
<1>6. UNCHANGED <<written, failed, Jobs>>
  BY DEF WriteSend, Jobs
<1>7. Accepted' = written' \cup failed' \cup Queued' \cup Jobs' \cup Mine'
  BY DEF Accepted, Queued, Jobs, Mine
<1>8. Accepted' = Accepted
  BY <1>2, <1>5, <1>6, <1>7, AcceptedParts
<1> QED BY <1>3, <1>4, <1>8, RangesStep DEF IInv, WriteSend

(* A cancelled Write loses its range, and says so.                          *)
LEMMA WriteGivesUpStep == ASSUME IInv, NEW c \in Caller, WriteGivesUp(c) PROVE IInv'
<1>1. TypeOK'
  BY ParallelismAssumption DEF IInv, TypeOK, WriteGivesUp
<1>2. ErrorIsKept' /\ Quiet'
  BY DEF IInv, TypeOK, ErrorIsKept, Quiet, WriteGivesUp
<1>3. Accepted' \subseteq Accepted
  BY DEF IInv, TypeOK, Accepted, WriteGivesUp
<1> QED BY <1>1, <1>2, <1>3, RangesStep DEF IInv, WriteGivesUp

---------------------------------------------------------------------------
(* The workers. *)

(* A range moves from writeChan to a worker.                                *)
LEMMA WorkerTakeStep == ASSUME IInv, NEW w \in Worker, WorkerTake(w) PROVE IInv'
<1>1. /\ queue \in Seq(WriteRequest) /\ queue # <<>> /\ job \in [Worker -> WriteRequest \cup {None}]
      /\ job[w] = None /\ exited = {}
  BY DEF IInv, TypeOK, Quiet, WorkerTake
<1>2. /\ queue' \in Seq(WriteRequest) /\ Head(queue) \in WriteRequest
      /\ Queued = Queued' \cup {Head(queue)}
  BY <1>1, TailElements DEF WorkerTake, Queued
<1>3. job' = [job EXCEPT ![w] = Head(queue)] /\ Head(queue) # None
  BY <1>2, NoneAssumption DEF WorkerTake
<1>4. TypeOK'
  BY <1>1, <1>2, <1>3 DEF IInv, TypeOK, WorkerTake
<1>5. ErrorIsKept' /\ Quiet'
  BY <1>1, <1>3 DEF IInv, TypeOK, ErrorIsKept, Quiet, WorkerTake
<1>6. Jobs' = Jobs \cup {Head(queue)}
  BY <1>1, <1>3 DEF Jobs
<1>7. UNCHANGED <<written, failed, Mine>>
  BY DEF WorkerTake, Mine
<1>8. Accepted' = written' \cup failed' \cup Queued' \cup Jobs' \cup Mine'
  BY DEF Accepted, Queued, Jobs, Mine
<1>9. Accepted' = Accepted
  BY <1>2, <1>6, <1>7, <1>8, AcceptedParts
<1> QED BY <1>4, <1>5, <1>9, RangesStep DEF IInv, WorkerTake

(* The call of writeFunc ends, one way or the other: the range goes from    *)
(* the worker to one of the two sets.                                       *)
LEMMA JobDone ==
    ASSUME IInv, NEW w \in Worker, job[w] # None, job' = [job EXCEPT ![w] = None],
           UNCHANGED <<queue, mine>>,
           \/ written' = written \cup {job[w]} /\ failed' = failed
           \/ failed' = failed \cup {job[w]} /\ written' = written
    PROVE  Accepted' = Accepted /\ job[w] \in WriteRequest
<1>1. job \in [Worker -> WriteRequest \cup {None}] /\ job[w] \in WriteRequest
  BY DEF IInv, TypeOK
<1>2. Jobs = Jobs' \cup {job[w]}
  BY <1>1 DEF Jobs
<1>3. UNCHANGED <<Queued, Mine>>
  BY DEF Queued, Mine
<1>4. Accepted' = written' \cup failed' \cup Queued' \cup Jobs' \cup Mine'
  BY DEF Accepted, Queued, Jobs, Mine
<1> QED BY <1>1, <1>2, <1>3, <1>4, AcceptedParts

(* writeFunc succeeds: the worker's range is written.                       *)
LEMMA WorkerWritesStep == ASSUME IInv, NEW w \in Worker, WorkerWrites(w) PROVE IInv'
<1>1. Accepted' = Accepted /\ job[w] \in WriteRequest
  BY JobDone DEF WorkerWrites
<1>2. TypeOK'
  BY <1>1 DEF IInv, TypeOK, WorkerWrites
<1>3. ErrorIsKept' /\ Quiet'
  BY DEF IInv, TypeOK, ErrorIsKept, Quiet, WorkerWrites
<1> QED BY <1>1, <1>2, <1>3, RangesStep DEF IInv, WorkerWrites

(* Whether its error is sent or dropped, errChan is not empty afterwards.   *)
LEMMA WorkerFailsStep == ASSUME IInv, NEW w \in Worker, WorkerFails(w) PROVE IInv'
<1>1. Accepted' = Accepted /\ job[w] \in WriteRequest
  BY JobDone DEF WorkerFails
<1>2. errs' \in 0 .. Parallelism /\ errs' > 0
  BY ParallelismAssumption DEF IInv, TypeOK, WorkerFails
<1>3. TypeOK'
  BY <1>1, <1>2 DEF IInv, TypeOK, WorkerFails
<1>4. ErrorIsKept'
  BY <1>2 DEF ErrorIsKept
<1>5. Quiet'
  BY DEF IInv, TypeOK, Quiet, WorkerFails
<1> QED BY <1>1, <1>3, <1>4, <1>5, RangesStep DEF IInv, WorkerFails

(* A worker leaves only when the closed writeChan is empty.                 *)
LEMMA WorkerExitsStep == ASSUME IInv, NEW w \in Worker, WorkerExits(w) PROVE IInv'
<1>1. TypeOK'
  BY DEF IInv, TypeOK, WorkerExits
<1>2. ErrorIsKept' /\ Quiet'
  BY DEF IInv, TypeOK, ErrorIsKept, Quiet, WorkerExits
<1> QED BY <1>1, <1>2, SameRanges DEF IInv, WorkerExits

---------------------------------------------------------------------------
(* Close, and the context. *)

(* Close closes writeChan while no Write is in progress.                    *)
LEMMA CloseStep == ASSUME IInv, Close PROVE IInv'
<1>1. TypeOK'
  BY DEF IInv, TypeOK, Close
<1>2. ErrorIsKept' /\ Quiet'
  BY DEF IInv, TypeOK, ErrorIsKept, Quiet, Close
<1> QED BY <1>1, <1>2, SameRanges DEF IInv, Close

(* Close returns once all workers are gone, with the error it finds in      *)
(* errChan.                                                                 *)
LEMMA CloseReturnsStep == ASSUME IInv, CloseReturns PROVE IInv'
<1>1. TypeOK'
  BY ParallelismAssumption DEF IInv, TypeOK, CloseReturns
<1>2. ErrorIsKept'
  BY DEF IInv, TypeOK, ErrorIsKept, CloseReturns
<1>3. Quiet'
  BY DEF IInv, TypeOK, Quiet, CloseReturns
<1> QED BY <1>1, <1>2, <1>3, SameRanges DEF IInv, CloseReturns

(* The context is cancelled.                                                *)
LEMMA CancelStep == ASSUME IInv, Cancel PROVE IInv'
<1>1. TypeOK'
  BY DEF IInv, TypeOK, Cancel
<1>2. ErrorIsKept' /\ Quiet'
  BY DEF IInv, ErrorIsKept, Quiet, Cancel
<1> QED BY <1>1, <1>2, SameRanges DEF IInv, Cancel

---------------------------------------------------------------------------
(* The invariant and what follows from it. *)

(* A new ParallelWriter satisfies the invariant.                            *)
LEMMA InitIInv == Init => IInv
<1> SUFFICES ASSUME Init PROVE IInv
  OBVIOUS
<1>1. TypeOK
  <2>1. offset \in Nat /\ errs \in 0 .. Parallelism
    BY ParallelismAssumption DEF Init
  <2>2. queue \in Seq(WriteRequest)
    BY DEF Init
  <2> QED BY <2>1, <2>2 DEF Init, TypeOK
<1>2. ErrorIsKept /\ Quiet
  BY WorkerAssumption DEF Init, ErrorIsKept, Quiet
<1>3. Accepted = {}
  BY DEF Init, Accepted
<1>4. Below /\ RangesDisjoint
  BY <1>3 DEF Below, RangesDisjoint
<1>5. Conserved
  BY DEF Init, Conserved
<1> QED BY <1>1, <1>2, <1>4, <1>5 DEF IInv

(* Every step preserves the invariant, one lemma per action.                *)
LEMMA NextIInv == IInv /\ [Next]_vars => IInv'
<1> SUFFICES ASSUME IInv, [Next]_vars PROVE IInv'
  OBVIOUS
<1>1. ASSUME NEW c \in Caller, Write(c) PROVE IInv'
  BY <1>1, WriteRefusedStep, WriteCheckedStep, WriteReserveStep, WriteGetBufferStep,
     WriteSendStep, WriteGivesUpStep DEF Write
<1>2. ASSUME NEW w \in Worker, Work(w) PROVE IInv'
  BY <1>2, WorkerTakeStep, WorkerWritesStep, WorkerFailsStep, WorkerExitsStep DEF Work
<1>3. CASE UNCHANGED vars
  <2>1. TypeOK' /\ ErrorIsKept' /\ Quiet'
    BY <1>3 DEF vars, IInv, TypeOK, ErrorIsKept, Quiet
  <2> QED BY <1>3, <2>1, SameRanges DEF vars, IInv
<1> QED BY <1>1, <1>2, <1>3, CloseStep, CloseReturnsStep, CancelStep DEF Next, Terminated

(* The inductive invariant. *)
THEOREM Invariance == Spec => []IInv
BY InitIInv, NextIInv, PTL DEF Spec

(* The channels, the counters and the requests stay within their types; in  *)
(* particular errChan is never over-filled.                                 *)
THEOREM TypeCorrect == Spec => []TypeOK
BY Invariance, PTL DEF IInv

(* However many workers fail at once and however small errChan is: when     *)
(* Close returns nil and no Write returned an error, no writeFunc failed.   *)
THEOREM NoErrorIsSwallowed == Spec => []NoSilentFailure
<1>1. IInv => NoSilentFailure
  BY DEF IInv, ErrorIsKept, Quiet, TypeOK, NoSilentFailure
<1> QED BY <1>1, Invariance, PTL

(* Concurrent Writes get ranges that do not overlap.                        *)
THEOREM RangesNeverOverlap == Spec => []RangesDisjoint
BY Invariance, PTL DEF IInv

(* When Close returns nil and no Write returned an error, every byte that   *)
(* Write accepted has been written.                                         *)
THEOREM NoByteIsMissing == Spec => []NothingMissing
<1>1. IInv => NothingMissing
  <2> SUFFICES ASSUME IInv, closing = "ok", ~reported, NEW b \in 0 .. offset - 1
               PROVE  \E q \in written : Covers(q, b)
    BY DEF NothingMissing
  <2>1. exited = Worker /\ exited # {} /\ queue = <<>> /\ Mine = {} /\ Jobs = {}
    BY WorkerAssumption DEF IInv, Quiet, TypeOK, Mine, Jobs
  <2>2. failed = {} /\ Queued = {}
    BY <2>1 DEF IInv, ErrorIsKept, Quiet, TypeOK, Queued
  <2>3. Accepted = written
    BY <2>1, <2>2, AcceptedParts
  <2>4. b \in Nat /\ b < offset
    BY DEF IInv, TypeOK
  <2> QED BY <2>3, <2>4 DEF IInv, Conserved
<1> QED BY <1>1, Invariance, PTL

---------------------------------------------------------------------------
(* StreamReader.  The names of its specification begin with Reader. *)

(* A run of the source's bytes. *)
Chunk == [off : Nat, len : Nat]

(* The type invariant of the reader. *)
ReaderTypeOK ==
    /\ pos \in Nat /\ pos <= Total
    /\ pf \in {"loop", "read", "send", "exiting", "exited"}
    /\ chunk \in Chunk /\ last \in BOOLEAN
    /\ buffer \in Seq(Chunk)
    /\ err \in {"none", "ctx", "io"} /\ done \in BOOLEAN
    /\ rd \in {"idle", "reading", "putback"}
    /\ want \in Nat /\ got \in Nat
    /\ remainder \in Chunk
    /\ delivered \in Seq(Nat) /\ split \in BOOLEAN /\ broke \in BOOLEAN

(* The bytes of a chunk are those after off, up to EndOf.                   *)
EndOf(c) == c.off + c.len
Apart(c, d) == c.len = 0 \/ d.len = 0 \/ EndOf(c) <= d.off \/ EndOf(d) <= c.off

Undelivered(c) ==
    \A i \in 1 .. Len(delivered) : delivered[i] <= c.off \/ delivered[i] > EndOf(c)

InFlight(c) ==
    EndOf(c) <= pos /\ Undelivered(c) /\ \A i \in 1 .. Len(buffer) : Apart(buffer[i], c)

(* Every byte is in one place at most: with the client, on the channel, in  *)
(* the rest Read puts back, or in the chunk to be sent.                     *)
DeliveredOnce ==
    /\ \A i, j \in 1 .. Len(delivered) : i # j => delivered[i] # delivered[j]
    /\ \A i \in 1 .. Len(delivered) : delivered[i] <= pos
BufferApart ==
    /\ \A i \in 1 .. Len(buffer) : EndOf(buffer[i]) <= pos /\ Undelivered(buffer[i])
    /\ \A i, j \in 1 .. Len(buffer) : i # j => Apart(buffer[i], buffer[j])
OnePlace ==
    /\ DeliveredOnce /\ BufferApart
    /\ InFlight(remainder)
    /\ pf = "send" => InFlight(chunk) /\ Apart(remainder, chunk)

(* The offset at which the i-th chunk of the channel has to begin.          *)
Start(i) == IF i = 1 THEN Len(delivered) ELSE EndOf(buffer[i - 1])

(* Until a Read ends inside a chunk the channel goes on where the client    *)
(* is, and the goroutine where the channel ends.                            *)
Contiguous ==
    ~split =>
        /\ rd # "putback"
        /\ \A i \in 1 .. Len(delivered) : delivered[i] = i
        /\ \A i \in 1 .. Len(buffer) : buffer[i].off = Start(i)
        /\ pf \in {"loop", "read"} => Start(Len(buffer) + 1) = pos
        /\ pf = "send" => Start(Len(buffer) + 1) = chunk.off
        /\ pf \in {"exiting", "exited"} /\ err = "none" /\ ~done =>
               Start(Len(buffer) + 1) = pos

(* The goroutine ends without an error, and not for Close, only at the end  *)
(* of the source or where it broke off; and Read returns io.EOF only after  *)
(* it has.                                                                  *)
AtEnd ==
    /\ pf = "send" => EndOf(chunk) = pos /\ (last => pos = Total \/ broke)
    /\ pf \in {"exiting", "exited"} => err # "none" \/ done \/ broke \/ pos = Total
    /\ rd # "putback" => remainder = NoChunk
    /\ result = "eof" => err = "none" /\ pf = "exited" /\ buffer = <<>> /\ rd = "idle"

ReaderIInv == ReaderTypeOK /\ OnePlace /\ Contiguous /\ AtEnd

(* The lesser of two lengths is one of them, and no more than the other. *)
LEMMA LesserIs ==
    ASSUME NEW a \in Nat, NEW b \in Nat
    PROVE  /\ Lesser(a, b) \in Nat /\ Lesser(a, b) <= a /\ Lesser(a, b) <= b
           /\ Lesser(a, b) = a \/ Lesser(a, b) = b
BY DEF Lesser

(* Steps that move no byte and leave the goroutine where the order is       *)
(* concerned.                                                               *)
LEMMA NothingMoves ==
    ASSUME ReaderIInv, pf' = pf, rd' = rd \/ (rd' # "putback" /\ rd # "putback"),
           UNCHANGED <<pos, chunk, last, buffer, err, remainder, delivered, split, broke>>,
           done' = done \/ done', ReaderTypeOK',
           result' = "eof" => err = "none" /\ pf = "exited" /\ buffer = <<>> /\ rd' = "idle"
    PROVE  ReaderIInv'
<1>1. OnePlace'
  BY DEF ReaderIInv, OnePlace, DeliveredOnce, BufferApart, InFlight, Undelivered, Apart, EndOf
<1>2. Contiguous'
  BY DEF ReaderIInv, Contiguous, Start, EndOf, ReaderTypeOK
<1>3. AtEnd'
  BY DEF ReaderIInv, AtEnd, EndOf, ReaderTypeOK
<1> QED BY <1>1, <1>2, <1>3 DEF ReaderIInv

(* The new reader satisfies the invariant: nothing has been read. *)
LEMMA InitReader == ReaderInit => ReaderIInv
<1> SUFFICES ASSUME ReaderInit PROVE ReaderIInv
  OBVIOUS
<1>0. NoChunk \in Chunk /\ NoChunk.off = 0 /\ NoChunk.len = 0
  BY DEF NoChunk, Chunk
<1>1. ReaderTypeOK
  <2>1. last \in BOOLEAN /\ done \in BOOLEAN /\ split \in BOOLEAN /\ broke \in BOOLEAN
    BY DEF ReaderInit
  <2>2. pos \in Nat /\ pos <= Total /\ want \in Nat /\ got \in Nat
    BY SizeAssumption DEF ReaderInit
  <2>3. buffer \in Seq(Chunk) /\ delivered \in Seq(Nat)
    BY DEF ReaderInit
  <2> QED BY <1>0, <2>1, <2>2, <2>3 DEF ReaderInit, ReaderTypeOK
<1>2. OnePlace
  BY <1>0 DEF ReaderInit, OnePlace, DeliveredOnce, BufferApart, InFlight, Undelivered, Apart, EndOf
<1>3. Contiguous
  BY <1>0 DEF ReaderInit, Contiguous, Start
<1>4. AtEnd
  BY DEF ReaderInit, AtEnd
<1> QED BY <1>1, <1>2, <1>3, <1>4 DEF ReaderIInv

(* The goroutine stops at the head of its loop: with an error, or for      *)
(* Close.                                                                   *)
LEMMA PrefetchStopsStep == ASSUME ReaderIInv, PrefetchStops PROVE ReaderIInv'
<1>1. ReaderTypeOK'
  BY DEF ReaderIInv, ReaderTypeOK, PrefetchStops, Stop, reader
<1>2. OnePlace'
  BY DEF ReaderIInv, PrefetchStops, Stop, reader, OnePlace, DeliveredOnce, BufferApart,
         InFlight, Undelivered, Apart, EndOf
<1>3. Contiguous'
  BY DEF ReaderIInv, PrefetchStops, Stop, reader, Contiguous, Start, EndOf
<1>4. AtEnd'
  BY DEF ReaderIInv, PrefetchStops, Stop, reader, AtEnd
<1> QED BY <1>1, <1>2, <1>3, <1>4 DEF ReaderIInv

(* Getting a buffer from the pool moves no byte. *)
LEMMA PrefetchGetBufferStep == ASSUME ReaderIInv, PrefetchGetBuffer PROVE ReaderIInv'
<1>1. ReaderTypeOK'
  BY DEF ReaderIInv, ReaderTypeOK, PrefetchGetBuffer, reader
<1>2. OnePlace'
  BY DEF ReaderIInv, PrefetchGetBuffer, reader, OnePlace, DeliveredOnce, BufferApart,
         InFlight, Undelivered, Apart, EndOf
<1>3. Contiguous'
  BY DEF ReaderIInv, PrefetchGetBuffer, reader, Contiguous, Start, EndOf
<1>4. AtEnd'
  BY DEF ReaderIInv, PrefetchGetBuffer, reader, AtEnd
<1> QED BY <1>1, <1>2, <1>3, <1>4 DEF ReaderIInv

(* A failing source leaves its error behind. *)
LEMMA PrefetchReadFailsStep == ASSUME ReaderIInv, PrefetchReadFails PROVE ReaderIInv'
<1>1. ReaderTypeOK'
  BY DEF ReaderIInv, ReaderTypeOK, PrefetchReadFails, Stop, reader
<1>2. OnePlace'
  BY DEF ReaderIInv, PrefetchReadFails, Stop, reader, OnePlace, DeliveredOnce, BufferApart,
         InFlight, Undelivered, Apart, EndOf
<1>3. Contiguous'
  BY DEF ReaderIInv, PrefetchReadFails, Stop, reader, Contiguous, Start, EndOf
<1>4. AtEnd'
  BY DEF ReaderIInv, PrefetchReadFails, Stop, reader, AtEnd
<1> QED BY <1>1, <1>2, <1>3, <1>4 DEF ReaderIInv

(* Giving up the send drops the chunk, with an error or after Close. *)
LEMMA PrefetchGivesUpStep == ASSUME ReaderIInv, PrefetchGivesUp PROVE ReaderIInv'
<1>1. ReaderTypeOK'
  BY DEF ReaderIInv, ReaderTypeOK, PrefetchGivesUp, Stop, reader
<1>2. OnePlace'
  BY DEF ReaderIInv, PrefetchGivesUp, Stop, reader, OnePlace, DeliveredOnce, BufferApart,
         InFlight, Undelivered, Apart, EndOf
<1>3. Contiguous'
  BY DEF ReaderIInv, PrefetchGivesUp, Stop, reader, Contiguous, Start, EndOf
<1>4. AtEnd'
  BY DEF ReaderIInv, PrefetchGivesUp, Stop, reader, AtEnd
<1> QED BY <1>1, <1>2, <1>3, <1>4 DEF ReaderIInv

(* The goroutine's end closes the channel and moves no byte. *)
LEMMA PrefetchExitsStep == ASSUME ReaderIInv, PrefetchExits PROVE ReaderIInv'
<1>1. ReaderTypeOK'
  BY DEF ReaderIInv, ReaderTypeOK, PrefetchExits, reader
<1>2. OnePlace'
  BY DEF ReaderIInv, PrefetchExits, reader, OnePlace, DeliveredOnce, BufferApart,
         InFlight, Undelivered, Apart, EndOf
<1>3. Contiguous'
  BY DEF ReaderIInv, PrefetchExits, reader, Contiguous, Start, EndOf
<1>4. AtEnd'
  BY DEF ReaderIInv, PrefetchExits, reader, AtEnd
<1> QED BY <1>1, <1>2, <1>3, <1>4 DEF ReaderIInv

(* io.ReadFull takes the bytes after pos, which are nowhere yet; it takes   *)
(* less than a chunk only where the source ends or breaks off.              *)
LEMMA PrefetchReadStep ==
    ASSUME ReaderIInv, PrefetchRead \/ PrefetchBreaksOff
    PROVE  ReaderIInv'
<1>1. /\ pos \in Nat /\ pos <= Total /\ Total \in Nat /\ ChunkSize \in Nat /\ ChunkSize > 0
      /\ Total - pos \in Nat /\ ChunkSize - 1 \in Nat /\ broke \in BOOLEAN
  BY SizeAssumption DEF ReaderIInv, ReaderTypeOK
<1>a. \E n \in Nat :
         /\ pf = "read" /\ pos' = pos + n /\ chunk' = [off |-> pos, len |-> n]
         /\ last' \in BOOLEAN /\ broke' \in BOOLEAN
         /\ n <= Total - pos
         /\ last' \/ n = 0 => n = Total - pos \/ broke'
         /\ broke => broke'
         /\ \/ n > 0 /\ pf' = "send"
            \/ n = 0 /\ pf' = "exiting"
         /\ UNCHANGED <<buffer, err, done, rd, want, got, remainder, delivered, result, split>>
  <2>1. CASE PrefetchRead
    <3> PICK n : n = Lesser(ChunkSize, Total - pos)
      OBVIOUS
    <3>1. n \in Nat /\ n <= ChunkSize /\ n <= Total - pos /\ (n = ChunkSize \/ n = Total - pos)
      BY <1>1, LesserIs
    <3>2. (n < ChunkSize) \in BOOLEAN /\ (n < ChunkSize \/ n = 0 => n = Total - pos)
      BY <1>1, <3>1
    <3> QED BY <1>1, <2>1, <3>1, <3>2 DEF PrefetchRead, reader
  <2>2. CASE PrefetchBreaksOff
    <3>1. PICK n \in 0 .. Lesser(ChunkSize - 1, Total - pos) :
            /\ pos' = pos + n /\ chunk' = [off |-> pos, len |-> n]
            /\ \/ n > 0 /\ pf' = "send"
               \/ n = 0 /\ pf' = "exiting"
      BY <2>2 DEF PrefetchBreaksOff
    <3>2. n \in Nat /\ n <= Total - pos
      BY <1>1, LesserIs
    <3> QED BY <2>2, <3>1, <3>2 DEF PrefetchBreaksOff
  <2> QED BY <2>1, <2>2
<1>0. PICK n \in Nat :
         /\ pf = "read" /\ pos' = pos + n /\ chunk' = [off |-> pos, len |-> n]
         /\ last' \in BOOLEAN /\ broke' \in BOOLEAN
         /\ n <= Total - pos
         /\ last' \/ n = 0 => n = Total - pos \/ broke'
         /\ broke => broke'
         /\ \/ n > 0 /\ pf' = "send"
            \/ n = 0 /\ pf' = "exiting"
         /\ UNCHANGED <<buffer, err, done, rd, want, got, remainder, delivered, result, split>>
  BY <1>a
<1>2. n \in Nat /\ pos + n <= Total /\ (last' \/ n = 0 => pos + n = Total \/ broke')
  BY <1>0, <1>1
<1>3. chunk' \in Chunk /\ chunk'.off = pos /\ chunk'.len = n /\ EndOf(chunk)' = pos + n
  BY <1>0, <1>1, <1>2 DEF Chunk, EndOf
<1>4. ReaderTypeOK'
  BY <1>0, <1>1, <1>2, <1>3 DEF ReaderIInv, ReaderTypeOK
<1>5. UNCHANGED <<buffer, delivered, remainder, split, rd, result>>
  BY <1>0
<1>6. /\ \A i \in 1 .. Len(buffer) : buffer[i] \in Chunk
      /\ \A i \in 1 .. Len(delivered) : delivered[i] \in Nat
      /\ remainder \in Chunk
  BY DEF ReaderIInv, ReaderTypeOK
<1>e. \A e \in Nat : e <= pos => e <= pos'
  BY <1>0, <1>1, <1>2
<1>f. /\ \A i \in 1 .. Len(buffer) : EndOf(buffer[i]) \in Nat
      /\ EndOf(remainder) \in Nat
  BY <1>6 DEF EndOf, Chunk
<1>7. OnePlace'
  <2>1. DeliveredOnce' /\ BufferApart'
    BY <1>5, <1>6, <1>e, <1>f DEF ReaderIInv, OnePlace, DeliveredOnce, BufferApart, Undelivered
  <2>2. InFlight(remainder)'
    BY <1>5, <1>6, <1>e, <1>f DEF ReaderIInv, OnePlace, InFlight, Undelivered
  <2>3. InFlight(chunk)' /\ Apart(remainder, chunk)'
    <3>1. Undelivered(chunk)'
      BY <1>1, <1>3, <1>5, <1>6 DEF ReaderIInv, OnePlace, DeliveredOnce, Undelivered
    <3>2. \A i \in 1 .. Len(buffer) : Apart(buffer[i], chunk')
      BY <1>1, <1>3, <1>6 DEF ReaderIInv, OnePlace, BufferApart, Apart
    <3>3. Apart(remainder, chunk)'
      BY <1>1, <1>3, <1>5, <1>6 DEF ReaderIInv, OnePlace, InFlight, Apart
    <3> QED BY <1>0, <1>1, <1>2, <1>3, <1>5, <3>1, <3>2, <3>3 DEF InFlight, Apart, EndOf
  <2> QED BY <2>1, <2>2, <2>3 DEF OnePlace
<1>8. Contiguous'
  BY <1>0, <1>1, <1>2, <1>3, <1>5 DEF ReaderIInv, Contiguous, Start, EndOf
<1>9. AtEnd'
  BY <1>0, <1>1, <1>2, <1>3, <1>5 DEF ReaderIInv, AtEnd
<1> QED BY <1>4, <1>7, <1>8, <1>9 DEF ReaderIInv

(* What a chunk more at the end makes of the channel. *)
LEMMA Appended ==
    ASSUME NEW s \in Seq(Chunk), NEW c \in Chunk
    PROVE  /\ Append(s, c) \in Seq(Chunk) /\ Len(Append(s, c)) = Len(s) + 1
           /\ \A i \in 1 .. Len(s) : Append(s, c)[i] = s[i]
           /\ Append(s, c)[Len(s) + 1] = c
           /\ \A i \in 1 .. Len(s) + 1 : i \in 1 .. Len(s) \/ i = Len(s) + 1
OBVIOUS

(* A chunk that is in flight can be put on the channel. *)
LEMMA BufferAppend ==
    ASSUME ReaderIInv, NEW c \in Chunk, InFlight(c), buffer' = Append(buffer, c),
           UNCHANGED <<pos, delivered>>
    PROVE  BufferApart'
<1>1. /\ buffer' \in Seq(Chunk) /\ Len(buffer') = Len(buffer) + 1
      /\ \A i \in 1 .. Len(buffer) : buffer'[i] = buffer[i]
      /\ buffer'[Len(buffer) + 1] = c
      /\ \A i \in 1 .. Len(buffer) + 1 : i \in 1 .. Len(buffer) \/ i = Len(buffer) + 1
  BY Appended DEF ReaderIInv, ReaderTypeOK
<1>2. ASSUME NEW i \in 1 .. Len(buffer') PROVE (EndOf(buffer'[i]) <= pos /\ Undelivered(buffer'[i]))
  BY <1>1, <1>2 DEF ReaderIInv, OnePlace, BufferApart, InFlight
<1>3. ASSUME NEW i \in 1 .. Len(buffer'), NEW j \in 1 .. Len(buffer'), i # j
      PROVE  Apart(buffer'[i], buffer'[j])
  <2>1. CASE i \in 1 .. Len(buffer) /\ j \in 1 .. Len(buffer)
    BY <1>1, <1>3, <2>1 DEF ReaderIInv, OnePlace, BufferApart
  <2>2. CASE i \in 1 .. Len(buffer) /\ j = Len(buffer) + 1
    BY <1>1, <1>3, <2>2 DEF InFlight
  <2>3. CASE j \in 1 .. Len(buffer) /\ i = Len(buffer) + 1
    BY <1>1, <1>3, <2>3 DEF InFlight, Apart
  <2> QED BY <1>1, <1>3, <2>1, <2>2, <2>3
<1> QED
  BY <1>2, <1>3 DEF BufferApart, Undelivered, EndOf

(* The send moves the chunk to the end of the channel, where it belongs. *)
LEMMA PrefetchSendStep == ASSUME ReaderIInv, PrefetchSend PROVE ReaderIInv'
<1>0. /\ pf = "send" /\ buffer' = Append(buffer, chunk)
      /\ pf' = "exiting" \/ pf' = "loop"
      /\ pf' = "exiting" => last
      /\ UNCHANGED <<pos, chunk, err, done, last>>
      /\ UNCHANGED <<rd, want, got, remainder, delivered, result, split, broke>>
  BY DEF PrefetchSend, reader
<1>1. chunk \in Chunk /\ buffer \in Seq(Chunk) /\ remainder \in Chunk
  BY DEF ReaderIInv, ReaderTypeOK
<1>2. /\ buffer' \in Seq(Chunk) /\ Len(buffer') = Len(buffer) + 1 /\ Len(buffer) \in Nat
      /\ \A i \in 1 .. Len(buffer) : buffer'[i] = buffer[i]
      /\ buffer'[Len(buffer) + 1] = chunk
      /\ \A i \in 1 .. Len(buffer) + 1 : i \in 1 .. Len(buffer) \/ i = Len(buffer) + 1
  BY <1>0, <1>1, Appended
<1>3. ReaderTypeOK'
  BY <1>0, <1>2 DEF ReaderIInv, ReaderTypeOK
<1>4. InFlight(chunk) /\ InFlight(remainder) /\ Apart(remainder, chunk) /\ EndOf(chunk) = pos
  BY <1>0 DEF ReaderIInv, OnePlace, AtEnd
<1>5. OnePlace'
  <2>1. BufferApart'
    BY <1>0, <1>1, <1>4, BufferAppend
  <2>2. Apart(chunk, remainder)
    BY <1>4 DEF Apart
  <2>3. InFlight(remainder)'
    BY <1>0, <1>2, <1>4, <2>2 DEF InFlight, Undelivered
  <2> QED BY <1>0, <2>1, <2>3 DEF ReaderIInv, OnePlace, DeliveredOnce
<1>6. Contiguous'
  <2> SUFFICES ASSUME ~split PROVE
        /\ rd' # "putback"
        /\ \A i \in 1 .. Len(delivered') : delivered'[i] = i
        /\ \A i \in 1 .. Len(buffer') : buffer'[i].off = Start(i)'
        /\ pf' \in {"loop", "read"} => Start(Len(buffer) + 1)' = pos'
        /\ pf' = "send" => Start(Len(buffer) + 1)' = chunk'.off
        /\ pf' \in {"exiting", "exited"} /\ err' = "none" /\ ~done' =>
               Start(Len(buffer) + 1)' = pos'
    BY <1>0 DEF Contiguous
  <2>1. \A i \in 1 .. Len(buffer) + 1 : Start(i)' = Start(i)
    BY <1>0, <1>2 DEF Start
  <2>2. \A i \in 1 .. Len(buffer') : buffer'[i].off = Start(i)'
    BY <1>0, <1>2, <2>1 DEF ReaderIInv, Contiguous
  <2>3. Start(Len(buffer) + 1)' = pos
    BY <1>0, <1>2, <1>4 DEF Start
  <2> QED BY <1>0, <2>2, <2>3 DEF ReaderIInv, Contiguous
<1>7. AtEnd'
  <2>1. result = "eof" => FALSE
    BY <1>0 DEF ReaderIInv, AtEnd
  <2> QED BY <1>0, <2>1 DEF ReaderIInv, AtEnd
<1> QED BY <1>3, <1>5, <1>6, <1>7 DEF ReaderIInv

(* A call of Read begins, or returns the stored error. *)
LEMMA ReadCallStep == ASSUME ReaderIInv, ReadCall PROVE ReaderIInv'
<1>0. /\ rd = "idle" /\ rd' \in {"idle", "reading"} /\ result' # "eof"
      /\ UNCHANGED <<pos, pf, chunk, last, buffer, err, done, remainder, delivered, split, broke>>
  BY DEF ReadCall
<1>1. want' \in Nat /\ got' \in Nat
  <2>1. want \in Nat /\ got \in Nat
    BY DEF ReaderIInv, ReaderTypeOK
  <2>2. \/ want' = want /\ got' = got
        \/ want' \in ReadLens /\ got' = 0
    BY DEF ReadCall
  <2>3. want' \in ReadLens => want' \in Nat
    BY SizeAssumption
  <2> QED BY <2>1, <2>2, <2>3
<1>2. ReaderTypeOK'
  BY <1>0, <1>1 DEF ReaderIInv, ReaderTypeOK
<1> QED BY <1>0, <1>2, NothingMoves

(* The channel is closed when Read finds the end. *)
LEMMA ReadEndsStep == ASSUME ReaderIInv, ReadEnds PROVE ReaderIInv'
<1>0. /\ rd = "reading" /\ rd' = "idle" /\ want' = 0 /\ got' = 0
      /\ buffer = <<>> /\ pf = "exited" /\ (result' = "eof" => err = "none")
      /\ UNCHANGED <<pos, pf, chunk, last, buffer, err, done, remainder, delivered, split, broke>>
  BY DEF ReadEnds, Returns
<1>1. ReaderTypeOK'
  BY <1>0 DEF ReaderIInv, ReaderTypeOK
<1> QED BY <1>0, <1>1, NothingMoves

(* Read returns for the context with what it has copied so far. *)
LEMMA ReadCancelledStep == ASSUME ReaderIInv, ReadCancelled PROVE ReaderIInv'
<1>0. /\ rd = "reading" /\ rd' = "idle" /\ want' = 0 /\ got' = 0 /\ result' = "error"
      /\ UNCHANGED <<pos, pf, chunk, last, buffer, err, done, remainder, delivered, split, broke>>
  BY DEF ReadCancelled, Returns
<1>1. ReaderTypeOK'
  BY <1>0 DEF ReaderIInv, ReaderTypeOK
<1> QED BY <1>0, <1>1, NothingMoves

(* Close only closes done: what the invariant asks for is less then. *)
LEMMA CloseReaderStep == ASSUME ReaderIInv, CloseReader PROVE ReaderIInv'
<1>0. /\ UNCHANGED <<pos, pf, chunk, last, buffer, err>> /\ done' = TRUE
      /\ UNCHANGED <<rd, want, got, remainder, delivered, result, split, broke>>
  BY DEF CloseReader, reader
<1>1. ReaderTypeOK'
  BY <1>0 DEF ReaderIInv, ReaderTypeOK
<1>2. result' = "eof" => err = "none" /\ pf = "exited" /\ buffer = <<>> /\ rd' = "idle"
  BY <1>0 DEF ReaderIInv, AtEnd
<1> QED BY <1>0, <1>1, <1>2, NothingMoves

(* The steps of Close and of the context that the rest does not see. *)
LEMMA OutsideStep ==
    ASSUME ReaderIInv, CloseReaderReturns \/ CancelReader PROVE ReaderIInv'
<1>0. /\ UNCHANGED <<pos, pf, chunk, last, buffer, err, done>>
      /\ UNCHANGED <<rd, want, got, remainder, delivered, result, split, broke>>
  BY DEF CloseReaderReturns, CancelReader, reader
<1>1. ReaderTypeOK'
  BY <1>0 DEF ReaderIInv, ReaderTypeOK
<1>2. result' = "eof" => err = "none" /\ pf = "exited" /\ buffer = <<>> /\ rd' = "idle"
  BY <1>0 DEF ReaderIInv, AtEnd
<1> QED BY <1>0, <1>1, <1>2, NothingMoves

(* What is left of a chunk goes back to the channel, if it goes anywhere.   *)
LEMMA ReadPutBackStep == ASSUME ReaderIInv, ReadPutBack PROVE ReaderIInv'
<1>0. /\ rd = "putback" /\ remainder' = NoChunk
      /\ \/ buffer' = Append(buffer, remainder) \/ buffer' = buffer
      /\ \/ pf = "exited" /\ UNCHANGED <<rd, want, got, result>>
         \/ rd' = "idle" /\ want' = 0 /\ got' = 0 /\ result' = "data"
      /\ UNCHANGED <<pos, pf, chunk, last, err, done, delivered, split, broke>>
  BY DEF ReadPutBack, Returns
<1>1. chunk \in Chunk /\ buffer \in Seq(Chunk) /\ remainder \in Chunk
  BY DEF ReaderIInv, ReaderTypeOK
<1>2. NoChunk \in Chunk /\ NoChunk.off = 0 /\ NoChunk.len = 0 /\ EndOf(NoChunk) = 0
  BY DEF NoChunk, Chunk, EndOf
<1>3. split
  BY <1>0 DEF ReaderIInv, Contiguous
<1>4. buffer' \in Seq(Chunk)
  BY <1>0, <1>1, Appended
<1>5. ReaderTypeOK'
  BY <1>0, <1>2, <1>4 DEF ReaderIInv, ReaderTypeOK
<1>6. OnePlace'
  <2>1. InFlight(remainder)
    BY DEF ReaderIInv, OnePlace
  <2>2. BufferApart'
    <3>1. CASE buffer' = Append(buffer, remainder)
      BY <1>0, <1>1, <2>1, <3>1, BufferAppend
    <3>2. CASE buffer' = buffer
      BY <1>0, <3>2 DEF ReaderIInv, OnePlace, BufferApart, Undelivered
    <3> QED BY <1>0, <3>1, <3>2
  <2>3. InFlight(remainder)'
    <3>1. pos \in Nat /\ \A i \in 1 .. Len(delivered) : delivered[i] \in Nat
      BY DEF ReaderIInv, ReaderTypeOK
    <3>2. Undelivered(remainder)'
      BY <1>0, <1>2, <3>1 DEF Undelivered
    <3> QED BY <1>0, <1>2, <3>1, <3>2 DEF InFlight, Apart
  <2>4. ASSUME pf = "send" PROVE (InFlight(chunk) /\ Apart(remainder, chunk))'
    <3>1. InFlight(chunk) /\ Apart(remainder, chunk)
      BY <2>4 DEF ReaderIInv, OnePlace
    <3>2. CASE buffer' = Append(buffer, remainder)
      <4>1. /\ Len(buffer') = Len(buffer) + 1
            /\ \A i \in 1 .. Len(buffer) : buffer'[i] = buffer[i]
            /\ buffer'[Len(buffer) + 1] = remainder
            /\ \A i \in 1 .. Len(buffer) + 1 : i \in 1 .. Len(buffer) \/ i = Len(buffer) + 1
        BY <1>1, <3>2, Appended
      <4>2. \A i \in 1 .. Len(buffer') : Apart(buffer'[i], chunk)
        BY <3>1, <4>1 DEF InFlight
      <4> QED BY <1>0, <1>2, <3>1, <4>2 DEF InFlight, Undelivered, Apart
    <3>3. CASE buffer' = buffer
      BY <1>0, <1>2, <3>1, <3>3 DEF InFlight, Undelivered, Apart
    <3> QED BY <1>0, <3>2, <3>3
  <2> QED BY <1>0, <2>2, <2>3, <2>4 DEF ReaderIInv, OnePlace, DeliveredOnce
<1>7. Contiguous'
  BY <1>0, <1>3 DEF Contiguous
<1>8. AtEnd'
  BY <1>0 DEF ReaderIInv, AtEnd, EndOf
<1> QED BY <1>5, <1>6, <1>7, <1>8 DEF ReaderIInv

(* The copy of n bytes after off to the client. *)
LEMMA Copied ==
    ASSUME NEW d \in Seq(Nat), NEW off \in Nat, NEW n \in Nat,
           NEW e, e = d \o [i \in 1 .. n |-> off + i]
    PROVE  /\ e \in Seq(Nat) /\ Len(e) = Len(d) + n
           /\ \A i \in 1 .. Len(d) : e[i] = d[i]
           /\ \A i \in 1 .. Len(e) : i \notin 1 .. Len(d) => /\ i - Len(d) \in 1 .. n
                                                            /\ e[i] = off + (i - Len(d))
<1>1. PICK s : s = [i \in 1 .. n |-> off + i]
  OBVIOUS
<1>2. s \in Seq(Nat) /\ Len(s) = n /\ \A i \in 1 .. n : s[i] = off + i
  BY <1>1
<1>3. e = d \o s
  BY <1>1
<1>4. /\ e \in Seq(Nat) /\ Len(e) = Len(d) + n
      /\ \A i \in 1 .. Len(d) : e[i] = d[i]
      /\ \A i \in 1 .. Len(e) : i \notin 1 .. Len(d) => /\ i - Len(d) \in 1 .. n
                                                       /\ e[i] = s[i - Len(d)]
  BY <1>2, <1>3
<1> QED BY <1>2, <1>4

(* A byte of one chunk is not in another that is apart from it. *)
LEMMA Between ==
    ASSUME NEW c, NEW d, c.off \in Nat, c.len \in Nat, d.off \in Nat, d.len \in Nat, Apart(c, d),
           NEW k \in Nat, k > 0, k <= c.len
    PROVE  c.off + k <= d.off \/ c.off + k > d.off + d.len
<1>1. PICK a \in Nat, b \in Nat, x \in Nat, y \in Nat :
          a = c.off /\ b = c.len /\ x = d.off /\ y = d.len
  OBVIOUS
<1>2. b = 0 \/ y = 0 \/ a + b <= x \/ x + y <= a
  BY <1>1 DEF Apart, EndOf
<1>3. a + k <= x \/ a + k > x + y
  BY ONLY <1>1, <1>2, k \in Nat, k > 0, k <= b, a \in Nat, b \in Nat, x \in Nat, y \in Nat
<1> QED BY <1>1, <1>3

(* A chunk apart from the one that was copied remains undelivered. *)
LEMMA StillUndelivered ==
    ASSUME ReaderTypeOK, NEW c \in Chunk, NEW n \in Nat, n <= c.len,
           delivered' = delivered \o [i \in 1 .. n |-> c.off + i],
           NEW d \in Chunk, Undelivered(d), Apart(c, d)
    PROVE  Undelivered(d)'
<1>1. c.off \in Nat /\ c.len \in Nat /\ d.off \in Nat /\ d.len \in Nat
  BY DEF Chunk
<1>2. PICK L \in Nat : L = Len(delivered)
  BY DEF ReaderTypeOK
<1>3. /\ delivered' \in Seq(Nat) /\ Len(delivered') = L + n
      /\ \A i \in 1 .. L : delivered'[i] = delivered[i]
      /\ \A i \in 1 .. L + n : i \notin 1 .. L => /\ i - L \in 1 .. n
                                                  /\ delivered'[i] = c.off + (i - L)
  <2>1. delivered \in Seq(Nat)
    BY DEF ReaderTypeOK
  <2>o. PICK o \in Nat : o = c.off
    BY <1>1
  <2>e. PICK e : e = delivered'
    OBVIOUS
  <2>2. o = c.off /\ e = delivered'
    BY <2>o, <2>e
  <2>3. e = delivered \o [i \in 1 .. n |-> o + i]
    BY <2>2
  <2>4. /\ e \in Seq(Nat) /\ Len(e) = Len(delivered) + n
        /\ \A i \in 1 .. Len(delivered) : e[i] = delivered[i]
        /\ \A i \in 1 .. Len(e) : i \notin 1 .. Len(delivered) =>
               /\ i - Len(delivered) \in 1 .. n
               /\ e[i] = o + (i - Len(delivered))
    BY ONLY <2>1, <2>3, n \in Nat, o \in Nat, Copied
  <2> QED BY ONLY <1>2, <2>2, <2>4
<1>4. ASSUME NEW i \in 1 .. L + n PROVE delivered'[i] <= d.off \/ delivered'[i] > EndOf(d)
  <2>1. CASE i \in 1 .. L
    BY <1>2, <1>3, <2>1 DEF Undelivered
  <2>2. CASE i \notin 1 .. L
    <3>1. PICK k \in 1 .. n : k = i - L
      BY <1>3, <2>2
    <3>2. delivered'[i] = c.off + k
      BY <1>3, <2>2, <3>1
    <3>3. k \in Nat /\ k > 0 /\ k <= n /\ n \in Nat /\ n <= c.len /\ Apart(c, d)
      OBVIOUS
    <3> QED BY ONLY <1>1, <3>2, <3>3, Between DEF EndOf
  <2> QED BY <2>1, <2>2
<1> QED BY <1>3, <1>4 DEF Undelivered

(* Read takes the first chunk of the channel and copies n of its bytes. *)
LEMMA Received ==
    ASSUME ReaderIInv, buffer # <<>>, NEW c, c = Head(buffer), NEW n \in Nat, n <= c.len,
           buffer' = Tail(buffer),
           delivered' = delivered \o [i \in 1 .. n |-> c.off + i],
           remainder' \in Chunk, EndOf(remainder') <= pos,
           remainder'.len = 0 \/ /\ remainder'.off = c.off + n
                                 /\ EndOf(remainder') = EndOf(c),
           UNCHANGED <<pos, pf, chunk>>
    PROVE  OnePlace'
<1>1. /\ buffer \in Seq(Chunk) /\ delivered \in Seq(Nat) /\ pos \in Nat /\ chunk \in Chunk
      /\ ReaderTypeOK
  BY DEF ReaderIInv, ReaderTypeOK
<1>2. PICK B \in Nat : B = Len(buffer) /\ B > 0
  BY <1>1
<1>3. /\ c = buffer[1] /\ c \in Chunk /\ buffer' \in Seq(Chunk)
      /\ Len(buffer') = B - 1 /\ 1 \in 1 .. B
      /\ \A i \in 1 .. B - 1 : /\ buffer'[i] = buffer[i + 1] /\ i + 1 \in 1 .. B
                               /\ i + 1 # 1 /\ buffer[i + 1] \in Chunk
  BY <1>1, <1>2
<1>4. PICK o \in Nat, l \in Nat : o = c.off /\ l = c.len
  BY <1>3 DEF Chunk
<1>5. PICK L \in Nat : L = Len(delivered)
  BY <1>1
<1>e. PICK e : e = delivered'
  OBVIOUS
<1>6. /\ e \in Seq(Nat) /\ Len(e) = L + n
      /\ \A i \in 1 .. L : e[i] = delivered[i]
      /\ \A i \in 1 .. L + n : i \notin 1 .. L => i - L \in 1 .. n /\ e[i] = o + (i - L)
  <2>1. e = delivered \o [i \in 1 .. n |-> o + i]
    BY <1>4, <1>e
  <2>2. delivered \in Seq(Nat)
    BY <1>1
  <2>3. /\ e \in Seq(Nat) /\ Len(e) = Len(delivered) + n
        /\ \A i \in 1 .. Len(delivered) : e[i] = delivered[i]
        /\ \A i \in 1 .. Len(e) : i \notin 1 .. Len(delivered) =>
               /\ i - Len(delivered) \in 1 .. n
               /\ e[i] = o + (i - Len(delivered))
    BY ONLY <2>1, <2>2, n \in Nat, o \in Nat, Copied
  <2> QED BY ONLY <1>5, <2>3
<1>n. n \in Nat /\ n <= l
  BY <1>4
<1>7. /\ o + l <= pos /\ Undelivered(c) /\ EndOf(c) = o + l
      /\ \A i \in 1 .. B - 1 : Apart(c, buffer[i + 1])
  BY <1>2, <1>3, <1>4 DEF ReaderIInv, OnePlace, BufferApart, EndOf
<1>8. \A i \in 1 .. L : /\ delivered[i] \in Nat /\ delivered[i] <= pos
                        /\ delivered[i] <= o \/ delivered[i] > o + l
  BY <1>1, <1>4, <1>5, <1>7 DEF Undelivered, ReaderIInv, OnePlace, DeliveredOnce
<1>p. pos \in Nat
  BY <1>1
<1>9. DeliveredOnce'
  <2>0. \A i, j \in 1 .. L : i # j => delivered[i] # delivered[j]
    BY <1>5 DEF ReaderIInv, OnePlace, DeliveredOnce
  <2>1. ASSUME NEW i \in 1 .. L + n, NEW j \in 1 .. L + n, i # j
        PROVE  e[i] # e[j]
    <3>1. CASE i \in 1 .. L /\ j \in 1 .. L
      BY ONLY <1>6, <2>0, <2>1, <3>1
    <3>2. CASE i \in 1 .. L /\ j \notin 1 .. L
      <4>1. PICK k \in 1 .. n : e[j] = o + k
        BY ONLY <1>6, <3>2, j \in 1 .. L + n
      <4> QED BY ONLY <1>n, <1>6, <1>8, <3>2, <4>1, o \in Nat, l \in Nat, k \in 1 .. n
    <3>3. CASE i \notin 1 .. L /\ j \in 1 .. L
      <4>1. PICK k \in 1 .. n : e[i] = o + k
        BY ONLY <1>6, <3>3, i \in 1 .. L + n
      <4> QED BY ONLY <1>n, <1>6, <1>8, <3>3, <4>1, o \in Nat, l \in Nat, k \in 1 .. n
    <3>4. CASE i \notin 1 .. L /\ j \notin 1 .. L
      <4>1. e[i] = o + (i - L) /\ e[j] = o + (j - L)
        BY ONLY <1>6, <3>4, i \in 1 .. L + n, j \in 1 .. L + n
      <4> QED BY ONLY <1>n, <2>1, <4>1, o \in Nat, L \in Nat, i \in 1 .. L + n, j \in 1 .. L + n
    <3> QED BY <3>1, <3>2, <3>3, <3>4
  <2>2. ASSUME NEW i \in 1 .. L + n PROVE e[i] <= pos
    <3>1. CASE i \in 1 .. L
      BY ONLY <1>6, <1>8, <3>1
    <3>2. CASE i \notin 1 .. L
      <4>1. PICK k \in 1 .. n : e[i] = o + k
        BY ONLY <1>6, <3>2, i \in 1 .. L + n
      <4> QED BY ONLY <1>n, <1>p, <1>7, <4>1, o \in Nat, l \in Nat, k \in 1 .. n
    <3> QED BY <3>1, <3>2
  <2>3. pos' = pos /\ Len(delivered') = L + n
    BY <1>e, <1>6
  <2> QED BY ONLY <1>e, <2>1, <2>2, <2>3 DEF DeliveredOnce
<1>10. BufferApart'
  <2>1. ASSUME NEW i \in 1 .. B - 1
        PROVE  EndOf(buffer'[i]) <= pos /\ \A j \in 1 .. Len(delivered') :
                   delivered'[j] <= buffer'[i].off \/ delivered'[j] > EndOf(buffer'[i])
    <3>1. PICK d \in Chunk : d = buffer[i + 1]
      BY <1>3
    <3>2. EndOf(d) <= pos /\ Undelivered(d) /\ Apart(c, d)
      BY <1>2, <1>3, <1>7, <3>1 DEF ReaderIInv, OnePlace, BufferApart
    <3>3. Undelivered(d)'
      BY <1>1, <1>3, <3>2, StillUndelivered
    <3>4. buffer'[i] = d
      BY <1>3, <3>1
    <3>5. \A j \in 1 .. Len(delivered') : delivered'[j] <= d.off \/ delivered'[j] > EndOf(d)
      BY ONLY <3>3 DEF Undelivered
    <3> QED BY ONLY <3>2, <3>4, <3>5
  <2>2. ASSUME NEW i \in 1 .. B - 1, NEW j \in 1 .. B - 1, i # j
        PROVE  Apart(buffer'[i], buffer'[j])
    <3>1. /\ buffer'[i] = buffer[i + 1] /\ buffer'[j] = buffer[j + 1]
          /\ i + 1 \in 1 .. Len(buffer) /\ j + 1 \in 1 .. Len(buffer)
      BY ONLY <1>2, <1>3, i \in 1 .. B - 1, j \in 1 .. B - 1
    <3>2. i + 1 # j + 1
      BY <2>2
    <3>3. \A h, k \in 1 .. Len(buffer) : h # k => Apart(buffer[h], buffer[k])
      BY DEF ReaderIInv, OnePlace, BufferApart
    <3> QED BY ONLY <3>1, <3>2, <3>3
  <2>3. pos' = pos /\ Len(buffer') = B - 1
    BY <1>3
  <2> QED BY ONLY <2>1, <2>2, <2>3 DEF BufferApart, Undelivered
<1>r. PICK r \in Chunk : r = remainder'
  OBVIOUS
<1>s. PICK p \in Nat, q \in Nat : p = r.off /\ q = r.len
  BY <1>r DEF Chunk
<1>t. /\ EndOf(r) = p + q /\ p + q <= pos
      /\ q = 0 \/ (p = o + n /\ p + q = o + l)
  BY <1>r, <1>s, <1>4, <1>7 DEF EndOf
<1>u. ASSUME NEW d \in Chunk, Apart(c, d) PROVE Apart(d, r) /\ Apart(r, d)
  <2>1. PICK x \in Nat, y \in Nat : x = d.off /\ y = d.len
    BY DEF Chunk
  <2>2. l = 0 \/ y = 0 \/ o + l <= x \/ x + y <= o
    BY ONLY <1>4, <1>u, <2>1 DEF Apart, EndOf
  <2>3. q = 0 \/ y = 0 \/ p + q <= x \/ x + y <= p
    BY ONLY <1>n, <1>t, <2>2, o \in Nat, l \in Nat, p \in Nat, q \in Nat, x \in Nat, y \in Nat
  <2> QED BY ONLY <1>s, <2>1, <2>3 DEF Apart, EndOf
<1>11. InFlight(remainder)'
  <2>3. ASSUME NEW i \in 1 .. L + n PROVE e[i] <= p \/ e[i] > p + q
    <3>1. CASE i \in 1 .. L
      BY ONLY <1>6, <1>8, <1>n, <1>t, <3>1, o \in Nat, l \in Nat, p \in Nat, q \in Nat
    <3>2. CASE i \notin 1 .. L
      <4>1. PICK k \in 1 .. n : e[i] = o + k
        BY ONLY <1>6, <3>2, i \in 1 .. L + n
      <4> QED BY ONLY <1>n, <1>t, <4>1, o \in Nat, l \in Nat, p \in Nat, q \in Nat, k \in 1 .. n
    <3> QED BY <3>1, <3>2
  <2>4. \A i \in 1 .. B - 1 : Apart(buffer'[i], r)
    BY <1>3, <1>7, <1>u
  <2>5. pos' = pos /\ Len(buffer') = B - 1 /\ Len(delivered') = L + n
    BY <1>3, <1>e, <1>6
  <2> QED BY ONLY <1>e, <1>r, <1>s, <1>t, <2>3, <2>4, <2>5 DEF InFlight, Undelivered
<1>12. ASSUME pf = "send" PROVE (InFlight(chunk) /\ Apart(remainder, chunk))'
  <2>1. InFlight(chunk)
    BY <1>12 DEF ReaderIInv, OnePlace
  <2>2. PICK d \in Chunk : d = chunk
    BY <1>1
  <2>3. Apart(c, d) /\ Undelivered(d) /\ EndOf(d) <= pos
    BY <1>2, <1>3, <2>1, <2>2 DEF InFlight
  <2>4. Undelivered(d)'
    BY <1>1, <1>3, <2>3, StillUndelivered
  <2>5. \A i \in 1 .. Len(buffer') : Apart(buffer'[i], d)
    BY <1>2, <1>3, <2>1, <2>2 DEF InFlight
  <2>6. Apart(r, d)
    BY <1>u, <2>3
  <2>7. pos' = pos /\ chunk' = d
    BY <2>2
  <2> QED BY ONLY <1>r, <2>3, <2>4, <2>5, <2>6, <2>7 DEF InFlight, Undelivered
<1>13. pf' = pf
  OBVIOUS
<1> QED BY ONLY <1>9, <1>10, <1>11, <1>12, <1>13 DEF OnePlace

(* And in order, if it takes them all. *)
LEMMA ReceivedInOrder ==
    ASSUME ReaderIInv, buffer # <<>>, NEW c, c = Head(buffer), NEW n \in Nat,
           buffer' = Tail(buffer), ~split, n = c.len, rd' # "putback",
           delivered' = delivered \o [i \in 1 .. n |-> c.off + i],
           UNCHANGED <<pos, pf, chunk, err, done>>
    PROVE  Contiguous'
<1>1. buffer \in Seq(Chunk) /\ delivered \in Seq(Nat)
  BY DEF ReaderIInv, ReaderTypeOK
<1>2. PICK B \in Nat : B = Len(buffer) /\ B > 0
  BY <1>1
<1>3. /\ c = buffer[1] /\ c \in Chunk /\ buffer' \in Seq(Chunk)
      /\ Len(buffer') = B - 1 /\ 1 \in 1 .. B
      /\ \A i \in 1 .. B - 1 : buffer'[i] = buffer[i + 1] /\ i + 1 \in 1 .. B
  BY <1>1, <1>2
<1>4. c.off \in Nat
  BY <1>3 DEF Chunk
<1>5. PICK L \in Nat : L = Len(delivered)
  BY <1>1
<1>6. /\ Len(delivered') = L + n
      /\ \A i \in 1 .. L : delivered'[i] = delivered[i]
      /\ \A i \in 1 .. L + n : i \notin 1 .. L => /\ i - L \in 1 .. n
                                                  /\ delivered'[i] = c.off + (i - L)
  BY <1>1, <1>4, <1>5, Copied
<1>7. c.off = L
  BY <1>2, <1>3, <1>5 DEF ReaderIInv, Contiguous, Start
<1>8. \A i \in 1 .. L + n : delivered'[i] = i
  <2> TAKE i \in 1 .. L + n
  <2>1. CASE i \in 1 .. L
    BY <1>5, <1>6, <2>1 DEF ReaderIInv, Contiguous
  <2>2. CASE i \notin 1 .. L
    BY <1>6, <1>7, <2>2
  <2> QED BY <2>1, <2>2
<1>9. \A i \in 1 .. B : Start(i)' = Start(i + 1)
  <2> TAKE i \in 1 .. B
  <2>1. CASE i = 1
    BY <1>3, <1>6, <1>7, <2>1 DEF Start, EndOf
  <2>2. CASE i # 1
    <3>1. i - 1 \in 1 .. B - 1 /\ (i - 1) + 1 = i /\ i + 1 # 1 /\ (i + 1) - 1 = i
      BY <2>2
    <3>2. buffer'[i - 1] = buffer[i]
      BY <1>3, <3>1
    <3> QED BY <2>2, <3>1, <3>2 DEF Start
  <2> QED BY <2>1, <2>2
<1>10. \A i \in 1 .. B - 1 : buffer'[i].off = Start(i)'
  <2> TAKE i \in 1 .. B - 1
  <2>1. i \in 1 .. B /\ buffer[i + 1].off = Start(i + 1) /\ buffer'[i] = buffer[i + 1]
    BY <1>2, <1>3 DEF ReaderIInv, Contiguous
  <2> QED BY <1>9, <2>1
<1>11. Start(Len(buffer) + 1)' = Start(Len(buffer) + 1)
  <2>1. (B - 1) + 1 = B /\ B \in 1 .. B
    BY <1>2
  <2>2. Start(B)' = Start(B + 1)
    BY <1>9, <2>1
  <2> QED BY <1>2, <1>3, <2>1, <2>2 DEF Start
<1> QED BY <1>3, <1>6, <1>8, <1>10, <1>11 DEF ReaderIInv, Contiguous

(* Read receives a chunk: it is copied whole, or its rest is to be put      *)
(* back.                                                                    *)
LEMMA ReadReceiveStep == ASSUME ReaderIInv, ReadReceive PROVE ReaderIInv'
<1>1. PICK c : c = Head(buffer)
  OBVIOUS
<1>2. PICK n : n = Lesser(want, c.len)
  OBVIOUS
<1>3. /\ rd = "reading" /\ buffer # <<>> /\ buffer' = Tail(buffer)
      /\ delivered' = delivered \o [i \in 1 .. n |-> c.off + i]
      /\ split' = (split \/ n < c.len)
      /\ \/ /\ n < c.len /\ rd' = "putback"
            /\ remainder' = [off |-> c.off + n, len |-> c.len - n]
            /\ want' = want - n /\ got' = got + n /\ result' = result
         \/ /\ n = c.len /\ n < want /\ want' = want - n /\ got' = got + n
            /\ UNCHANGED <<rd, remainder, result>>
         \/ /\ n = c.len /\ n = want /\ rd' = "idle" /\ want' = 0 /\ got' = 0
            /\ result' = "data" /\ UNCHANGED remainder
      /\ UNCHANGED <<pos, pf, chunk, last, err, done, broke>>
  BY <1>1, <1>2 DEF ReadReceive, Returns
<1>4. /\ buffer \in Seq(Chunk) /\ delivered \in Seq(Nat) /\ pos \in Nat
      /\ want \in Nat /\ got \in Nat
  BY DEF ReaderIInv, ReaderTypeOK
<1>5. c \in Chunk /\ buffer' \in Seq(Chunk) /\ c = buffer[1] /\ 1 \in 1 .. Len(buffer)
  BY <1>1, <1>3, <1>4
<1>6. c.off \in Nat /\ c.len \in Nat /\ EndOf(c) = c.off + c.len /\ EndOf(c) <= pos
  BY <1>5 DEF Chunk, EndOf, ReaderIInv, OnePlace, BufferApart
<1>7. n \in Nat /\ n <= c.len /\ n <= want
  BY <1>2, <1>4, <1>6, LesserIs
<1>8. remainder = NoChunk /\ NoChunk \in Chunk /\ NoChunk.len = 0 /\ EndOf(NoChunk) = 0
  BY <1>3 DEF ReaderIInv, AtEnd, NoChunk, Chunk, EndOf
<1>9. /\ remainder' \in Chunk /\ EndOf(remainder') <= pos
      /\ remainder'.len = 0 \/ (remainder'.off = c.off + n /\ EndOf(remainder') = EndOf(c))
  <2>1. CASE remainder' = [off |-> c.off + n, len |-> c.len - n]
    <3>1. /\ remainder'.off = c.off + n /\ remainder'.len = c.len - n
          /\ c.off + n \in Nat /\ c.len - n \in Nat
      BY <1>6, <1>7, <2>1
    <3> QED BY <1>6, <1>7, <2>1, <3>1 DEF Chunk, EndOf
  <2>2. CASE remainder' = remainder
    BY <1>4, <1>8, <2>2
  <2> QED BY <1>3, <2>1, <2>2
<1>10. ReaderTypeOK'
  <2>1. want' \in Nat /\ got' \in Nat
    BY <1>3, <1>4, <1>7
  <2>2. delivered' \in Seq(Nat)
    BY <1>3, <1>4, <1>6, <1>7, Copied
  <2>3. split' \in BOOLEAN
    BY <1>3
  <2> QED BY <1>3, <1>5, <1>9, <2>1, <2>2, <2>3 DEF ReaderIInv, ReaderTypeOK
<1>11. OnePlace'
  BY <1>1, <1>3, <1>7, <1>9, Received
<1>12. Contiguous'
  <2>1. CASE split'
    BY <2>1 DEF Contiguous
  <2>2. CASE ~split'
    <3>1. ~split /\ n = c.len /\ rd' # "putback"
      BY <1>3, <1>6, <1>7, <2>2
    <3> QED BY <1>1, <1>3, <1>7, <3>1, ReceivedInOrder
  <2> QED BY <2>1, <2>2
<1>13. AtEnd'
  <2>1. result # "eof"
    BY <1>3 DEF ReaderIInv, AtEnd
  <2>2. result' # "eof" /\ (rd' # "putback" => remainder' = NoChunk)
    BY <1>3, <1>8, <2>1
  <2> QED BY <1>3, <2>2 DEF ReaderIInv, AtEnd, EndOf
<1> QED BY <1>10, <1>11, <1>12, <1>13 DEF ReaderIInv

(* Every step of the reader preserves the invariant. *)
LEMMA NextReader == ReaderIInv /\ [ReaderNext]_readerVars => ReaderIInv'
<1> SUFFICES ASSUME ReaderIInv, [ReaderNext]_readerVars PROVE ReaderIInv'
  OBVIOUS
<1>1. CASE Prefetch
  BY <1>1, PrefetchStopsStep, PrefetchGetBufferStep, PrefetchReadStep, PrefetchReadFailsStep,
     PrefetchSendStep, PrefetchGivesUpStep, PrefetchExitsStep DEF Prefetch
<1>2. CASE Reading
  BY <1>2, ReadReceiveStep, ReadPutBackStep, ReadEndsStep, ReadCancelledStep DEF Reading
<1>3. CASE ReadCall \/ CloseReader \/ CloseReaderReturns \/ CancelReader
  BY <1>3, ReadCallStep, CloseReaderStep, OutsideStep
<1>4. CASE UNCHANGED readerVars
  <2>1. /\ UNCHANGED <<pos, pf, chunk, last, buffer, err, done>>
        /\ UNCHANGED <<rd, want, got, remainder, delivered, result, split, broke>>
    BY <1>4 DEF readerVars, reader
  <2>2. ReaderTypeOK'
    BY <2>1 DEF ReaderIInv, ReaderTypeOK
  <2>3. result' = "eof" => err = "none" /\ pf = "exited" /\ buffer = <<>> /\ rd' = "idle"
    BY <2>1 DEF ReaderIInv, AtEnd
  <2> QED BY <2>1, <2>2, <2>3, NothingMoves
<1> QED BY <1>1, <1>2, <1>3, <1>4 DEF ReaderNext

(* The reader's invariant holds in every reachable state. *)
THEOREM ReaderInvariance == ReaderSpec => []ReaderIInv
BY InitReader, NextReader, PTL DEF ReaderSpec

(* However prefetch, Read, Close and the context interleave, for any chunk  *)
(* size, capacity of the channel and lengths of reads: no byte is delivered *)
(* twice, and all come in order until a Read ends inside a chunk.           *)
THEOREM BytesComeInOrder == ReaderSpec => []DeliveredInOrder
<1>1. ReaderIInv => DeliveredInOrder
  BY DEF ReaderIInv, OnePlace, DeliveredOnce, Contiguous, DeliveredInOrder
<1> QED BY <1>1, ReaderInvariance, PTL

(* io.EOF is returned only when no error was stored, and with the whole     *)
(* source delivered unless Close was called, a Read ended inside a chunk or *)
(* the source broke off with io.ErrUnexpectedEOF.                           *)
THEOREM EndOfFileIsTheEnd == ReaderSpec => []EOFIsTheEnd
<1>1. ReaderIInv => EOFIsTheEnd
  <2> SUFFICES ASSUME ReaderIInv, result = "eof", ~done, ~split, ~broke
               PROVE  err = "none" /\ Len(delivered) = Total
    BY DEF ReaderIInv, AtEnd, EOFIsTheEnd
  <2>1. err = "none" /\ pf = "exited" /\ buffer = <<>> /\ pos = Total
    BY DEF ReaderIInv, AtEnd
  <2>2. Len(buffer) + 1 = 1
    BY <2>1
  <2>3. Start(Len(buffer) + 1) = Total
    BY <2>1 DEF ReaderIInv, Contiguous
  <2> QED BY <2>1, <2>2, <2>3 DEF Start
<1> QED BY <1>1, ReaderInvariance, PTL

---------------------------------------------------------------------------
(* The bodies that object requests send, and the reader that decodes them. *)

(* A non-empty set of numbers has a least one. *)
LEMMA LeastNumber ==
    ASSUME NEW T, T \subseteq Nat, T # {}
    PROVE  \E x \in T : \A y \in T : x <= y
<1> DEFINE R == OpToRel(<, Nat)
<1>1. IsWellFoundedOn(R, Nat)
  BY NatLessThanWellFounded
<1>2. \A x, y \in Nat : y < x => <<y, x>> \in R
  BY DEF OpToRel
<1> HIDE DEF R
<1>3. PICK x \in T : \A y \in T : <<y, x>> \notin R
  BY <1>1, WFMin
<1>4. ASSUME NEW y \in T PROVE x <= y
  <2>1. x \in Nat /\ y \in Nat /\ ~(y < x)
    BY <1>2, <1>3
  <2> QED BY <2>1
<1> QED BY <1>4

(* So a set that has zero, and the successor of each of its members, has    *)
(* every number.                                                            *)
LEMMA Induction ==
    ASSUME NEW T, 0 \in T, \A n \in Nat : n \in T => n + 1 \in T
    PROVE  Nat \subseteq T
<1> SUFFICES ASSUME Nat \ T # {} PROVE FALSE
  OBVIOUS
<1>1. PICK m \in Nat \ T : \A y \in Nat \ T : m <= y
  BY LeastNumber
<1>2. m # 0 /\ m - 1 \in Nat
  BY <1>1
<1>3. m - 1 \in T
  BY <1>1, <1>2
<1>4. (m - 1) + 1 \in T
  BY <1>2, <1>3
<1> QED BY <1>1, <1>2, <1>4

(* A copy begins with nothing. *)
Begun(s) == [s EXCEPT !.out = <<>>]

(* The recursion that Copying is defined by has a solution. *)
LEMMA CopyingExists ==
    ASSUME NEW s0, NEW v, NEW asked, NEW cuts
    PROVE  \E f : f = [i \in Nat |->
              IF i = 0 THEN Begun(s0) ELSE CopyOn(f[i - 1], v, asked, cuts)]
<1> DEFINE On(s) == CopyOn(s, v, asked, cuts)
           Good(g, n) == /\ g[0] = Begun(s0)
                         /\ \A i \in 1 .. n : g[i] = On(g[i - 1])
<1> HIDE DEF On
<1>1. \A n \in Nat : \E g : Good(g, n)
  <2> DEFINE T == {n \in Nat : \E g : Good(g, n)}
  <2>1. 0 \in T
    <3>1. Good([i \in {0} |-> Begun(s0)], 0)
      OBVIOUS
    <3> QED BY <3>1
  <2>2. ASSUME NEW n \in Nat, n \in T PROVE n + 1 \in T
    <3>1. PICK g : Good(g, n)
      BY <2>2
    <3> DEFINE h == [i \in 0 .. n + 1 |-> IF i = n + 1 THEN On(g[n]) ELSE g[i]]
    <3>2. h[0] = Begun(s0)
      BY <3>1
    <3>3. ASSUME NEW i \in 1 .. n + 1 PROVE h[i] = On(h[i - 1])
      <4>1. CASE i = n + 1
        BY <4>1
      <4>2. CASE i # n + 1
        <5>1. i \in 1 .. n /\ i - 1 \in 0 .. n + 1 /\ i - 1 # n + 1 /\ i \in 0 .. n + 1
          BY <3>3, <4>2
        <5>2. h[i] = g[i] /\ h[i - 1] = g[i - 1]
          BY <5>1, <4>2
        <5> QED BY <3>1, <5>1, <5>2
      <4> QED BY <4>1, <4>2
    <3>4. Good(h, n + 1)
      BY <3>2, <3>3
    <3> HIDE DEF h, Good
    <3> QED BY <3>4
  <2> HIDE DEF T
  <2>3. Nat \subseteq T
    BY <2>1, <2>2, Induction
  <2> QED BY <2>3 DEF T
<1>2. ASSUME NEW n \in Nat, NEW g, NEW h, Good(g, n), Good(h, n)
      PROVE  \A i \in Nat : i <= n => g[i] = h[i]
  <2> DEFINE T == {i \in Nat : i <= n => g[i] = h[i]}
  <2>1. 0 \in T
    BY <1>2
  <2>2. ASSUME NEW i \in Nat, i \in T PROVE i + 1 \in T
    <3> SUFFICES ASSUME i + 1 <= n PROVE g[i + 1] = h[i + 1]
      OBVIOUS
    <3>1. i + 1 \in 1 .. n /\ (i + 1) - 1 = i /\ i <= n
      OBVIOUS
    <3> QED BY <1>2, <2>2, <3>1
  <2> HIDE DEF T
  <2>3. Nat \subseteq T
    BY <2>1, <2>2, Induction
  <2> QED BY <2>3 DEF T
<1> DEFINE G(n) == CHOOSE g : Good(g, n)
<1>3. \A n \in Nat : Good(G(n), n)
  BY <1>1
<1> HIDE DEF G
<1> DEFINE f == [i \in Nat |-> G(i)[i]]
<1>4. ASSUME NEW i \in Nat
      PROVE  f[i] = IF i = 0 THEN Begun(s0) ELSE On(f[i - 1])
  <2>1. CASE i = 0
    BY <1>3, <2>1
  <2>2. CASE i # 0
    <3>1. i - 1 \in Nat /\ i \in 1 .. i /\ i - 1 <= i - 1
      BY <2>2
    <3>2. G(i)[i] = On(G(i)[i - 1])
      BY <1>3, <3>1
    <3>3. Good(G(i), i - 1)
      BY <1>3, <3>1
    <3>4. Good(G(i - 1), i - 1)
      BY <1>3, <3>1
    <3>5. G(i)[i - 1] = G(i - 1)[i - 1]
      <4> HIDE DEF Good
      <4> QED BY <1>2, <3>1, <3>3, <3>4
    <3> QED BY <2>2, <3>1, <3>2, <3>5
  <2> QED BY <2>1, <2>2
<1>5. f = [i \in Nat |-> IF i = 0 THEN Begun(s0) ELSE On(f[i - 1])]
  BY <1>4
<1> HIDE DEF f
<1> QED BY <1>5 DEF On

(* So nothing is copied at first, and what is copied after each Read is     *)
(* CopyOn's doing.                                                          *)
LEMMA CopyingIs ==
    ASSUME NEW s0, NEW v, NEW asked, NEW cuts
    PROVE  /\ Copying(s0, v, asked, cuts)[0] = Begun(s0)
           /\ \A i \in Nat : Copying(s0, v, asked, cuts)[i + 1] =
                 CopyOn(Copying(s0, v, asked, cuts)[i], v, asked, cuts)
<1> DEFINE step[i \in Nat] ==
            IF i = 0 THEN Begun(s0) ELSE CopyOn(step[i - 1], v, asked, cuts)
<1>1. Copying(s0, v, asked, cuts) = step
  BY DEF Copying, Begun
<1>2. step = [i \in Nat |-> IF i = 0 THEN Begun(s0)
                            ELSE CopyOn(step[i - 1], v, asked, cuts)]
  BY CopyingExists
<1> HIDE DEF step
<1>3. step[0] = Begun(s0) /\ \A i \in Nat : step[i + 1] = CopyOn(step[i], v, asked, cuts)
  BY <1>2
<1> QED BY <1>1, <1>3

---------------------------------------------------------------------------
(* One Read of the decoding reader. *)

Decoder == [src : Nat, buffer : Seq(Nat), inChunk : BOOLEAN, done : BOOLEAN,
            out : Seq(Nat), ended : BOOLEAN]

(* The pieces of a body from the one after number k. *)
From(s, k) == \A i \in 1 .. Len(s) : s[i] = k + i

(* Pieces that follow on pieces follow on each other. *)
LEMMA FromAppend ==
    ASSUME NEW q \in Nat, NEW s \in Seq(Nat), NEW t \in Seq(Nat), From(s, q), From(t, q + Len(s))
    PROVE  s \o t \in Seq(Nat) /\ Len(s \o t) = Len(s) + Len(t) /\ From(s \o t, q)
<1>1. s \o t \in Seq(Nat) /\ Len(s \o t) = Len(s) + Len(t) /\ Len(s) \in Nat /\ Len(t) \in Nat
  OBVIOUS
<1>2. ASSUME NEW i \in 1 .. Len(s) + Len(t) PROVE (s \o t)[i] = q + i
  <2>1. CASE i <= Len(s)
    BY <1>1, <1>2, <2>1 DEF From
  <2>2. CASE i > Len(s)
    <3>1. i - Len(s) \in 1 .. Len(t) /\ (s \o t)[i] = t[i - Len(s)]
      BY <1>1, <1>2, <2>2
    <3> QED BY <1>1, <1>2, <3>1 DEF From
  <2> QED BY <1>1, <1>2, <2>1, <2>2
<1> QED BY <1>1, <1>2 DEF From

(* A part of them. *)
LEMMA FromPart ==
    ASSUME NEW q \in Nat, NEW s \in Seq(Nat), From(s, q),
           NEW a \in Nat, NEW b \in Nat, a <= b, b <= Len(s)
    PROVE  /\ SubSeq(s, a + 1, b) \in Seq(Nat) /\ Len(SubSeq(s, a + 1, b)) = b - a
           /\ From(SubSeq(s, a + 1, b), q + a)
<1>1. Len(s) \in Nat /\ \A i \in 1 .. Len(s) : s[i] \in Nat
  OBVIOUS
<1> DEFINE p == SubSeq(s, a + 1, b)
<1>2. /\ p \in Seq(Nat) /\ Len(p) = b - a
      /\ \A i \in 1 .. b - a : p[i] = s[a + i]
  <2>1. p = [i \in 1 .. b - a |-> s[a + i]]
    <3>1. (b - (a + 1)) + 1 = b - a /\ \A i \in Int : (i + (a + 1)) - 1 = a + i
      OBVIOUS
    <3>2. p = [i \in 1 .. b - a |-> s[(a + 1) + i - 1]]
      BY <1>1, <3>1
    <3> QED BY <3>2
  <2>2. \A i \in 1 .. b - a : a + i \in 1 .. Len(s)
    BY <1>1
  <2> HIDE DEF p
  <2> QED BY <1>1, <2>1, <2>2
<1> HIDE DEF p
<1>3. ASSUME NEW i \in 1 .. Len(p) PROVE p[i] = (q + a) + i
  <2>1. i \in 1 .. b - a /\ a + i \in 1 .. Len(s)
    BY <1>1, <1>2, <1>3
  <2> QED BY <1>2, <2>1 DEF From
<1> QED BY <1>2, <1>3 DEF From, p

(* What arrives is the next pieces, one at least. *)
LEMMA ArrivingIs ==
    ASSUME NEW v, v.size \in Nat, NEW cuts \in Cuts(v), NEW s, s.src \in Nat, s.src < v.size
    PROVE  LET raw == Arriving(s, v, cuts) IN
           /\ raw \in Seq(Nat) /\ Len(raw) > 0 /\ s.src + Len(raw) <= v.size
           /\ From(raw, s.src)
<1> DEFINE ends == {n \in cuts \cup {v.size} : n > s.src}
           end == CHOOSE n \in ends : \A m \in ends : n <= m
           raw == Arriving(s, v, cuts)
<1>1. cuts \subseteq Nat /\ \A n \in cuts : n <= v.size
  BY DEF Cuts
<1>2. ends \subseteq Nat /\ v.size \in ends
  BY <1>1
<1>3. end \in ends
  <2>1. \E n \in ends : \A m \in ends : n <= m
    <3> HIDE DEF ends
    <3> QED BY <1>2, LeastNumber
  <2> HIDE DEF ends
  <2> QED BY <2>1
<1>4. end \in Nat /\ end > s.src /\ end <= v.size
  <2> HIDE DEF end
  <2>1. end \in cuts \cup {v.size} /\ end > s.src
    BY <1>3
  <2> QED BY <1>1, <2>1
<1>5. raw = [i \in 1 .. end - s.src |-> s.src + i]
  BY DEF Arriving
<1> HIDE DEF end, ends
<1>6. PICK n \in Nat : n = end - s.src /\ n > 0 /\ s.src + n <= v.size
  BY <1>4
<1>7. raw = [i \in 1 .. n |-> s.src + i]
  BY <1>5, <1>6
<1> HIDE DEF raw
<1>8. raw \in Seq(Nat) /\ Len(raw) = n /\ \A i \in 1 .. n : raw[i] = s.src + i
  BY <1>7
<1> QED BY <1>6, <1>8 DEF From, raw

(* The caller gets pieces that follow those it has. *)
Handed(s, t, q, data, room) ==
    /\ t \in Decoder /\ From(t.out, q) /\ From(t.buffer, q + Len(t.out))
    /\ Len(t.out) + Len(t.buffer) = Len(s.out) + Len(data)
    /\ Len(t.out) >= Len(s.out) /\ (Len(data) > 0 => Len(t.out) > Len(s.out))
    /\ Len(t.out) <= Len(s.out) + room
    /\ room >= Len(data) => t.buffer = <<>>
    /\ t.src = s.src /\ (t.done <=> s.done) /\ (t.ended <=> s.ended)

(* What Hand gives out, and what it keeps for the next Read. *)
LEMMA HandIs ==
    ASSUME NEW s \in Decoder, NEW q \in Nat, From(s.out, q),
           NEW data \in Seq(Nat), NEW k \in Nat, k = q + Len(s.out), From(data, k),
           NEW room \in Nat, room > 0,
           NEW t, t = Hand(s, data, room)
    PROVE  Handed(s, t, q, data, room)
<1> DEFINE n == Smaller(room, Len(data))
           now == SubSeq(data, 1, n)
           rest == SubSeq(data, n + 1, Len(data))
<1>1. Len(data) \in Nat /\ s.out \in Seq(Nat) /\ Len(s.out) \in Nat /\ q + Len(s.out) \in Nat
  BY DEF Decoder
<1>2. /\ n \in Nat /\ n <= room /\ n <= Len(data) /\ (Len(data) > 0 => n > 0)
      /\ room >= Len(data) => n = Len(data)
  BY <1>1 DEF Smaller
<1>3. t = [s EXCEPT !.out = s.out \o now, !.buffer = rest]
  BY DEF Hand
<1> HIDE DEF n
<1>4. now \in Seq(Nat) /\ Len(now) = n /\ From(now, q + Len(s.out))
  <2>2. PICK a \in Nat : a = 0
    OBVIOUS
  <2>3. From(data, k) /\ a <= n
    BY <1>2, <2>2
  <2>4. /\ SubSeq(data, a + 1, n) \in Seq(Nat) /\ Len(SubSeq(data, a + 1, n)) = n - a
        /\ From(SubSeq(data, a + 1, n), k + a)
    <3>1. n \in Nat /\ n <= Len(data)
      BY <1>2
    <3> QED BY ONLY data \in Seq(Nat), k \in Nat, a \in Nat, <2>3, <3>1, FromPart
  <2>5. a + 1 = 1 /\ n - a = n /\ k + a = k
    BY <1>2, <2>2
  <2> QED BY <2>4, <2>5
<1>5. rest \in Seq(Nat) /\ Len(rest) = Len(data) - n /\ From(rest, (q + Len(s.out)) + n)
  BY <1>1, <1>2, FromPart
<1> HIDE DEF now, rest
<1>6. s.out \o now \in Seq(Nat) /\ Len(s.out \o now) = Len(s.out) + n /\ From(s.out \o now, q)
  BY <1>1, <1>4, FromAppend
<1>7. /\ t \in Decoder /\ t.out = s.out \o now /\ t.buffer = rest
      /\ t.src = s.src /\ (t.done <=> s.done) /\ (t.ended <=> s.ended)
  BY <1>3, <1>5, <1>6 DEF Decoder
<1>8. q + Len(t.out) = (q + Len(s.out)) + n
  <2>1. Len(t.out) = Len(s.out) + n
    BY <1>6, <1>7
  <2>2. PICK a \in Nat : a = Len(s.out)
    BY <1>1
  <2> QED BY <1>2, <2>1, <2>2
<1>9. room >= Len(data) => t.buffer = <<>>
  <2> SUFFICES ASSUME room >= Len(data) PROVE rest = <<>>
    BY <1>7
  <2>1. Len(rest) = 0
    BY <1>1, <1>2, <1>5
  <2> QED BY <1>5, <2>1, EmptySeq
<1>10. /\ Len(t.out) + Len(t.buffer) = Len(s.out) + Len(data)
       /\ Len(t.out) >= Len(s.out) /\ (Len(data) > 0 => Len(t.out) > Len(s.out))
       /\ Len(t.out) <= Len(s.out) + room
  <2>1. Len(t.out) = Len(s.out) + n /\ Len(t.buffer) = Len(data) - n
    BY <1>5, <1>6, <1>7
  <2> QED BY <1>1, <1>2, <2>1
<1> QED BY <1>5, <1>6, <1>7, <1>8, <1>9, <1>10 DEF Handed

(* What the read of the connection changes before pieces are handed out. *)
Taken(s, src, inChunk, marked) ==
    [s EXCEPT !.src = src, !.inChunk = inChunk, !.done = marked]

(* The first of some pieces is one of them. *)
LEMMA FirstIs ==
    ASSUME NEW T, T \subseteq Nat, T # {}
    PROVE  First(T) \in T /\ \A j \in T : First(T) <= j
  BY LeastNumber DEF First

(* Where the pieces of a read begin for the caller: where the connection    *)
(* was, or after a line with a signature.                                   *)
Follows(s, v, k, inChunk) ==
    \/ k = s.src /\ (inChunk <=> s.inChunk)
    \/ ~s.inChunk /\ inChunk /\ s.src < k /\ SignatureLine(v, s.src, k)

(* What is recognised as a header is a line with a signature. *)
LEMMA HeaderIs ==
    ASSUME NEW v, IsBody(v), NEW s \in Decoder, NEW raw \in Seq(Nat), From(raw, s.src),
           HasHeader(s, v, raw)
    PROVE  \E n \in Nat : /\ n > 0 /\ n <= Len(raw) /\ ~s.inChunk
                          /\ SignatureLine(v, s.src, s.src + n)
                          /\ WithoutHeader(s, v, raw) = SubSeq(raw, n + 1, Len(raw))
<1> DEFINE sigs == Signatures(v, raw)
           newlines == Newlines(v, raw)
<1>1. PICK z \in Nat, l \in Nat : z = s.src /\ l = Len(raw)
  BY DEF Decoder
<1>2. /\ sigs = {i \in 1 .. l : raw[i] \in v.sigs}
      /\ newlines = {i \in 1 .. l : raw[i] \in v.breaks}
  BY <1>1 DEF Signatures, Newlines
<1>3. /\ ~s.inChunk /\ sigs # {} /\ First(sigs) <= Near
      /\ newlines # {} /\ First(newlines) > First(sigs)
  BY DEF HasHeader
<1>4. WithoutHeader(s, v, raw) = SubSeq(raw, First(newlines) + 1, Len(raw))
  BY DEF WithoutHeader
<1> HIDE DEF sigs, newlines
<1>5. sigs \subseteq Nat /\ newlines \subseteq Nat
  BY <1>2
<1>6. PICK n \in Nat, f \in Nat :
          /\ n = First(newlines) /\ n \in newlines /\ \A j \in newlines : n <= j
          /\ f = First(sigs) /\ f \in sigs
  BY <1>3, <1>5, FirstIs
<1>7. n \in 1 .. l /\ f \in 1 .. l /\ f <= Near /\ f < n
  BY <1>2, <1>3, <1>6
<1>8. \A i \in 1 .. l : raw[i] = z + i
  BY <1>1 DEF From
<1>9. z + n \in v.breaks /\ z + f \in v.sigs
  BY <1>2, <1>6, <1>7, <1>8
<1>10. ASSUME NEW i \in v.breaks PROVE i <= z \/ i >= z + n
  <2>1. i \in Nat
    BY DEF IsBody
  <2> SUFFICES ASSUME i > z, i < z + n PROVE FALSE
    BY <2>1
  <2>2. i - z \in 1 .. l /\ z + (i - z) = i /\ i - z < n
    BY <1>7, <2>1
  <2>3. i - z \in newlines
    BY <1>2, <1>8, <2>2
  <2> QED BY <1>6, <2>2, <2>3
<1>11. z + f > z /\ z + f < z + n /\ z + f <= z + Near
  BY <1>7 DEF Near
<1>12. SignatureLine(v, z, z + n)
  BY <1>9, <1>10, <1>11 DEF SignatureLine
<1>13. n > 0 /\ n <= Len(raw)
  BY <1>1, <1>7
<1>14. SignatureLine(v, s.src, s.src + n)
  BY <1>1, <1>12
<1>15. WithoutHeader(s, v, raw) = SubSeq(raw, n + 1, Len(raw))
  BY <1>4, <1>6
<1> QED BY <1>3, <1>13, <1>14, <1>15

(* A read of the connection: its pieces follow on what the caller has, or   *)
(* begin after a header; a marker at their end is not among them.           *)
LEMMA ReadMoreIs ==
    ASSUME NEW v, IsBody(v), NEW cuts \in Cuts(v), NEW s \in Decoder, s.src < v.size, NEW room,
           NEW t, t = ReadMore(s, v, room, cuts)
    PROVE  \E src \in Nat, k \in Nat, data \in Seq(Nat), inChunk \in BOOLEAN, marked \in BOOLEAN :
              /\ t = Hand(Taken(s, src, inChunk, marked), data, room)
              /\ src > s.src /\ src <= v.size
              /\ Follows(s, v, k, inChunk) /\ k <= src
              /\ From(data, k)
              /\ ~marked => k + Len(data) = src
              /\ marked => v.mark > 0 /\ k + Len(data) = v.mark - MarkerLen
<1> DEFINE raw == Arriving(s, v, cuts)
           has == HasHeader(s, v, raw)
           headless == WithoutHeader(s, v, raw)
           src == s.src + Len(raw)
           data == WithoutMarker(v, headless)
           marked == HasMarker(v, headless)
           inChunk == s.inChunk \/ has
<1>1. s.src \in Nat /\ s.inChunk \in BOOLEAN /\ v.size \in Nat /\ v.mark \in Nat
  BY DEF Decoder, IsBody, MarkerLen
<1>2. raw \in Seq(Nat) /\ Len(raw) > 0 /\ src <= v.size /\ From(raw, s.src)
  BY <1>1, ArrivingIs
<1>3. t = Hand(Taken(s, src, inChunk, marked), data, room)
  BY DEF ReadMore, Taken
<1> HIDE DEF raw
<1>4. src \in Nat /\ src > s.src
  BY <1>1, <1>2
<1>5. inChunk \in BOOLEAN /\ marked \in BOOLEAN
  BY <1>1 DEF HasMarker, HasHeader
<1>6. PICK k \in Nat : /\ Follows(s, v, k, inChunk) /\ k <= src
                       /\ headless \in Seq(Nat) /\ From(headless, k) /\ k + Len(headless) = src
  <2>1. CASE has
    <3>1. PICK n \in Nat : /\ n > 0 /\ n <= Len(raw) /\ ~s.inChunk
                           /\ SignatureLine(v, s.src, s.src + n)
                           /\ headless = SubSeq(raw, n + 1, Len(raw))
      BY <1>2, <2>1, HeaderIs
    <3>2. PICK z \in Nat, l \in Nat, k \in Nat : z = s.src /\ l = Len(raw) /\ k = z + n
      BY <1>1, <1>2
    <3>3. From(raw, z) /\ n <= l /\ l <= Len(raw)
      BY <1>2, <3>1, <3>2
    <3>4. /\ SubSeq(raw, n + 1, l) \in Seq(Nat) /\ Len(SubSeq(raw, n + 1, l)) = l - n
          /\ From(SubSeq(raw, n + 1, l), z + n)
      BY <1>2, <3>3, FromPart
    <3> HIDE DEF headless
    <3>5. headless \in Seq(Nat) /\ From(headless, k) /\ Len(headless) = l - n
      BY <3>1, <3>2, <3>4
    <3>6. k + Len(headless) = src /\ k <= src /\ s.src < k
      BY <3>1, <3>2, <3>3, <3>5
    <3>7. Follows(s, v, k, inChunk)
      BY <2>1, <3>1, <3>2, <3>6 DEF Follows
    <3> QED BY <3>5, <3>6, <3>7
  <2>2. CASE ~has
    <3>1. headless = raw
      BY <2>2 DEF WithoutHeader
    <3>2. Follows(s, v, s.src, inChunk)
      BY <2>2 DEF Follows
    <3> QED BY <1>1, <1>2, <1>4, <3>1, <3>2
  <2> QED BY <2>1, <2>2
<1> HIDE DEF headless, src, has
<1>7. /\ data \in Seq(Nat) /\ From(data, k)
      /\ ~marked => k + Len(data) = src
      /\ marked => v.mark > 0 /\ k + Len(data) = v.mark - MarkerLen
  <2>1. CASE marked
    <3>1. v.mark > 0 /\ Len(headless) >= 2 /\ headless[Len(headless)] = v.mark
      BY <2>1 DEF HasMarker, MarkerLen
    <3>2. PICK n \in Nat : n = Len(headless) /\ n >= 2
      BY <1>6, <3>1
    <3>3. v.mark = k + n
      <4>1. n \in 1 .. Len(headless)
        BY <3>2
      <4> QED BY <1>6, <3>1, <3>2, <4>1 DEF From
    <3>4. PICK z \in Nat, b \in Nat : z = 0 /\ b = n - 2
      BY <3>2
    <3>5. z <= b /\ b <= Len(headless)
      BY <3>2, <3>4
    <3>6. /\ SubSeq(headless, z + 1, b) \in Seq(Nat) /\ Len(SubSeq(headless, z + 1, b)) = b - z
          /\ From(SubSeq(headless, z + 1, b), k + z)
      BY <1>6, <3>5, FromPart
    <3>7. data = SubSeq(headless, z + 1, b)
      <4>1. data = SubSeq(headless, 1, Len(headless) - 2)
        BY <2>1 DEF WithoutMarker, MarkerLen
      <4>2. z + 1 = 1 /\ b = Len(headless) - 2
        BY <3>2, <3>4
      <4> QED BY <4>1, <4>2
    <3> HIDE DEF data
    <3>8. k + z = k /\ b - z = b /\ k + b = (k + n) - 2
      BY <3>2, <3>4
    <3> QED BY <2>1, <3>1, <3>3, <3>6, <3>7, <3>8 DEF MarkerLen
  <2>2. CASE ~marked
    <3>1. data = headless
      BY <2>2 DEF WithoutMarker
    <3> QED BY <1>6, <2>2, <3>1
  <2> QED BY <2>1, <2>2
<1> HIDE DEF data, marked, inChunk
<1>8. src <= v.size
  BY <1>2 DEF src
<1> QED BY <1>3, <1>4, <1>5, <1>6, <1>7, <1>8

---------------------------------------------------------------------------
(* The whole body, through the decoding reader. *)

(* A copy begins with the reader as it is. *)
LEMMA BegunIs ==
    ASSUME NEW s \in Decoder, NEW b, b = Begun(s)
    PROVE  /\ b \in Decoder /\ b.src = s.src /\ b.buffer = s.buffer /\ b.out = <<>>
           /\ (b.done <=> s.done) /\ (b.ended <=> s.ended)
<1>1. <<>> \in Seq(Nat)
  OBVIOUS
<1> QED BY <1>1 DEF Begun, Decoder

Lasts(v) == {v.size} \cup (IF v.mark > 0 THEN {v.mark - MarkerLen} ELSE {})

(* The pieces of a body without those after number a, up to number b. *)
Spliced(out, a, b) == \A i \in 1 .. Len(out) : out[i] = IF i <= a THEN i ELSE i + (b - a)

(* What a body's caller has, of the pieces up to number until. *)
WithGap(out, v, a, b, until) ==
    /\ a <= b /\ b <= v.size /\ a <= Len(out) /\ (a = b \/ SignatureLine(v, a, b))
    /\ Spliced(out, a, b) /\ Len(out) + (b - a) = until

(* After i Reads: the caller has all that was taken from the connection,    *)
(* but the framing, and each Read has taken a piece at least.               *)
Decoding(s, v, i) ==
    /\ s \in Decoder /\ s.src <= v.size /\ s.buffer = <<>>
    /\ \E a, b \in Nat :
          /\ ~s.inChunk => a = 0 /\ b = 0
          /\ ~s.done => WithGap(s.out, v, a, b, s.src)
          /\ s.done => v.mark > 0 /\ WithGap(s.out, v, a, b, v.mark - MarkerLen)
    /\ s.ended => s.done \/ s.src = v.size
    /\ s.ended \/ (i <= v.size /\ (s.done \/ s.src >= i))

(* A body's marker lies within it. *)
LEMMA BodyFacts ==
    ASSUME NEW v, IsBody(v)
    PROVE  /\ v.size \in Nat /\ v.mark \in Nat /\ v.mark <= v.size
           /\ v.mark > 0 => v.mark - MarkerLen \in Nat /\ v.mark - MarkerLen <= v.size
  BY DEF IsBody, MarkerLen

(* A Read that finds nothing more. *)
LEMMA EndIs ==
    ASSUME NEW s \in Decoder, NEW t, t = [s EXCEPT !.ended = TRUE]
    PROVE  /\ t \in Decoder /\ t.ended /\ t.src = s.src /\ t.buffer = s.buffer
           /\ (t.done <=> s.done) /\ t.out = s.out /\ (t.inChunk <=> s.inChunk)
  BY DEF Decoder

HandedAll(s, t, data) ==
    /\ t \in Decoder /\ t.out = s.out \o data /\ t.buffer = <<>> /\ t.src = s.src
    /\ (t.done <=> s.done) /\ (t.ended <=> s.ended) /\ (t.inChunk <=> s.inChunk)

(* Hand gives all of data to a caller that has room for it. *)
LEMMA HandAll ==
    ASSUME NEW s \in Decoder, NEW data \in Seq(Nat), NEW room \in Nat, room >= Len(data),
           NEW t, t = Hand(s, data, room)
    PROVE  HandedAll(s, t, data)
<1> DEFINE now == SubSeq(data, 1, Len(data))
           rest == SubSeq(data, Len(data) + 1, Len(data))
<1>1. Len(data) \in Nat /\ s.out \in Seq(Nat)
  BY DEF Decoder
<1>2. Smaller(room, Len(data)) = Len(data)
  BY <1>1 DEF Smaller
<1>3. t = [s EXCEPT !.out = s.out \o now, !.buffer = rest]
  BY <1>2 DEF Hand
<1>4. now = data
  BY <1>1
<1>5. rest = <<>>
  <2>1. rest \in Seq(Nat) /\ Len(rest) = 0
    BY <1>1
  <2> QED BY <2>1, EmptySeq
<1> HIDE DEF now, rest
<1>6. s.out \o data \in Seq(Nat) /\ <<>> \in Seq(Nat)
  BY <1>1
<1>7. t = [s EXCEPT !.out = s.out \o data, !.buffer = <<>>]
  BY <1>3, <1>4, <1>5
<1> QED BY <1>6, <1>7 DEF Decoder, HandedAll

(* Pieces that follow on those a caller has. *)
LEMMA SplicedAppend ==
    ASSUME NEW a \in Nat, NEW b \in Nat, a <= b, NEW s \in Seq(Nat), NEW t \in Seq(Nat),
           NEW k \in Nat, a <= Len(s), Len(s) + (b - a) = k, Spliced(s, a, b), From(t, k)
    PROVE  Spliced(s \o t, a, b) /\ Len(s \o t) = Len(s) + Len(t)
<1>1. s \o t \in Seq(Nat) /\ Len(s \o t) = Len(s) + Len(t) /\ Len(s) \in Nat /\ Len(t) \in Nat
  OBVIOUS
<1>2. ASSUME NEW i \in 1 .. Len(s) + Len(t)
      PROVE  (s \o t)[i] = IF i <= a THEN i ELSE i + (b - a)
  <2>1. CASE i <= Len(s)
    BY <1>1, <1>2, <2>1 DEF Spliced
  <2>2. CASE i > Len(s)
    <3>1. i - Len(s) \in 1 .. Len(t) /\ (s \o t)[i] = t[i - Len(s)]
      BY <1>1, <1>2, <2>2
    <3>2. t[i - Len(s)] = k + (i - Len(s))
      BY <3>1 DEF From
    <3>3. PICK l \in Nat : l = Len(s)
      BY <1>1
    <3>4. k + (i - l) = i + (b - a) /\ ~(i <= a)
      BY <2>2, <3>3
    <3> QED BY <3>1, <3>2, <3>3, <3>4
  <2> QED BY <1>1, <1>2, <2>1, <2>2
<1> QED BY <1>1, <1>2 DEF Spliced

(* One more Read of a whole body keeps to this. *)
LEMMA DecodingStep ==
    ASSUME NEW v, IsBody(v), NEW cuts \in Cuts(v), NEW s, NEW i \in Nat, Decoding(s, v, i)
    PROVE  Decoding(CopyOn(s, v, v.size + 1, cuts), v, i + 1)
<1> DEFINE t == CopyOn(s, v, v.size + 1, cuts)
<1>1. /\ v.size \in Nat /\ v.mark \in Nat /\ v.mark <= v.size
      /\ v.mark > 0 => v.mark - MarkerLen \in Nat /\ v.mark - MarkerLen <= v.size
  BY BodyFacts
<1>2. /\ s \in Decoder /\ s.src \in Nat /\ s.out \in Seq(Nat) /\ Len(s.out) \in Nat
      /\ s.done \in BOOLEAN /\ s.ended \in BOOLEAN /\ s.src <= v.size /\ s.buffer = <<>>
      /\ s.inChunk \in BOOLEAN
  BY DEF Decoding, Decoder
<1>3. PICK a \in Nat, b \in Nat :
          /\ ~s.inChunk => a = 0 /\ b = 0
          /\ ~s.done => WithGap(s.out, v, a, b, s.src)
          /\ s.done => v.mark > 0 /\ WithGap(s.out, v, a, b, v.mark - MarkerLen)
  BY DEF Decoding
<1>4. a <= b /\ Len(s.out) + (b - a) <= v.size
  <2>1. CASE s.done
    BY <1>1, <1>3, <2>1 DEF WithGap
  <2>2. CASE ~s.done
    BY <1>2, <1>3, <2>2 DEF WithGap
  <2> QED BY <2>1, <2>2
<1>5. Len(s.out) # v.size + 1 /\ (v.size + 1) - Len(s.out) \in Nat \ {0}
  BY <1>1, <1>2, <1>4
<1>6. CASE s.ended
  <2>1. t = s
    BY <1>6 DEF CopyOn
  <2> HIDE DEF t
  <2> QED BY <1>6, <2>1 DEF Decoding, t
<1>7. CASE ~s.ended /\ (s.done \/ s.src = v.size)
  <2>1. t = [s EXCEPT !.ended = TRUE]
    BY <1>2, <1>5, <1>7 DEF CopyOn, Read
  <2> HIDE DEF t
  <2>2. /\ t \in Decoder /\ t.ended /\ t.src = s.src /\ t.buffer = s.buffer
        /\ (t.done <=> s.done) /\ t.out = s.out /\ (t.inChunk <=> s.inChunk)
    BY <1>2, <2>1, EndIs
  <2> QED BY <1>2, <1>3, <1>7, <2>2 DEF Decoding, t
<1>8. CASE ~s.ended /\ ~s.done /\ s.src # v.size
  <2>1. s.src < v.size /\ i <= s.src
    BY <1>1, <1>2, <1>8 DEF Decoding
  <2>2. PICK room \in Nat : room > 0 /\ room = (v.size + 1) - Len(s.out)
    BY <1>5
  <2>3. t = ReadMore(s, v, room, cuts)
    <3>1. t = Read(s, v, room, cuts)
      <4>1. ~(s.ended \/ Len(s.out) = v.size + 1)
        BY <1>5, <1>8
      <4>2. t = Read(s, v, (v.size + 1) - Len(s.out), cuts)
        BY <4>1 DEF CopyOn
      <4> QED BY <2>2, <4>2
    <3> QED BY <1>2, <1>8, <3>1 DEF Read
  <2> HIDE DEF t
  <2>4. PICK src \in Nat, k \in Nat, data \in Seq(Nat), inChunk \in BOOLEAN, marked \in BOOLEAN :
              /\ t = Hand(Taken(s, src, inChunk, marked), data, room)
              /\ src > s.src /\ src <= v.size
              /\ Follows(s, v, k, inChunk) /\ k <= src
              /\ From(data, k)
              /\ ~marked => k + Len(data) = src
              /\ marked => v.mark > 0 /\ k + Len(data) = v.mark - MarkerLen
    BY <1>2, <2>1, <2>3, ReadMoreIs
  <2>5. PICK u : u = Taken(s, src, inChunk, marked)
    OBVIOUS
  <2>6. /\ u \in Decoder /\ (u.ended <=> s.ended) /\ u.src = src /\ u.buffer = s.buffer
        /\ (u.done <=> marked) /\ u.out = s.out /\ (u.inChunk <=> inChunk)
    BY <1>2, <2>5 DEF Taken, Decoder
  <2>7. PICK l \in Nat, m \in Nat, z \in Nat : l = Len(s.out) /\ m = Len(data) /\ z = s.src
    BY <1>2
  <2>8. WithGap(s.out, v, a, b, z)
    BY <1>3, <1>8, <2>7
  <2>9. PICK c \in Nat, d \in Nat : /\ ~inChunk => c = 0 /\ d = 0
                                    /\ WithGap(s.out, v, c, d, k)
    <3>1. CASE k = s.src /\ (inChunk <=> s.inChunk)
      BY <1>3, <2>7, <2>8, <3>1
    <3>2. CASE ~s.inChunk /\ inChunk /\ s.src < k /\ SignatureLine(v, s.src, k)
      <4>1. a = 0 /\ b = 0
        BY <1>3, <3>2
      <4>2. l = z /\ \A j \in 1 .. Len(s.out) : s.out[j] = j
        BY <2>7, <2>8, <4>1 DEF WithGap, Spliced
      <4>3. z <= k /\ k <= v.size /\ l + (k - z) = k
        BY <1>1, <2>4, <2>7, <3>2, <4>2
      <4>4. Spliced(s.out, z, k)
        BY <2>7, <4>2 DEF Spliced
      <4>5. WithGap(s.out, v, z, k, k)
        BY <2>7, <3>2, <4>2, <4>3, <4>4 DEF WithGap
      <4> QED BY <3>2, <4>5
    <3> QED BY <2>4, <3>1, <3>2 DEF Follows
  <2>10. /\ c <= d /\ d <= v.size /\ c <= l /\ (c = d \/ SignatureLine(v, c, d))
         /\ Spliced(s.out, c, d) /\ l + (d - c) = k
    BY <2>7, <2>9 DEF WithGap
  <2>11. k + m <= v.size
    <3>1. CASE marked
      BY <1>1, <2>4, <2>7, <3>1
    <3>2. CASE ~marked
      BY <1>1, <2>4, <2>7, <3>2
    <3> QED BY <3>1, <3>2
  <2>12. room >= Len(data)
    <3>1. l + m <= v.size
      BY <1>1, <2>10, <2>11
    <3> QED BY <1>1, <2>2, <2>7, <3>1
  <2>13. /\ t \in Decoder /\ t.out = s.out \o data /\ t.buffer = <<>> /\ t.src = src
         /\ (t.done <=> marked) /\ (t.ended <=> s.ended) /\ (t.inChunk <=> inChunk)
    <3>1. t = Hand(u, data, room)
      BY <2>4, <2>5
    <3>2. HandedAll(u, t, data)
      <4>1. u \in Decoder /\ room >= Len(data)
        BY <2>6, <2>12
      <4> QED BY ONLY <3>1, <4>1, data \in Seq(Nat), room \in Nat, HandAll, Zenon
    <3> QED BY <2>6, <3>2 DEF HandedAll
  <2>14. Spliced(t.out, c, d) /\ Len(t.out) = l + m
    <3>1. PICK e \in Seq(Nat) : e = s.out
      BY <1>2
    <3>2. /\ From(data, k) /\ c <= d /\ c <= Len(e) /\ Len(e) + (d - c) = k
          /\ Spliced(e, c, d)
      BY <2>4, <2>7, <2>10, <3>1
    <3>3. Spliced(e \o data, c, d) /\ Len(e \o data) = Len(e) + Len(data)
      BY ONLY <3>2, c \in Nat, d \in Nat, k \in Nat, e \in Seq(Nat), data \in Seq(Nat),
              SplicedAppend
    <3> QED BY <2>7, <2>13, <3>1, <3>3
  <2>15. ASSUME NEW until, k + m = until PROVE WithGap(t.out, v, c, d, until)
    <3>1. (l + m) + (d - c) = until /\ c <= l + m
      BY <2>10, <2>15
    <3> QED BY <2>10, <2>14, <3>1 DEF WithGap
  <2>16. ~t.done => WithGap(t.out, v, c, d, t.src)
    BY <2>4, <2>7, <2>13, <2>15
  <2>17. t.done => v.mark > 0 /\ WithGap(t.out, v, c, d, v.mark - MarkerLen)
    BY <2>4, <2>7, <2>13, <2>15
  <2>18. i + 1 <= v.size /\ t.src >= i + 1 /\ t.src <= v.size
    <3>1. z < v.size /\ i <= z /\ src > z /\ src <= v.size /\ t.src = src
      BY <2>1, <2>4, <2>7, <2>13
    <3> QED BY <1>1, <2>4, <3>1
  <2>19. ~t.ended /\ (~t.inChunk => c = 0 /\ d = 0)
    BY <1>8, <2>9, <2>13
  <2> QED BY <2>13, <2>16, <2>17, <2>18, <2>19 DEF Decoding, t
<1> QED BY <1>2, <1>6, <1>7, <1>8

(* So a copy of the whole body ends with all but the framing. *)
LEMMA DecodedBody ==
    ASSUME NEW v, IsBody(v), NEW cuts \in Cuts(v)
    PROVE  LET out == CopyN(Fresh, v, v.size + 1, cuts).out IN
           /\ out \in Seq(Nat)
           /\ \E a, b \in Nat, until \in Lasts(v) : WithGap(out, v, a, b, until)
<1> DEFINE copy == Copying(Fresh, v, v.size + 1, cuts)
           T == {i \in Nat : Decoding(copy[i], v, i)}
<1>1. v.size \in Nat
  BY BodyFacts
<1>2. /\ copy[0] = Begun(Fresh)
      /\ \A i \in Nat : copy[i + 1] = CopyOn(copy[i], v, v.size + 1, cuts)
  BY CopyingIs
<1>3. CopyN(Fresh, v, v.size + 1, cuts) = copy[2 * v.size + 2]
  BY DEF CopyN
<1> HIDE DEF copy
<1>4. 0 \in T
  <2>1. PICK s : s = Begun(Fresh)
    OBVIOUS
  <2>2. s \in Decoder /\ s.src = 0 /\ s.buffer = <<>> /\ s.out = <<>> /\ ~s.done /\ ~s.ended
    <3>1. s = [src |-> 0, buffer |-> <<>>, inChunk |-> FALSE, done |-> FALSE,
               out |-> <<>>, ended |-> FALSE]
      BY <2>1 DEF Begun, Fresh
    <3> QED BY <3>1 DEF Decoder
  <2>3. PICK z \in Nat : z = 0
    OBVIOUS
  <2>4. WithGap(s.out, v, z, z, s.src)
    <3>1. Len(s.out) = 0 /\ Spliced(s.out, z, z)
      BY <2>2, <2>3 DEF Spliced
    <3> QED BY <1>1, <2>2, <2>3, <3>1 DEF WithGap
  <2>5. Decoding(s, v, 0)
    BY <1>1, <2>2, <2>3, <2>4 DEF Decoding
  <2> QED BY <1>2, <2>1, <2>5
<1>5. ASSUME NEW i \in Nat, i \in T PROVE i + 1 \in T
  BY <1>2, <1>5, DecodingStep
<1>6. 2 * v.size + 2 \in T
  <2> HIDE DEF T
  <2>1. Nat \subseteq T
    BY <1>4, <1>5, Induction
  <2> QED BY <1>1, <2>1
<1>7. PICK s : s = copy[2 * v.size + 2] /\ Decoding(s, v, 2 * v.size + 2)
  BY <1>6
<1>8. s.ended /\ s.out \in Seq(Nat)
  <2>1. ~(2 * v.size + 2 <= v.size)
    BY <1>1
  <2> QED BY <1>7, <2>1 DEF Decoding, Decoder
<1>9. PICK a \in Nat, b \in Nat :
          /\ ~s.done => WithGap(s.out, v, a, b, s.src)
          /\ s.done => v.mark > 0 /\ WithGap(s.out, v, a, b, v.mark - MarkerLen)
  BY <1>7 DEF Decoding
<1>10. \E until \in Lasts(v) : WithGap(s.out, v, a, b, until)
  BY <1>7, <1>8, <1>9 DEF Decoding, Lasts
<1> QED BY <1>3, <1>7, <1>8, <1>10

---------------------------------------------------------------------------
(* A range of a plain body, through the decoding reader. *)

(* After i Reads of a copy of some pieces that began after piece q: what    *)
(* the caller has and what is buffered follow on each other, up to where    *)
(* the connection is; each Read has moved a piece at least.                 *)
Ranging(s, v, q, asked, i) ==
    /\ s \in Decoder /\ s.src <= v.size /\ ~s.done
    /\ From(s.out, q) /\ From(s.buffer, q + Len(s.out))
    /\ q + (Len(s.out) + Len(s.buffer)) = s.src /\ Len(s.out) <= asked
    /\ s.ended => s.buffer = <<>> /\ s.src = v.size
    /\ s.ended \/ Len(s.out) = asked \/ s.src + Len(s.out) >= i

(* One more Read of a range keeps to this. *)
LEMMA RangingStep ==
    ASSUME NEW v, IsBody(v), Plain(v), NEW cuts \in Cuts(v), NEW q \in Nat, NEW asked \in Nat,
           NEW s, NEW i \in Nat, Ranging(s, v, q, asked, i)
    PROVE  Ranging(CopyOn(s, v, asked, cuts), v, q, asked, i + 1)
<1> DEFINE t == CopyOn(s, v, asked, cuts)
<1>1. v.size \in Nat /\ v.mark = 0 /\ v.sigs = {}
  BY BodyFacts DEF Plain
<1>2. /\ s \in Decoder /\ s.src \in Nat /\ s.out \in Seq(Nat) /\ s.buffer \in Seq(Nat)
      /\ s.src <= v.size /\ ~s.done
  BY DEF Ranging, Decoder
<1>3. PICK a \in Nat, b \in Nat, src \in Nat : a = Len(s.out) /\ b = Len(s.buffer) /\ src = s.src
  BY <1>2
<1>4. q + (a + b) = src /\ a <= asked /\ src <= v.size
  BY <1>2, <1>3 DEF Ranging
<1>5. CASE s.ended \/ Len(s.out) = asked
  <2>1. t = s
    BY <1>5 DEF CopyOn
  <2> HIDE DEF t
  <2> QED BY <1>5, <2>1 DEF Ranging, t
<1>6. CASE ~(s.ended \/ Len(s.out) = asked)
  <2>1. PICK room \in Nat : room > 0 /\ room = asked - Len(s.out) /\ a + room = asked
    <3>1. a # asked
      BY <1>3, <1>6
    <3>2. asked - a \in Nat /\ asked - a > 0 /\ a + (asked - a) = asked
      BY <1>4, <3>1
    <3> QED BY <1>3, <3>2
  <2>2. t = Read(s, v, room, cuts)
    BY <1>6, <2>1 DEF CopyOn
  <2>3. src + a >= i
    BY <1>3, <1>6 DEF Ranging
  <2> HIDE DEF t
  <2>4. CASE s.buffer # <<>>
    <3>1. t = Hand(s, s.buffer, room)
      BY <1>2, <2>2, <2>4 DEF Read
    <3>2. b > 0
      <4>1. b # 0
        BY <1>2, <1>3, <2>4, EmptySeq
      <4> QED BY <4>1
    <3>3. PICK data \in Seq(Nat), k \in Nat : data = s.buffer /\ k = q + Len(s.out)
      BY <1>2, <1>3
    <3>4. t = Hand(s, data, room) /\ From(s.out, q) /\ From(data, k) /\ s \in Decoder
      BY <1>2, <3>1, <3>3 DEF Ranging
    <3>5. Handed(s, t, q, data, room)
      <4>1. room > 0 /\ k = q + Len(s.out)
        BY <2>1, <3>3
      <4> QED BY ONLY <3>4, <4>1, q \in Nat, k \in Nat, data \in Seq(Nat), room \in Nat, HandIs, Zenon
    <3>6. t \in Decoder /\ t.src = src /\ ~t.done /\ ~t.ended
      BY <1>2, <1>3, <1>6, <3>5 DEF Handed
    <3>7. PICK c \in Nat, d \in Nat : c = Len(t.out) /\ d = Len(t.buffer)
      BY <3>6 DEF Decoder
    <3>8. c + d = a + b /\ c > a /\ c <= a + room
      BY <1>3, <3>2, <3>3, <3>5, <3>7 DEF Handed
    <3>9. From(t.out, q) /\ From(t.buffer, q + Len(t.out))
      BY <3>5 DEF Handed
    <3>10. q + (c + d) = src /\ c <= asked /\ src + c >= i + 1
      BY <1>4, <2>1, <2>3, <3>8
    <3> QED BY <1>4, <3>6, <3>7, <3>9, <3>10 DEF Ranging, t
  <2>5. CASE s.buffer = <<>> /\ s.src = v.size
    <3>1. t = [s EXCEPT !.ended = TRUE]
      BY <1>2, <2>2, <2>5 DEF Read
    <3>2. /\ t \in Decoder /\ t.ended /\ t.src = s.src /\ t.buffer = s.buffer
          /\ (t.done <=> s.done) /\ t.out = s.out
      BY <1>2, <3>1, EndIs
    <3> QED BY <1>2, <2>5, <3>2 DEF Ranging, t
  <2>6. CASE s.buffer = <<>> /\ s.src # v.size
    <3>1. t = ReadMore(s, v, room, cuts)
      BY <1>2, <2>2, <2>6 DEF Read
    <3>2. s.src < v.size
      BY <1>1, <1>2, <2>6
    <3>3. PICK to \in Nat, k \in Nat, data \in Seq(Nat), inChunk \in BOOLEAN, marked \in BOOLEAN :
              /\ t = Hand(Taken(s, to, inChunk, marked), data, room)
              /\ to > s.src /\ to <= v.size
              /\ Follows(s, v, k, inChunk) /\ k <= to
              /\ From(data, k)
              /\ ~marked => k + Len(data) = to
              /\ marked => v.mark > 0 /\ k + Len(data) = v.mark - MarkerLen
      BY <1>2, <3>1, <3>2, ReadMoreIs
    <3>4. ~marked /\ k = src /\ k + Len(data) = to /\ Len(data) \in Nat
      <4>1. k = s.src
        BY <1>1, <3>3 DEF Follows, SignatureLine
      <4> QED BY <1>1, <1>3, <3>3, <4>1
    <3>5. PICK u : u = Taken(s, to, inChunk, marked)
      OBVIOUS
    <3>6. u \in Decoder /\ (u.ended <=> s.ended) /\ u.src = to /\ ~u.done /\ u.out = s.out
      BY <1>2, <3>4, <3>5 DEF Taken, Decoder
    <3>7. b = 0
      BY <1>3, <2>6
    <3>8. Handed(u, t, q, data, room)
      <4>1. /\ t = Hand(u, data, room) /\ From(u.out, q) /\ From(data, k) /\ room > 0
            /\ u \in Decoder
        BY <2>1, <3>3, <3>5, <3>6 DEF Ranging
      <4>2. k = q + Len(u.out)
        BY <1>3, <1>4, <3>4, <3>6, <3>7
      <4> QED BY ONLY <4>1, <4>2, q \in Nat, k \in Nat, data \in Seq(Nat), room \in Nat, HandIs, Zenon
    <3>9. t \in Decoder /\ t.src = to /\ ~t.done /\ ~t.ended
      BY <1>6, <3>6, <3>8 DEF Handed
    <3>10. PICK c \in Nat, d \in Nat, e \in Nat :
               c = Len(t.out) /\ d = Len(t.buffer) /\ e = Len(data)
      BY <3>4, <3>9 DEF Decoder
    <3>11. c + d = a + e /\ c >= a /\ c <= a + room
      BY <1>3, <3>6, <3>8, <3>10 DEF Handed
    <3>12. From(t.out, q) /\ From(t.buffer, q + Len(t.out))
      BY <3>8 DEF Handed
    <3>13. to > src /\ to <= v.size /\ src + e = to
      BY <1>3, <3>3, <3>4, <3>10
    <3>14. q + (c + d) = to /\ c <= asked /\ to + c >= i + 1
      BY <1>4, <2>1, <2>3, <3>7, <3>11, <3>13
    <3> QED BY <3>9, <3>10, <3>12, <3>13, <3>14 DEF Ranging, t
  <2> QED BY <2>4, <2>5, <2>6
<1> QED BY <1>5, <1>6

(* So a copy has as much as was wanted, or all there is. *)
AllCopied(t, v, q, asked) ==
    /\ Ranging(t, v, q, asked, 2 * v.size + 2)
    /\ Len(t.out) = asked \/ (Len(t.out) <= asked /\ q + Len(t.out) = v.size)

(* So a copy gets all it asked for, or all there is. *)
LEMMA RangeCopied ==
    ASSUME NEW v, IsBody(v), Plain(v), NEW cuts \in Cuts(v), NEW q \in Nat, NEW asked \in Nat,
           NEW s, Ranging(Begun(s), v, q, asked, 0),
           NEW t, t = CopyN(s, v, asked, cuts)
    PROVE  AllCopied(t, v, q, asked)
<1> DEFINE copy == Copying(s, v, asked, cuts)
           T == {i \in Nat : Ranging(copy[i], v, q, asked, i)}
<1>1. v.size \in Nat
  BY BodyFacts
<1>2. /\ copy[0] = Begun(s)
      /\ \A i \in Nat : copy[i + 1] = CopyOn(copy[i], v, asked, cuts)
  BY CopyingIs
<1>3. t = copy[2 * v.size + 2]
  BY DEF CopyN
<1> HIDE DEF copy
<1>4. 0 \in T
  BY <1>2
<1>5. ASSUME NEW i \in Nat, i \in T PROVE i + 1 \in T
  BY <1>2, <1>5, RangingStep
<1>6. 2 * v.size + 2 \in T
  <2> HIDE DEF T
  <2>1. Nat \subseteq T
    BY <1>4, <1>5, Induction
  <2> QED BY <1>1, <2>1
<1>7. Ranging(t, v, q, asked, 2 * v.size + 2)
  BY <1>3, <1>6
<1>8. PICK a \in Nat, b \in Nat, src \in Nat : a = Len(t.out) /\ b = Len(t.buffer) /\ src = t.src
  BY <1>7 DEF Ranging, Decoder
<1>9. q + (a + b) = src /\ a <= asked /\ src <= v.size
  BY <1>7, <1>8 DEF Ranging
<1>10. ~(src + a >= 2 * v.size + 2)
  BY <1>1, <1>9
<1>11. CASE t.ended
  <2>1. t.buffer = <<>> /\ src = v.size
    BY <1>7, <1>8, <1>11 DEF Ranging
  <2>2. b = 0
    BY <1>8, <2>1
  <2> QED BY <1>7, <1>8, <1>9, <2>1, <2>2 DEF AllCopied
<1>12. CASE ~t.ended
  <2>1. Len(t.out) = asked
    BY <1>7, <1>8, <1>10, <1>12 DEF Ranging
  <2> QED BY <1>7, <2>1 DEF AllCopied
<1> QED BY <1>7, <1>11, <1>12 DEF AllCopied

---------------------------------------------------------------------------
(* Bytes of a body. *)

(* Pieces that came out of the reader in order are the bytes asked for.     *)
LEMMA BytesAre ==
    ASSUME NEW v, v.size \in Nat, NEW first \in Nat, NEW out \in Seq(Nat), From(out, first),
           first + Len(out) <= v.size, NEW length \in Nat,
           Len(out) = length \/ (Len(out) <= length /\ first + Len(out) = v.size)
    PROVE  BytesOf(v, out) = Bytes(v, first, length)
<1> DEFINE n == IF first + length <= v.size THEN length ELSE v.size - first
<1>1. n = Len(out) /\ Len(out) \in Nat
  BY DEF n
<1>2. Bytes(v, first, length) = IF n <= 0 THEN <<>> ELSE [i \in 1 .. n |-> <<v.ver, first + i - 1>>]
  BY DEF Bytes
<1> HIDE DEF n
<1>3. BytesOf(v, out) = [i \in 1 .. n |-> <<v.ver, out[i] - 1>>]
  BY <1>1 DEF BytesOf
<1>4. CASE n = 0
  <2>1. out = <<>>
    BY <1>1, <1>4, EmptySeq
  <2>2. BytesOf(v, out) = <<>>
    BY <2>1 DEF BytesOf
  <2> QED BY <1>2, <1>4, <2>2
<1>5. CASE n # 0
  <2>1. \A i \in 1 .. n : out[i] - 1 = first + i - 1
    BY <1>1 DEF From
  <2>2. ~(n <= 0)
    BY <1>1, <1>5
  <2> QED BY <1>2, <1>3, <2>1, <2>2
<1> QED BY <1>4, <1>5

(* What Bytes returns, if anything. *)
LEMMA BytesHave ==
    ASSUME NEW v, v.size \in Nat, NEW first \in Nat, NEW length \in Nat
    PROVE  /\ Cardinality(DOMAIN Bytes(v, first, length)) <= length
           /\ \A i \in DOMAIN Bytes(v, first, length) :
                 Bytes(v, first, length)[i] = <<v.ver, first + i - 1>>
<1> DEFINE n == IF first + length <= v.size THEN length ELSE v.size - first
<1>1. n \in Int /\ n <= length
  OBVIOUS
<1>2. Bytes(v, first, length) = IF n <= 0 THEN <<>> ELSE [i \in 1 .. n |-> <<v.ver, first + i - 1>>]
  BY DEF Bytes
<1> HIDE DEF n
<1>3. CASE n <= 0
  <2>1. Bytes(v, first, length) = <<>>
    BY <1>2, <1>3
  <2>2. DOMAIN Bytes(v, first, length) = {}
    BY <2>1
  <2>3. Cardinality({}) = 0
    BY FS_EmptySet
  <2> QED BY <2>2, <2>3
<1>4. CASE ~(n <= 0)
  <2>1. Bytes(v, first, length) = [i \in 1 .. n |-> <<v.ver, first + i - 1>>]
    BY <1>2, <1>4
  <2>2. DOMAIN Bytes(v, first, length) = 1 .. n
    BY <2>1
  <2>3. Cardinality(1 .. n) = n
    <3>1. 1 \in Int /\ n \in Int /\ ~(1 > n) /\ (n - 1) + 1 = n
      BY <1>1, <1>4
    <3>2. Cardinality(1 .. n) = IF 1 > n THEN 0 ELSE n - 1 + 1
      BY <3>1, FS_Interval
    <3> QED BY <3>1, <3>2
  <2> QED BY <1>1, <2>1, <2>2, <2>3
<1> QED BY <1>3, <1>4

(* The bytes from one up to another, if there are any. *)
LEMMA BytesUpTo ==
    ASSUME NEW v, v.size \in Nat, NEW first \in Nat, NEW n \in Nat, first + n <= v.size
    PROVE  /\ Bytes(v, first, n) = [i \in 1 .. n |-> <<v.ver, first + i - 1>>]
           /\ Bytes(v, first, n) \in Seq({v.ver} \X Nat) /\ Len(Bytes(v, first, n)) = n
<1>1. Bytes(v, first, n) = IF n <= 0 THEN <<>> ELSE [i \in 1 .. n |-> <<v.ver, first + i - 1>>]
  BY DEF Bytes
<1> DEFINE f == [i \in 1 .. n |-> <<v.ver, first + i - 1>>]
<1>2. f \in Seq({v.ver} \X Nat) /\ Len(f) = n
  <2>1. ASSUME NEW i \in 1 .. n PROVE <<v.ver, first + i - 1>> \in {v.ver} \X Nat
    OBVIOUS
  <2> QED BY <2>1
<1>3. n = 0 => f = <<>>
  <2> HIDE DEF f
  <2> QED BY <1>2, EmptySeq
<1> HIDE DEF f
<1>4. Bytes(v, first, n) = f
  BY <1>1, <1>3 DEF f
<1> QED BY <1>2, <1>4 DEF f

(* Concatenation, element by element. *)
LEMMA ConcatIs ==
    ASSUME NEW S, NEW p \in Seq(S), NEW q \in Seq(S)
    PROVE  p \o q = [i \in 1 .. Len(p) + Len(q) |-> IF i <= Len(p) THEN p[i] ELSE q[i - Len(p)]]
<1> DEFINE n == Len(p) + Len(q)
           f == [i \in 1 .. n |-> IF i <= Len(p) THEN p[i] ELSE q[i - Len(p)]]
<1>1. Len(p) \in Nat /\ Len(q) \in Nat /\ n \in Nat
  OBVIOUS
<1>2. /\ p \o q \in Seq(S) /\ Len(p \o q) = n
      /\ \A i \in 1 .. n : (p \o q)[i] = IF i <= Len(p) THEN p[i] ELSE q[i - Len(p)]
  BY ConcatProperties
<1>3. f \in Seq(S) /\ Len(f) = n
  <2>1. ASSUME NEW i \in 1 .. n PROVE (IF i <= Len(p) THEN p[i] ELSE q[i - Len(p)]) \in S
    <3>1. CASE i <= Len(p)
      BY <1>1, <3>1
    <3>2. CASE ~(i <= Len(p))
      <4>1. i - Len(p) \in 1 .. Len(q)
        BY <1>1, <3>2
      <4> QED BY <3>2, <4>1
    <3> QED BY <3>1, <3>2
  <2> HIDE DEF n
  <2> QED BY <1>1, <2>1
<1>4. \A i \in 1 .. n : f[i] = (p \o q)[i]
  BY <1>2
<1> HIDE DEF f, n
<1>5. p \o q = f
  BY <1>1, <1>2, <1>3, <1>4, SeqEqual
<1> QED BY <1>5 DEF f, n

(* A GET through the decoding reader drops framing only. *)
LEMMA DecodedGet ==
    ASSUME NEW v, IsBody(v), NEW cuts \in Cuts(v), NEW body,
           body = BytesOf(v, CopyN(Fresh, v, v.size + 1, cuts).out)
    PROVE  AllButFraming(v, body) /\ (Plain(v) => body = Whole(v))
<1>1. PICK out : out = CopyN(Fresh, v, v.size + 1, cuts).out
  OBVIOUS
<1>2. out \in Seq(Nat) /\ \E a, b \in Nat, until \in Lasts(v) : WithGap(out, v, a, b, until)
  BY <1>1, DecodedBody
<1>3. PICK a \in Nat, b \in Nat, until \in Lasts(v) : WithGap(out, v, a, b, until)
  BY <1>2
<1>4. /\ v.size \in Nat /\ v.mark \in Nat
      /\ v.mark > 0 => v.mark - MarkerLen \in Nat /\ v.mark - MarkerLen <= v.size
  BY BodyFacts
<1>5. until \in Nat /\ until <= v.size
  BY <1>4 DEF Lasts
<1>6. PICK l \in Nat : l = Len(out)
  BY <1>2
<1>7. /\ a <= b /\ b <= v.size /\ a <= l /\ (a = b \/ SignatureLine(v, a, b))
      /\ Spliced(out, a, b) /\ l + (b - a) = until
  BY <1>3, <1>6 DEF WithGap
<1>8. PICK n \in Nat : n = until - b /\ a + n = l /\ b + n = until
  BY <1>5, <1>7
<1>9. body = [i \in 1 .. l |-> <<v.ver, out[i] - 1>>]
  <2>1. DOMAIN out = 1 .. l
    BY <1>2, <1>6
  <2> QED BY <1>1, <2>1 DEF BytesOf
<1>10. /\ Bytes(v, 0, a) = [i \in 1 .. a |-> <<v.ver, 0 + i - 1>>]
       /\ Bytes(v, 0, a) \in Seq({v.ver} \X Nat) /\ Len(Bytes(v, 0, a)) = a
  <2>1. PICK z \in Nat : z = 0
    OBVIOUS
  <2>2. z + a <= v.size
    BY <1>4, <1>7, <2>1
  <2> QED BY <1>4, <2>1, <2>2, BytesUpTo
<1>11. /\ Bytes(v, b, n) = [i \in 1 .. n |-> <<v.ver, b + i - 1>>]
       /\ Bytes(v, b, n) \in Seq({v.ver} \X Nat) /\ Len(Bytes(v, b, n)) = n
  <2>1. b + n <= v.size
    BY <1>5, <1>8
  <2> QED BY <1>4, <2>1, BytesUpTo
<1>12. PICK p \in Seq({v.ver} \X Nat), q \in Seq({v.ver} \X Nat) :
           p = Bytes(v, 0, a) /\ q = Bytes(v, b, n)
  BY <1>10, <1>11
<1>13. /\ Len(p) = a /\ Len(q) = n
       /\ \A i \in 1 .. a : p[i] = <<v.ver, i - 1>>
       /\ \A i \in 1 .. n : q[i] = <<v.ver, b + i - 1>>
  BY <1>10, <1>11, <1>12
<1>14. /\ p \o q = [i \in 1 .. l |-> IF i <= a THEN p[i] ELSE q[i - a]]
  <2>1. p \o q = [i \in 1 .. Len(p) + Len(q) |-> IF i <= Len(p) THEN p[i] ELSE q[i - Len(p)]]
    BY <1>12, ConcatIs
  <2> QED BY <1>8, <1>13, <2>1
<1>15. ASSUME NEW i \in 1 .. l
       PROVE  (IF i <= a THEN p[i] ELSE q[i - a]) = <<v.ver, out[i] - 1>>
  <2>1. out[i] = IF i <= a THEN i ELSE i + (b - a)
    BY <1>6, <1>7 DEF Spliced
  <2>2. CASE i <= a
    BY <1>13, <2>1, <2>2
  <2>3. CASE ~(i <= a)
    <3>1. i - a \in 1 .. n
      BY <1>8, <2>3
    <3>2. q[i - a] = <<v.ver, b + (i - a) - 1>>
      BY <1>13, <3>1
    <3>3. b + (i - a) - 1 = (i + (b - a)) - 1
      BY <1>7
    <3> QED BY <2>1, <2>3, <3>2, <3>3
  <2> QED BY <2>2, <2>3
<1>16. body = p \o q
  BY <1>9, <1>14, <1>15
<1>17. AllButFraming(v, body)
  <2>1. body = Bytes(v, 0, a) \o Bytes(v, b, until - b)
    BY <1>8, <1>12, <1>16
  <2>2. a \in 0 .. v.size /\ b \in 0 .. v.size
    BY <1>4, <1>7
  <2> QED BY <1>7, <2>1, <2>2 DEF AllButFraming, Lasts
<1>18. ASSUME l <= v.size PROVE Bytes(v, 0, l) = [i \in 1 .. l |-> <<v.ver, 0 + i - 1>>]
  <2>1. PICK z \in Nat : z = 0
    OBVIOUS
  <2>2. z + l <= v.size
    BY <1>4, <1>18, <2>1
  <2>3. /\ Bytes(v, z, l) = [i \in 1 .. l |-> <<v.ver, z + i - 1>>]
        /\ Bytes(v, z, l) \in Seq({v.ver} \X Nat) /\ Len(Bytes(v, z, l)) = l
    BY <1>4, <2>2, BytesUpTo
  <2> QED BY <2>1, <2>3
<1>19. ASSUME Plain(v) PROVE body = Whole(v)
  <2>1. until = v.size /\ a = b
    BY <1>7, <1>19 DEF Plain, Lasts, SignatureLine
  <2>2. l = v.size
    BY <1>7, <2>1
  <2>3. \A i \in 1 .. l : out[i] - 1 = 0 + i - 1
    BY <1>6, <1>7, <2>1 DEF Spliced
  <2>4. Whole(v) = [i \in 1 .. l |-> <<v.ver, 0 + i - 1>>]
    <3>1. l <= v.size
      BY <1>4, <2>2
    <3>2. Whole(v) = Bytes(v, 0, l)
      BY <2>2 DEF Whole
    <3> QED BY <2>2, <3>1, <3>2, <1>18
  <2> QED BY <1>9, <2>3, <2>4
<1> QED BY <1>17, <1>19

(* A range of a plain body comes out of the decoding reader as it is.       *)
LEMMA DecodedRange ==
    ASSUME NEW v, IsBody(v), Plain(v), NEW cuts \in Cuts(v), NEW start \in Nat, NEW asked \in Nat,
           NEW skipped, skipped = IF start > 0 THEN CopyN(Fresh, v, start, cuts) ELSE Fresh,
           start > 0 => Len(skipped.out) = start
    PROVE  BytesOf(v, CopyN(skipped, v, asked, cuts).out) = Bytes(v, start, asked)
<1>1. v.size \in Nat
  BY BodyFacts
<1>2. /\ skipped \in Decoder /\ skipped.src <= v.size /\ ~skipped.done
      /\ From(skipped.buffer, start) /\ start + Len(skipped.buffer) = skipped.src
      /\ skipped.ended => skipped.buffer = <<>> /\ skipped.src = v.size
  <2>1. PICK f : f = Fresh
    OBVIOUS
  <2>2. /\ f \in Decoder /\ f.src = 0 /\ f.buffer = <<>> /\ f.out = <<>> /\ ~f.done /\ ~f.ended
        /\ Begun(f) = f
    <3>1. f = [src |-> 0, buffer |-> <<>>, inChunk |-> FALSE, done |-> FALSE,
               out |-> <<>>, ended |-> FALSE]
      BY <2>1 DEF Fresh
    <3> QED BY <3>1 DEF Decoder, Begun
  <2>3. From(f.out, 0) /\ From(f.buffer, 0) /\ Len(f.out) = 0 /\ Len(f.buffer) = 0
    BY <2>2 DEF From
  <2>4. CASE start = 0
    BY <1>1, <2>1, <2>2, <2>3, <2>4
  <2>5. CASE start # 0
    <3>1. start > 0 /\ skipped = CopyN(f, v, start, cuts) /\ Len(skipped.out) = start
      BY <2>1, <2>5
    <3>2. Ranging(Begun(f), v, 0, start, 0)
      <4>1. 0 + Len(f.out) = 0 /\ 0 + (Len(f.out) + Len(f.buffer)) = f.src /\ Len(f.out) <= start
        BY <2>2, <2>3
      <4>2. f.src + Len(f.out) >= 0 /\ f.src <= v.size
        BY <1>1, <2>2, <2>3
      <4>3. Ranging(f, v, 0, start, 0)
        BY <2>2, <2>3, <4>1, <4>2 DEF Ranging
      <4> QED BY <2>2, <4>3
    <3>3. PICK z \in Nat : z = 0
      OBVIOUS
    <3>4. Ranging(skipped, v, z, start, 2 * v.size + 2)
      BY <3>1, <3>2, <3>3, RangeCopied DEF AllCopied
    <3>5. skipped \in Decoder /\ Len(skipped.buffer) \in Nat
      BY <3>4 DEF Ranging, Decoder
    <3>6. z + Len(skipped.out) = start /\ z + (Len(skipped.out) + Len(skipped.buffer)) =
              start + Len(skipped.buffer)
      <4>1. PICK d \in Nat : d = Len(skipped.buffer)
        BY <3>5
      <4>2. z + start = start /\ z + (start + d) = start + d
        BY <3>3
      <4> QED BY <3>1, <4>1, <4>2
    <3> QED BY <3>4, <3>6 DEF Ranging
  <2> QED BY <2>4, <2>5
<1>3. PICK b : b = Begun(skipped)
  OBVIOUS
<1>4. /\ b \in Decoder /\ b.src = skipped.src /\ ~b.done /\ b.buffer = skipped.buffer
      /\ b.out = <<>> /\ (b.ended <=> skipped.ended)
  <2>1. skipped \in Decoder /\ ~skipped.done
    BY <1>2
  <2>2. /\ b \in Decoder /\ b.src = skipped.src /\ b.buffer = skipped.buffer /\ b.out = <<>>
        /\ (b.done <=> skipped.done) /\ (b.ended <=> skipped.ended)
    BY ONLY <1>3, <2>1, BegunIs
  <2> QED BY <2>1, <2>2
<1>5. Ranging(b, v, start, asked, 0)
  <2>1. From(b.out, start) /\ Len(b.out) = 0 /\ start + 0 = start
    BY <1>4 DEF From
  <2>2. Len(b.buffer) \in Nat /\ b.src \in Nat /\ 0 + Len(b.buffer) = Len(b.buffer)
    BY <1>4 DEF Decoder
  <2>3. b.src + Len(b.out) >= 0
    BY <2>1, <2>2
  <2> QED BY <1>2, <1>4, <2>1, <2>2, <2>3 DEF Ranging
<1>6. PICK t : t = CopyN(skipped, v, asked, cuts)
  OBVIOUS
<1>7. /\ Ranging(t, v, start, asked, 2 * v.size + 2)
      /\ Len(t.out) = asked \/ (Len(t.out) <= asked /\ start + Len(t.out) = v.size)
  <2>1. Ranging(Begun(skipped), v, start, asked, 0)
    BY <1>3, <1>5
  <2>2. AllCopied(t, v, start, asked)
    BY ONLY <2>1, <1>6, IsBody(v), Plain(v), cuts \in Cuts(v), start \in Nat, asked \in Nat,
            RangeCopied, Zenon
  <2> QED BY <2>2 DEF AllCopied
<1>8. t.out \in Seq(Nat) /\ From(t.out, start) /\ start + Len(t.out) <= v.size
  <2>1. PICK c \in Nat, d \in Nat, src \in Nat : c = Len(t.out) /\ d = Len(t.buffer) /\ src = t.src
    BY <1>7 DEF Ranging, Decoder
  <2>2. start + (c + d) = src /\ src <= v.size
    BY <1>7, <2>1 DEF Ranging
  <2>3. start + c <= v.size
    BY <1>1, <2>2
  <2> QED BY <1>7, <2>1, <2>3 DEF Ranging, Decoder
<1>9. PICK out \in Seq(Nat) : out = t.out
  BY <1>8
<1>10. BytesOf(v, out) = Bytes(v, start, asked)
  BY <1>1, <1>7, <1>8, <1>9, BytesAre
<1> QED BY <1>6, <1>9, <1>10

---------------------------------------------------------------------------
(* Requests. *)

(* What the properties ask of one request's answer. *)
Within(r, i) == r.header.kind = "suffix" => r.header.n \in 1 .. i.size

SingleRange(h) == h.kind \in {"suffix", "from", "span"}

PutGood(r, a) == r.op = "put" /\ a.status = 200 => a.body = Whole(r.put)

GetGood(r, a, s) ==
    r.op = "get" /\ a.status = 200 =>
        \E v \in s : /\ a.ver = v.ver
                     /\ ~a.decoded \/ Plain(v) => a.body = Whole(v)

FramingGood(r, a, s) ==
    r.op = "get" /\ a.status = 200 /\ a.decoded =>
        \E v \in s : a.ver = v.ver /\ AllButFraming(v, a.body)

ExactPart(h, i, a) ==
    LET first == FirstByte(h, i.size)
        until == LastByte(h, i.size) IN
    /\ a.first = first /\ a.last = until /\ a.total = i.size
    /\ a.length = until - first + 1
    /\ a.body = Bytes(i, first, until - first + 1)

RangeGood(r, i, a) ==
    r.op = "range" /\ a.status = 206 /\ Within(r, i) /\ a.intact => ExactPart(r.header, i, a)

RefusalGood(r, i, a) ==
    r.op = "range" /\ a.status = 416 /\ Within(r, i) /\ SingleRange(r.header) /\ i # NoObject
        => ~Satisfiable(r.header, i.size)

PlaceGood(r, i, a) ==
    r.op = "range" /\ a.status = 206 /\ Within(r, i) /\ a.intact =>
        /\ a.last < a.total
        /\ Cardinality(DOMAIN a.body) <= a.length
        /\ \E v \in 1 .. MaxPuts :
              \A j \in DOMAIN a.body : a.body[j] = <<v, a.first + j - 1>>

AnswerGood(r, i, a, s, unchanged) ==
    /\ PutGood(r, a) /\ GetGood(r, a, s) /\ FramingGood(r, a, s)
    /\ RefusalGood(r, i, a) /\ PlaceGood(r, i, a)
    /\ unchanged => RangeGood(r, i, a)

(* Where a request is, and what it holds there. *)
Serves(p, r, i, s) ==
    /\ p = "idle" => r = NoRequest /\ i = NoObject
    /\ p \in {"fill", "put"} => r.op = "put" /\ r.put \in s
    /\ p \in {"head", "get"} =>
          r.op = "range" /\ r.header \in Header /\ (SingleRange(r.header) \/ r.header.kind = "many")
    /\ p = "get" =>
          /\ i \in s /\ SingleRange(r.header)
          /\ AdjustedStart(r.header, i.size) <= AdjustedEnd(r.header, i.size)
          /\ AdjustedStart(r.header, i.size) < i.size

Requests == [op : {"none", "get", "head", "delete", "put", "range"},
             header : Header \cup {NoHeader}, put : Version \cup {NoObject},
             buf : Buffer \cup {NoBuffer}]

RequestsType ==
    /\ store \in sent \cup {NoObject}
    /\ pool \subseteq Buffer
    /\ contents \in [Buffer -> Nat]
    /\ sent \subseteq Version /\ IsFiniteSet(sent)
    /\ phase \in [Client -> {"idle", "head", "get", "fill", "put", "answered"}]
    /\ req \in [Client -> Requests]
    /\ info \in [Client -> sent \cup {NoObject}]
    /\ answer = [c \in Client |-> answer[c]]
    /\ changed \subseteq Client

(* A buffer belongs to the pool or to one request, *)
BuffersOwned ==
    /\ \A c \in Client : req[c].buf \notin pool
    /\ \A c, d \in Client : req[c].buf \in Buffer /\ c # d => req[c].buf # req[d].buf

(* and holds that request's body once it is filled. *)
BuffersFilled ==
    \A c \in Client : phase[c] = "put" /\ req[c].buf \in Buffer =>
        contents[req[c].buf] = req[c].put.ver

Serving == \A c \in Client : Serves(phase[c], req[c], info[c], sent)

(* A range request that is not marked as changed will get what its HEAD saw. *)
ChangesNoted == \A c \in Client : phase[c] = "get" /\ c \notin changed => store = info[c]

AnswersGood ==
    \A c \in Client : phase[c] = "answered" =>
        AnswerGood(req[c], info[c], answer[c], sent, c \notin changed)

RequestsIInv ==
    RequestsType /\ BuffersOwned /\ BuffersFilled /\ Serving /\ ChangesNoted /\ AnswersGood

(* Versions are bodies with a number. *)
LEMMA VersionFacts ==
    ASSUME NEW v \in Version
    PROVE  /\ v.size \in Nat /\ v.ver \in 1 .. MaxPuts /\ IsBody(v) /\ v # NoObject
           /\ NumberedAs(v, v.ver) = v
<1>1. PICK w \in Content, n \in 1 .. MaxPuts : v = NumberedAs(w, n)
  BY DEF Version
<1>2. v = [ver |-> n, size |-> w.size, sigs |-> w.sigs, breaks |-> w.breaks, mark |-> w.mark]
  BY <1>1 DEF NumberedAs
<1>3. IsBody(w)
  BY BodyAssumption
<1>4. /\ v.size = w.size /\ v.sigs = w.sigs /\ v.breaks = w.breaks /\ v.mark = w.mark
      /\ v.ver = n
  BY <1>2
<1>5. IsBody(v) /\ v.size \in Nat
  BY <1>3, <1>4 DEF IsBody
<1>6. v # NoObject
  <2>1. NoObject.ver = 0 /\ n # 0
    BY BoundAssumption DEF NoObject
  <2> QED BY <1>4, <2>1
<1>7. NumberedAs(v, v.ver) = v
  BY <1>2, <1>4 DEF NumberedAs
<1> QED BY <1>4, <1>5, <1>6, <1>7

(* A header with one range has that range. *)
LEMMA OneRange ==
    ASSUME NEW h, NEW x, ParseRangeHeader(h) = {x}
    PROVE  RangeOf(h) = x
<1>1. \E r \in ParseRangeHeader(h) : TRUE
  OBVIOUS
<1>2. RangeOf(h) \in ParseRangeHeader(h)
  BY <1>1 DEF RangeOf
<1> QED BY <1>2

(* For a range the code handles, what it settles is what the range asks     *)
(* for, and it refuses only what cannot be had.                             *)
LEMMA SettledRange ==
    ASSUME NEW h \in Header, SingleRange(h), NEW size \in Nat,
           h.kind = "suffix" => h.n \in 1 .. size
    PROVE  /\ AdjustedStart(h, size) = FirstByte(h, size)
           /\ AdjustedEnd(h, size) = LastByte(h, size)
           /\ FirstByte(h, size) \in Nat /\ LastByte(h, size) \in Int /\ LastByte(h, size) < size
           /\ Satisfiable(h, size) =>
                 AdjustedStart(h, size) <= AdjustedEnd(h, size) /\ AdjustedStart(h, size) < size
<1>1. h \in Headers
  BY HeaderAssumption
<1>2. CASE h.kind = "suffix"
  <2>1. PICK n \in Nat : n = h.n /\ n \in 1 .. size
    BY <1>2
  <2>2. ParseRangeHeader(h) = {[start |-> -n, end |-> -1]}
    BY <1>2, <2>1 DEF ParseRangeHeader
  <2>3. RangeOf(h).start = -n /\ RangeOf(h).end = -1
    <3>1. RangeOf(h) = [start |-> -n, end |-> -1]
      BY <2>2, OneRange
    <3> QED BY <3>1
  <2>4. AdjustedStart(h, size) = size - n /\ AdjustedEnd(h, size) = size - 1
    BY <2>1, <2>3 DEF AdjustedStart, AdjustedEnd
  <2>5. FirstByte(h, size) = size - n /\ LastByte(h, size) = size - 1
    BY <1>2, <2>1 DEF FirstByte, LastByte
  <2> QED BY <2>1, <2>4, <2>5
<1>3. CASE h.kind = "from"
  <2>1. PICK n \in Nat : n = h.n
    BY <1>1, <1>3 DEF Headers, NoHeader
  <2>2. ParseRangeHeader(h) = {[start |-> n, end |-> -1]}
    BY <1>3, <2>1 DEF ParseRangeHeader
  <2>3. RangeOf(h).start = n /\ RangeOf(h).end = -1
    <3>1. RangeOf(h) = [start |-> n, end |-> -1]
      BY <2>2, OneRange
    <3> QED BY <3>1
  <2>4. AdjustedStart(h, size) = n /\ AdjustedEnd(h, size) = size - 1
    BY <2>1, <2>3 DEF AdjustedStart, AdjustedEnd
  <2>5. FirstByte(h, size) = n /\ LastByte(h, size) = size - 1
    BY <1>3, <2>1 DEF FirstByte, LastByte
  <2>6. Satisfiable(h, size) <=> n < size
    BY <1>3, <2>1 DEF Satisfiable
  <2> QED BY <2>4, <2>5, <2>6
<1>4. CASE h.kind = "span"
  <2>1. PICK n \in Nat, m \in Nat : n = h.n /\ m = h.m
    BY <1>1, <1>4 DEF Headers, NoHeader
  <2>2. ParseRangeHeader(h) = {[start |-> n, end |-> m]}
    BY <1>4, <2>1 DEF ParseRangeHeader
  <2>3. RangeOf(h).start = n /\ RangeOf(h).end = m
    <3>1. RangeOf(h) = [start |-> n, end |-> m]
      BY <2>2, OneRange
    <3> QED BY <3>1
  <2>4. AdjustedStart(h, size) = n /\ AdjustedEnd(h, size) = IF m >= size THEN size - 1 ELSE m
    BY <2>1, <2>3 DEF AdjustedStart, AdjustedEnd
  <2>5. FirstByte(h, size) = n /\ LastByte(h, size) = IF m < size THEN m ELSE size - 1
    BY <1>4, <2>1 DEF FirstByte, LastByte
  <2>6. Satisfiable(h, size) <=> n <= m /\ n < size
    BY <1>4, <2>1 DEF Satisfiable
  <2> QED BY <2>4, <2>5, <2>6
<1> QED BY <1>2, <1>3, <1>4 DEF SingleRange

(* An answer with an error is good, unless it refuses a range. *)
LEMMA ErrorGood ==
    ASSUME NEW r, NEW i, NEW s, NEW unchanged, NEW a, a.status \in Nat \ {200, 206},
           a.status = 416 => RefusalGood(r, i, a)
    PROVE  AnswerGood(r, i, a, s, unchanged)
<1>1. a.status # 200 /\ a.status # 206
  OBVIOUS
<1>2. PutGood(r, a)
  BY <1>1 DEF PutGood
<1>3. GetGood(r, a, s)
  BY <1>1 DEF GetGood
<1>4. FramingGood(r, a, s)
  BY <1>1 DEF FramingGood
<1>5. RangeGood(r, i, a)
  BY <1>1 DEF RangeGood
<1>6. PlaceGood(r, i, a)
  BY <1>1 DEF PlaceGood
<1>7. RefusalGood(r, i, a)
  BY <1>1 DEF RefusalGood
<1> QED BY <1>2, <1>3, <1>4, <1>5, <1>6, <1>7 DEF AnswerGood

(* A partial answer with the bytes of v that were asked for is good.        *)
LEMMA PartGood ==
    ASSUME NEW v \in Version, NEW i \in Version, NEW r, r.op = "range", r.header \in Header,
           SingleRange(r.header),
           AdjustedStart(r.header, i.size) <= AdjustedEnd(r.header, i.size),
           NEW unchanged, unchanged => v = i, NEW s,
           NEW a, a.status = 206,
           a.first = AdjustedStart(r.header, i.size), a.last = AdjustedEnd(r.header, i.size),
           a.total = i.size, a.length = a.last - a.first + 1,
           Within(r, i) /\ a.intact => a.body = Bytes(v, a.first, a.length)
    PROVE  AnswerGood(r, i, a, s, unchanged)
<1>1. i.size \in Nat /\ v.size \in Nat /\ v.ver \in 1 .. MaxPuts
  BY VersionFacts
<1>2. PICK h \in Header : h = r.header
  OBVIOUS
<1>3. ASSUME Within(r, i), a.intact
      PROVE  /\ unchanged => ExactPart(h, i, a)
             /\ a.last < a.total
             /\ Cardinality(DOMAIN a.body) <= a.length
             /\ \E w \in 1 .. MaxPuts : \A j \in DOMAIN a.body : a.body[j] = <<w, a.first + j - 1>>
  <2>1. PICK size \in Nat : size = i.size
    BY <1>1
  <2>2. h.kind = "suffix" => h.n \in 1 .. size
    BY <1>2, <1>3, <2>1 DEF Within
  <2>3. /\ AdjustedStart(h, size) = FirstByte(h, size)
        /\ AdjustedEnd(h, size) = LastByte(h, size)
        /\ FirstByte(h, size) \in Nat /\ LastByte(h, size) \in Int /\ LastByte(h, size) < size
    BY <1>2, <2>2, SettledRange
  <2>4. PICK first \in Nat, until \in Int : first = FirstByte(h, size) /\ until = LastByte(h, size)
    BY <2>3
  <2>5. a.first = first /\ a.last = until /\ a.total = size /\ until < size /\ first <= until
    BY <1>2, <2>1, <2>3, <2>4
  <2>6. PICK length \in Nat : length = until - first + 1 /\ a.length = length
    BY <2>5
  <2>7. a.body = Bytes(v, first, length)
    BY <1>3, <2>5, <2>6
  <2>8. ASSUME unchanged PROVE ExactPart(h, i, a)
    <3>1. v = i
      BY <2>8
    <3> QED BY <2>1, <2>4, <2>5, <2>6, <2>7, <3>1 DEF ExactPart
  <2>9. /\ Cardinality(DOMAIN Bytes(v, first, length)) <= length
        /\ \A j \in DOMAIN Bytes(v, first, length) :
              Bytes(v, first, length)[j] = <<v.ver, first + j - 1>>
    BY <1>1, BytesHave
  <2>10. Cardinality(DOMAIN a.body) <= a.length
    BY <2>6, <2>7, <2>9
  <2>11. \A j \in DOMAIN a.body : a.body[j] = <<v.ver, a.first + j - 1>>
    BY <2>5, <2>7, <2>9
  <2> QED BY <1>1, <2>5, <2>8, <2>10, <2>11
<1>4. PutGood(r, a) /\ GetGood(r, a, s) /\ FramingGood(r, a, s)
  BY DEF PutGood, GetGood, FramingGood
<1>5. RefusalGood(r, i, a)
  BY DEF RefusalGood
<1>6. PlaceGood(r, i, a)
  BY <1>3 DEF PlaceGood
<1>7. unchanged => RangeGood(r, i, a)
  BY <1>2, <1>3 DEF RangeGood
<1> QED BY <1>4, <1>5, <1>6, <1>7 DEF AnswerGood

(* The answer to another request is as good when more has been sent.        *)
LEMMA StaysGood ==
    ASSUME NEW r, NEW i, NEW a, NEW s, NEW s2, s \subseteq s2, NEW u, NEW u2, u2 => u,
           AnswerGood(r, i, a, s, u)
    PROVE  AnswerGood(r, i, a, s2, u2)
<1>1. GetGood(r, a, s2)
  BY DEF AnswerGood, GetGood
<1>2. FramingGood(r, a, s2)
  BY DEF AnswerGood, FramingGood
<1> QED BY <1>1, <1>2 DEF AnswerGood

(* A request stays well served when more has been sent. *)
LEMMA StaysServed ==
    ASSUME NEW p, NEW r, NEW i, NEW s, NEW s2, s \subseteq s2, Serves(p, r, i, s)
    PROVE  Serves(p, r, i, s2)
  BY DEF Serves

---------------------------------------------------------------------------
(* One step of one client c, which leaves it at p with the request r, what  *)
(* HEAD told it, i, and the answer a: what it may do to what is shared.     *)
Phases == {"idle", "head", "get", "fill", "put", "answered"}

StepOf(c, p, r, i, a) ==
    /\ phase' = [phase EXCEPT ![c] = p]
    /\ req' = [req EXCEPT ![c] = r]
    /\ info' = [info EXCEPT ![c] = i]
    /\ answer' = [answer EXCEPT ![c] = a]

SharedKept(c) ==
    /\ sent \subseteq sent' /\ sent' \subseteq Version /\ IsFiniteSet(sent')
    /\ store' \in sent' \cup {NoObject}
    /\ pool' \subseteq Buffer /\ contents' \in [Buffer -> Nat] /\ changed' \subseteq Client
    /\ pool' \subseteq pool \cup {req[c].buf}
    /\ \A b \in Buffer : contents'[b] # contents[b] => b = req[c].buf
    /\ changed \ {c} \subseteq changed'
    /\ store' = store \/ {d \in Client : phase[d] = "get"} \subseteq changed'

OwnKept(c, p, r, i, a) ==
    /\ p \in Phases /\ r \in Requests /\ i \in sent' \cup {NoObject}
    /\ r.buf \notin pool' /\ (r.buf = req[c].buf \/ r.buf \in pool \/ r.buf \notin Buffer)
    /\ Serves(p, r, i, sent')
    /\ p = "put" /\ r.buf \in Buffer => contents'[r.buf] = r.put.ver
    /\ p = "get" /\ c \notin changed' => store' = i
    /\ p = "answered" => AnswerGood(r, i, a, sent', c \notin changed')

(* Such a step preserves the invariant. *)
LEMMA OwnStep ==
    ASSUME RequestsIInv, NEW c \in Client, NEW p, NEW r, NEW i, NEW a,
           StepOf(c, p, r, i, a), SharedKept(c), OwnKept(c, p, r, i, a)
    PROVE  RequestsIInv'
<1>1. RequestsType /\ BuffersOwned /\ BuffersFilled /\ Serving /\ ChangesNoted /\ AnswersGood
  BY DEF RequestsIInv
<1>2. /\ phase' = [phase EXCEPT ![c] = p] /\ req' = [req EXCEPT ![c] = r]
      /\ info' = [info EXCEPT ![c] = i] /\ answer' = [answer EXCEPT ![c] = a]
  BY DEF StepOf
<1>3. /\ phase'[c] = p /\ req'[c] = r /\ info'[c] = i /\ answer'[c] = a
      /\ \A d \in Client : d # c => /\ phase'[d] = phase[d] /\ req'[d] = req[d]
                                    /\ info'[d] = info[d] /\ answer'[d] = answer[d]
  BY <1>1, <1>2 DEF RequestsType
<1>4. RequestsType'
  <2>1. store' \in sent' \cup {NoObject} /\ pool' \subseteq Buffer /\ contents' \in [Buffer -> Nat]
    BY DEF SharedKept
  <2>2. sent' \subseteq Version /\ IsFiniteSet(sent') /\ changed' \subseteq Client
    BY DEF SharedKept
  <2>3. phase' \in [Client -> {"idle", "head", "get", "fill", "put", "answered"}]
    BY <1>1, <1>2 DEF RequestsType, OwnKept, Phases
  <2>4. req' \in [Client -> Requests]
    BY <1>1, <1>2 DEF RequestsType, OwnKept
  <2>5. info' \in [Client -> sent' \cup {NoObject}]
    BY <1>1, <1>2 DEF RequestsType, OwnKept, SharedKept
  <2>6. answer' = [d \in Client |-> answer'[d]]
    BY <1>1, <1>2 DEF RequestsType
  <2> QED BY <2>1, <2>2, <2>3, <2>4, <2>5, <2>6 DEF RequestsType
<1>5. BuffersOwned'
  <2>1. ASSUME NEW d \in Client PROVE req'[d].buf \notin pool'
    <3>1. CASE d = c
      BY <1>3, <3>1 DEF OwnKept
    <3>2. CASE d # c
      <4>1. req'[d].buf = req[d].buf /\ req[d].buf \notin pool
        BY <1>1, <1>3, <3>2 DEF BuffersOwned
      <4>2. ASSUME req[d].buf \in pool' PROVE FALSE
        <5>1. req[d].buf = req[c].buf /\ req[d].buf \in Buffer
          BY <4>1, <4>2 DEF SharedKept
        <5> QED BY <1>1, <3>2, <5>1 DEF BuffersOwned
      <4> QED BY <4>1, <4>2
    <3> QED BY <3>1, <3>2
  <2>2. ASSUME NEW d \in Client, d # c, r.buf \in Buffer PROVE r.buf # req[d].buf
    <3>1. CASE r.buf = req[c].buf
      BY <1>1, <2>2, <3>1 DEF BuffersOwned
    <3>2. CASE r.buf \in pool
      BY <1>1, <2>2, <3>2 DEF BuffersOwned
    <3> QED BY <2>2, <3>1, <3>2 DEF OwnKept
  <2>3. ASSUME NEW d \in Client, NEW e \in Client, req'[d].buf \in Buffer, d # e
        PROVE  req'[d].buf # req'[e].buf
    <3>1. CASE d = c
      BY <1>3, <2>2, <2>3, <3>1
    <3>2. CASE e = c
      BY <1>3, <2>2, <2>3, <3>2
    <3>3. CASE d # c /\ e # c
      BY <1>1, <1>3, <2>3, <3>3 DEF BuffersOwned
    <3> QED BY <3>1, <3>2, <3>3
  <2> QED BY <2>1, <2>3 DEF BuffersOwned
<1>6. BuffersFilled'
  <2> SUFFICES ASSUME NEW d \in Client, phase'[d] = "put", req'[d].buf \in Buffer
               PROVE  contents'[req'[d].buf] = req'[d].put.ver
    BY DEF BuffersFilled
  <2>1. CASE d = c
    BY <1>3, <2>1 DEF OwnKept
  <2>2. CASE d # c
    <3>1. phase[d] = "put" /\ req[d].buf \in Buffer /\ req'[d] = req[d]
      BY <1>3, <2>2
    <3>2. contents[req[d].buf] = req[d].put.ver
      BY <1>1, <3>1 DEF BuffersFilled
    <3>3. req[d].buf # req[c].buf
      BY <1>1, <2>2, <3>1 DEF BuffersOwned
    <3>4. contents'[req[d].buf] = contents[req[d].buf]
      BY <3>1, <3>3 DEF SharedKept
    <3> QED BY <3>1, <3>2, <3>4
  <2> QED BY <2>1, <2>2
<1>7. Serving'
  <2> SUFFICES ASSUME NEW d \in Client PROVE Serves(phase'[d], req'[d], info'[d], sent')
    BY DEF Serving
  <2>1. CASE d = c
    BY <1>3, <2>1 DEF OwnKept
  <2>2. CASE d # c
    <3>1. Serves(phase[d], req[d], info[d], sent)
      BY <1>1 DEF Serving
    <3>2. PICK q, s, j, m, n : q = phase[d] /\ s = req[d] /\ j = info[d] /\ m = sent /\ n = sent'
      OBVIOUS
    <3>3. m \subseteq n /\ Serves(q, s, j, m)
      BY <3>1, <3>2 DEF SharedKept
    <3>4. Serves(q, s, j, n)
      BY ONLY <3>3, StaysServed, Zenon
    <3> QED BY <1>3, <2>2, <3>2, <3>4
  <2> QED BY <2>1, <2>2
<1>8. ChangesNoted'
  <2> SUFFICES ASSUME NEW d \in Client, phase'[d] = "get", d \notin changed' PROVE store' = info'[d]
    BY DEF ChangesNoted
  <2>1. CASE d = c
    BY <1>3, <2>1 DEF OwnKept
  <2>2. CASE d # c
    <3>1. phase[d] = "get" /\ info'[d] = info[d] /\ d \notin changed
      BY <1>3, <2>2 DEF SharedKept
    <3>2. store' = store
      BY <3>1 DEF SharedKept
    <3> QED BY <1>1, <3>1, <3>2 DEF ChangesNoted
  <2> QED BY <2>1, <2>2
<1>9. AnswersGood'
  <2> SUFFICES ASSUME NEW d \in Client, phase'[d] = "answered"
               PROVE  AnswerGood(req'[d], info'[d], answer'[d], sent', d \notin changed')
    BY DEF AnswersGood
  <2>1. CASE d = c
    BY <1>3, <2>1 DEF OwnKept
  <2>2. CASE d # c
    <3>1. AnswerGood(req[d], info[d], answer[d], sent, d \notin changed)
      BY <1>1, <1>3, <2>2 DEF AnswersGood
    <3>2. PICK s, j, b, m, n, u, w : /\ s = req[d] /\ j = info[d] /\ b = answer[d]
                                     /\ m = sent /\ n = sent'
                                     /\ u = (d \notin changed) /\ w = (d \notin changed')
      OBVIOUS
    <3>3. m \subseteq n /\ (w => u) /\ AnswerGood(s, j, b, m, u)
      BY <2>2, <3>1, <3>2 DEF SharedKept
    <3>4. AnswerGood(s, j, b, n, w)
      BY ONLY <3>3, StaysGood, Zenon
    <3> QED BY <1>3, <2>2, <3>2, <3>4
  <2> QED BY <2>1, <2>2
<1> QED BY <1>4, <1>5, <1>6, <1>7, <1>8, <1>9 DEF RequestsIInv

(* A step that touches nothing that is shared, but may forget that c's      *)
(* object was changed, or return its buffer.                                *)
LEMMA NothingShared ==
    ASSUME RequestsIInv, NEW c \in Client, UNCHANGED <<store, contents, sent>>,
           changed' \subseteq changed, changed \ {c} \subseteq changed',
           pool' \subseteq Buffer, pool' \subseteq pool \cup {req[c].buf}
    PROVE  SharedKept(c)
  BY DEF RequestsIInv, RequestsType, SharedKept

(* An idle client has no request yet. *)
LEMMA IdleFacts ==
    ASSUME RequestsIInv, NEW c \in Client, phase[c] = "idle"
    PROVE  /\ info[c] = NoObject /\ req[c] = NoRequest
           /\ \A x \in {"none", "get", "head", "delete", "put", "range"} :
                 LET r == [req[c] EXCEPT !.op = x] IN
                 r = [op |-> x, header |-> NoHeader, put |-> NoObject, buf |-> NoBuffer]
<1>1. Serves(phase[c], req[c], info[c], sent)
  BY DEF RequestsIInv, Serving
<1>2. info[c] = NoObject /\ req[c] = NoRequest
  BY <1>1 DEF Serves
<1> QED BY <1>2 DEF NoRequest

(* It may be answered at once. *)
LEMMA AnsweredAtOnce ==
    ASSUME RequestsIInv, NEW c \in Client, phase[c] = "idle", SharedKept(c), pool' = pool,
           NEW x \in {"none", "get", "head", "delete", "put", "range"}, NEW h \in Header \cup {NoHeader},
           NEW r, r = [op |-> x, header |-> h, put |-> NoObject, buf |-> NoBuffer],
           NEW a, phase' = [phase EXCEPT ![c] = "answered"], req' = [req EXCEPT ![c] = r],
           UNCHANGED info, answer' = [answer EXCEPT ![c] = a],
           AnswerGood(r, NoObject, a, sent', c \notin changed')
    PROVE  RequestsIInv'
<1>1. info[c] = NoObject /\ req[c] = NoRequest
  BY IdleFacts
<1>2. PICK i, p : i = NoObject /\ p = "answered"
  OBVIOUS
<1>3. StepOf(c, p, r, i, a)
  <2>1. info' = [info EXCEPT ![c] = i]
    BY <1>1, <1>2 DEF RequestsIInv, RequestsType
  <2> QED BY <1>2, <2>1 DEF StepOf
<1>4. r \in Requests /\ r.buf = NoBuffer
  BY DEF Requests
<1>5. NoBuffer \notin Buffer /\ pool \subseteq Buffer
  BY BufferAssumption DEF RequestsIInv, RequestsType
<1>6. Serves(p, r, i, sent')
  BY <1>2 DEF Serves
<1>7. OwnKept(c, p, r, i, a)
  BY <1>2, <1>4, <1>5, <1>6 DEF OwnKept, Phases
<1> QED BY <1>3, <1>7, OwnStep

(* getObject answers with what the backend has. *)
LEMMA GetObjectInv == ASSUME RequestsIInv, NEW c \in Client, GetObject(c) PROVE RequestsIInv'
<1>1. phase[c] = "idle" /\ UNCHANGED <<store, pool, contents, sent, info, changed>>
  BY DEF GetObject
<1>2. SharedKept(c)
  BY <1>1, NothingShared DEF RequestsIInv, RequestsType
<1>3. PICK r : r = [op |-> "get", header |-> NoHeader, put |-> NoObject, buf |-> NoBuffer]
  OBVIOUS
<1>4. req' = [req EXCEPT ![c] = r]
  <2>1. req' = [req EXCEPT ![c] = [req[c] EXCEPT !.op = "get"]]
    BY DEF GetObject
  <2> QED BY <1>1, <1>3, <2>1, IdleFacts
<1>5. ASSUME NEW a, answer' = [answer EXCEPT ![c] = a], phase' = [phase EXCEPT ![c] = "answered"],
             AnswerGood(r, NoObject, a, sent', c \notin changed')
      PROVE  RequestsIInv'
  BY <1>1, <1>2, <1>3, <1>4, <1>5, AnsweredAtOnce
<1>6. CASE store = NoObject /\ Error(c, 404)
  <2>1. PICK a : a = [status |-> 404]
    OBVIOUS
  <2>2. answer' = [answer EXCEPT ![c] = a] /\ phase' = [phase EXCEPT ![c] = "answered"]
    BY <1>6, <2>1 DEF Error, Reply
  <2>3. AnswerGood(r, NoObject, a, sent', c \notin changed')
    <3>1. a.status \in Nat \ {200, 206} /\ a.status # 416
      BY <2>1
    <3> QED BY <3>1, ErrorGood
  <2> QED BY <1>5, <2>2, <2>3
<1>7. ASSUME NEW a, store # NoObject, Reply(c, a), a.status = 200, a.ver = store.ver,
             ~a.decoded \/ Plain(store) => a.body = Whole(store),
             a.decoded => AllButFraming(store, a.body)
      PROVE  RequestsIInv'
  <2>1. store \in sent'
    BY <1>1, <1>7 DEF RequestsIInv, RequestsType
  <2>2. PutGood(r, a)
    BY <1>3 DEF PutGood
  <2>3. RefusalGood(r, NoObject, a) /\ PlaceGood(r, NoObject, a) /\ RangeGood(r, NoObject, a)
    BY <1>3 DEF RefusalGood, PlaceGood, RangeGood
  <2>4. GetGood(r, a, sent')
    BY <1>7, <2>1 DEF GetGood
  <2>5. FramingGood(r, a, sent')
    BY <1>7, <2>1 DEF FramingGood
  <2>6. AnswerGood(r, NoObject, a, sent', c \notin changed')
    BY <2>2, <2>3, <2>4, <2>5 DEF AnswerGood
  <2> QED BY <1>5, <1>7, <2>6 DEF Reply
<1>8. CASE /\ store # NoObject
           /\ Reply(c, [status |-> 200, ver |-> store.ver, decoded |-> FALSE,
                        length |-> store.size, body |-> Whole(store)])
  <2>1. PICK a : a = [status |-> 200, ver |-> store.ver, decoded |-> FALSE,
                      length |-> store.size, body |-> Whole(store)]
    OBVIOUS
  <2>2. Reply(c, a) /\ a.status = 200 /\ a.ver = store.ver /\ ~a.decoded /\ a.body = Whole(store)
    BY <1>8, <2>1
  <2> QED BY <1>7, <1>8, <2>2
<1>9. CASE /\ store # NoObject
           /\ \E cuts \in Cuts(store) :
                Reply(c, [status |-> 200, ver |-> store.ver, decoded |-> TRUE,
                          length |-> store.size,
                          body |-> BytesOf(store, CopyN(Fresh, store, store.size + 1, cuts).out)])
  <2>1. PICK v : v = store
    OBVIOUS
  <2>2. PICK cuts \in Cuts(v) :
                Reply(c, [status |-> 200, ver |-> v.ver, decoded |-> TRUE, length |-> v.size,
                          body |-> BytesOf(v, CopyN(Fresh, v, v.size + 1, cuts).out)])
    BY <1>9, <2>1
  <2>3. PICK body : body = BytesOf(v, CopyN(Fresh, v, v.size + 1, cuts).out)
    OBVIOUS
  <2>4. v \in Version
    BY <1>9, <2>1 DEF RequestsIInv, RequestsType
  <2>5. AllButFraming(v, body) /\ (Plain(v) => body = Whole(v))
    BY <2>3, <2>4, VersionFacts, DecodedGet
  <2>6. PICK a : a = [status |-> 200, ver |-> v.ver, decoded |-> TRUE, length |-> v.size,
                      body |-> body]
    OBVIOUS
  <2>7. Reply(c, a) /\ a.status = 200 /\ a.ver = v.ver /\ a.decoded /\ a.body = body
    BY <2>2, <2>3, <2>6
  <2> QED BY <1>7, <1>9, <2>1, <2>5, <2>7
<1> QED BY <1>6, <1>8, <1>9 DEF GetObject

(* headObject sends no body. *)
LEMMA HeadObjectInv == ASSUME RequestsIInv, NEW c \in Client, HeadObject(c) PROVE RequestsIInv'
<1>1. phase[c] = "idle" /\ UNCHANGED <<store, pool, contents, sent, info, changed>>
  BY DEF HeadObject
<1>2. SharedKept(c)
  BY <1>1, NothingShared DEF RequestsIInv, RequestsType
<1>3. PICK r : r = [op |-> "head", header |-> NoHeader, put |-> NoObject, buf |-> NoBuffer]
  OBVIOUS
<1>4. req' = [req EXCEPT ![c] = r]
  <2>1. req' = [req EXCEPT ![c] = [req[c] EXCEPT !.op = "head"]]
    BY DEF HeadObject
  <2> QED BY <1>1, <1>3, <2>1, IdleFacts
<1>5. PICK a : Reply(c, a)
  BY DEF HeadObject, Error
<1>6. AnswerGood(r, NoObject, a, sent', c \notin changed')
  BY <1>3 DEF AnswerGood, PutGood, GetGood, FramingGood, RefusalGood, PlaceGood, RangeGood
<1> QED BY <1>1, <1>2, <1>3, <1>4, <1>5, <1>6, AnsweredAtOnce DEF Reply

(* A PUT without a length is refused. *)
LEMMA PutWithoutLengthInv ==
    ASSUME RequestsIInv, NEW c \in Client, PutWithoutLength(c)
    PROVE  RequestsIInv'
<1>1. phase[c] = "idle" /\ UNCHANGED <<store, pool, contents, sent, info, changed>>
  BY DEF PutWithoutLength
<1>2. SharedKept(c)
  BY <1>1, NothingShared DEF RequestsIInv, RequestsType
<1>3. PICK r : r = [op |-> "put", header |-> NoHeader, put |-> NoObject, buf |-> NoBuffer]
  OBVIOUS
<1>4. req' = [req EXCEPT ![c] = r]
  <2>1. req' = [req EXCEPT ![c] = [req[c] EXCEPT !.op = "put"]]
    BY DEF PutWithoutLength
  <2> QED BY <1>1, <1>3, <2>1, IdleFacts
<1>5. PICK a : a = [status |-> 400]
  OBVIOUS
<1>6. AnswerGood(r, NoObject, a, sent', c \notin changed')
  <2>1. a.status \in Nat \ {200, 206} /\ a.status # 416
    BY <1>5
  <2> QED BY <2>1, ErrorGood
<1>7. answer' = [answer EXCEPT ![c] = a] /\ phase' = [phase EXCEPT ![c] = "answered"]
  BY <1>5 DEF PutWithoutLength, Error, Reply
<1> QED BY <1>1, <1>2, <1>3, <1>4, <1>6, <1>7, AnsweredAtOnce

(* deleteObject marks the range requests under way. *)
LEMMA DeleteObjectInv == ASSUME RequestsIInv, NEW c \in Client, DeleteObject(c) PROVE RequestsIInv'
<1>1. phase[c] = "idle" /\ UNCHANGED <<pool, contents, sent, info>>
  BY DEF DeleteObject
<1>2. SharedKept(c)
  <2>1. CASE Change(NoObject)
    BY <1>1, <2>1 DEF Change, RequestsIInv, RequestsType, SharedKept
  <2>2. CASE UNCHANGED <<store, changed>>
    BY <1>1, <2>2, NothingShared DEF RequestsIInv, RequestsType
  <2> QED BY <2>1, <2>2 DEF DeleteObject
<1>3. PICK r : r = [op |-> "delete", header |-> NoHeader, put |-> NoObject, buf |-> NoBuffer]
  OBVIOUS
<1>4. req' = [req EXCEPT ![c] = r]
  <2>1. req' = [req EXCEPT ![c] = [req[c] EXCEPT !.op = "delete"]]
    BY DEF DeleteObject
  <2> QED BY <1>1, <1>3, <2>1, IdleFacts
<1>5. PICK a : Reply(c, a)
  BY DEF DeleteObject, Error
<1>6. AnswerGood(r, NoObject, a, sent', c \notin changed')
  BY <1>3 DEF AnswerGood, PutGood, GetGood, FramingGood, RefusalGood, PlaceGood, RangeGood
<1> QED BY <1>1, <1>2, <1>3, <1>4, <1>5, <1>6, AnsweredAtOnce DEF Reply

(* A range request starts with a header that has a range, or is refused. *)
LEMMA BeginRangeInv ==
    ASSUME RequestsIInv, NEW c \in Client, NEW h \in Header, BeginRange(c, h)
    PROVE  RequestsIInv'
<1>1. /\ phase[c] = "idle" /\ UNCHANGED <<store, pool, contents, sent, info, changed>>
      /\ h # NoHeader
  BY DEF BeginRange
<1>2. SharedKept(c)
  BY <1>1, NothingShared DEF RequestsIInv, RequestsType
<1>3. PICK r : r = [op |-> "range", header |-> h, put |-> NoObject, buf |-> NoBuffer]
  OBVIOUS
<1>4. info[c] = NoObject /\ req[c] = NoRequest
  BY <1>1, IdleFacts
<1>5. req' = [req EXCEPT ![c] = r]
  <2>1. [req[c] EXCEPT !.op = "range", !.header = h] = r
    <3>1. PICK q : q = [op |-> "none", header |-> NoHeader, put |-> NoObject, buf |-> NoBuffer]
      OBVIOUS
    <3>2. [q EXCEPT !.op = "range"] =
             [op |-> "range", header |-> NoHeader, put |-> NoObject, buf |-> NoBuffer]
      BY <3>1
    <3>3. PICK t : t = [op |-> "range", header |-> NoHeader, put |-> NoObject, buf |-> NoBuffer]
      OBVIOUS
    <3>4. [t EXCEPT !.header = h] = r
      BY <1>3, <3>3
    <3>5. [[q EXCEPT !.op = "range"] EXCEPT !.header = h] = r
      BY <3>2, <3>3, <3>4
    <3> QED BY <1>4, <3>1, <3>5 DEF NoRequest
  <2>2. req' = [req EXCEPT ![c] = [req[c] EXCEPT !.op = "range", !.header = h]]
    BY DEF BeginRange, RequestsIInv, RequestsType
  <2> QED BY <2>1, <2>2
<1>6. CASE ParseRangeHeader(h) = {} /\ Error(c, 416)
  <2>1. PICK a : a = [status |-> 416]
    OBVIOUS
  <2>2. Reply(c, a)
    BY <1>6, <2>1 DEF Error
  <2>3. RefusalGood(r, NoObject, a)
    BY DEF RefusalGood
  <2>4. AnswerGood(r, NoObject, a, sent', c \notin changed')
    <3>1. a.status \in Nat \ {200, 206}
      BY <2>1
    <3> QED BY <2>3, <3>1, ErrorGood
  <2> QED BY <1>1, <1>2, <1>3, <1>5, <2>2, <2>4, AnsweredAtOnce DEF Reply
<1>7. CASE ParseRangeHeader(h) # {} /\ phase' = [phase EXCEPT ![c] = "head"] /\ UNCHANGED answer
  <2>1. SingleRange(h) \/ h.kind = "many"
    <3>1. h \in Headers
      BY HeaderAssumption
    <3>2. h.kind \in {"none", "bad", "many", "suffix", "from", "span"}
      BY <3>1 DEF Headers, NoHeader
    <3>3. h.kind # "bad"
      BY <1>7 DEF ParseRangeHeader
    <3>4. h.kind # "none"
      BY <1>1, <3>1 DEF Headers, NoHeader
    <3> QED BY <3>2, <3>3, <3>4 DEF SingleRange
  <2>2. PICK p, i, a : p = "head" /\ i = NoObject /\ a = answer[c]
    OBVIOUS
  <2>3. StepOf(c, p, r, i, a)
    BY <1>1, <1>4, <1>5, <1>7, <2>2 DEF StepOf, RequestsIInv, RequestsType
  <2>4. r \in Requests /\ r.buf = NoBuffer /\ r.op = "range" /\ r.header = h
    BY <1>3 DEF Requests
  <2>5. NoBuffer \notin Buffer /\ pool' \subseteq Buffer
    BY <1>1, BufferAssumption DEF RequestsIInv, RequestsType
  <2>6. Serves(p, r, i, sent')
    BY <2>1, <2>2, <2>4 DEF Serves
  <2>7. OwnKept(c, p, r, i, a)
    BY <2>2, <2>4, <2>5, <2>6 DEF OwnKept, Phases
  <2> QED BY <1>2, <2>3, <2>7, OwnStep
<1> QED BY <1>6, <1>7 DEF BeginRange

(* A request that goes on as it is keeps its buffer. *)
LEMMA SameRequest ==
    ASSUME RequestsIInv, NEW c \in Client, NEW r, r = req[c], UNCHANGED pool
    PROVE  /\ r \in Requests /\ r.buf \notin pool'
           /\ r.buf = req[c].buf \/ r.buf \in pool \/ r.buf \notin Buffer
           /\ req = [req EXCEPT ![c] = r]
  BY DEF RequestsIInv, RequestsType, BuffersOwned

(* The HEAD of a range request settles a range within the object. *)
LEMMA RangeHeadInv == ASSUME RequestsIInv, NEW c \in Client, RangeHead(c) PROVE RequestsIInv'
<1>1. /\ phase[c] = "head" /\ UNCHANGED <<store, pool, contents, sent, req>>
      /\ info' = [info EXCEPT ![c] = store] /\ changed' = changed \ {c}
  BY DEF RangeHead
<1>2. SharedKept(c)
  BY <1>1, NothingShared DEF RequestsIInv, RequestsType
<1>3. PICK r, i : r = req[c] /\ i = store
  OBVIOUS
<1>4. /\ r \in Requests /\ r.buf \notin pool'
      /\ r.buf = req[c].buf \/ r.buf \in pool \/ r.buf \notin Buffer
      /\ req' = [req EXCEPT ![c] = r]
  BY <1>1, <1>3, SameRequest
<1>5. Serves(phase[c], req[c], info[c], sent) /\ i \in sent' \cup {NoObject}
  BY <1>1, <1>3 DEF RequestsIInv, Serving, RequestsType
<1>6. PICK h \in Header : h = r.header /\ (SingleRange(h) \/ h.kind = "many") /\ r.op = "range"
  BY <1>1, <1>3, <1>5 DEF Serves
<1>7. PICK start, end : start = AdjustedStart(h, i.size) /\ end = AdjustedEnd(h, i.size)
  OBVIOUS
<1>8. \/ i = NoObject /\ Error(c, 404)
      \/ i # NoObject /\ h.kind = "many" /\ Error(c, 416)
      \/ /\ i # NoObject /\ h.kind # "many"
         /\ start > end \/ start >= i.size
         /\ Error(c, 416)
      \/ /\ i # NoObject /\ h.kind # "many"
         /\ start <= end /\ start < i.size
         /\ phase' = [phase EXCEPT ![c] = "get"]
         /\ UNCHANGED answer
  BY <1>3, <1>6, <1>7 DEF RangeHead
<1>9. ASSUME NEW a, Reply(c, a), AnswerGood(r, i, a, sent', c \notin changed')
      PROVE  RequestsIInv'
  <2>1. PICK p : p = "answered"
    OBVIOUS
  <2>2. StepOf(c, p, r, i, a)
    BY <1>1, <1>3, <1>4, <1>9, <2>1 DEF StepOf, Reply
  <2>3. Serves(p, r, i, sent')
    BY <2>1 DEF Serves
  <2>4. OwnKept(c, p, r, i, a)
    BY <1>4, <1>5, <1>9, <2>1, <2>3 DEF OwnKept, Phases
  <2> QED BY <1>2, <2>2, <2>4, OwnStep
<1>10. CASE i = NoObject /\ Error(c, 404)
  <2>1. PICK a : a = [status |-> 404]
    OBVIOUS
  <2>2. AnswerGood(r, i, a, sent', c \notin changed')
    <3>1. a.status \in Nat \ {200, 206} /\ a.status # 416
      BY <2>1
    <3> QED BY <3>1, ErrorGood
  <2> QED BY <1>9, <1>10, <2>1, <2>2 DEF Error
<1>11. CASE i # NoObject /\ h.kind = "many" /\ Error(c, 416)
  <2>1. PICK a : a = [status |-> 416]
    OBVIOUS
  <2>2. RefusalGood(r, i, a)
    BY <1>6, <1>11 DEF RefusalGood, SingleRange
  <2>3. AnswerGood(r, i, a, sent', c \notin changed')
    <3>1. a.status \in Nat \ {200, 206}
      BY <2>1
    <3> QED BY <2>2, <3>1, ErrorGood
  <2> QED BY <1>9, <1>11, <2>1, <2>3 DEF Error
<1>12. CASE /\ i # NoObject /\ h.kind # "many"
            /\ start > end \/ start >= i.size
            /\ Error(c, 416)
  <2>1. PICK a : a = [status |-> 416]
    OBVIOUS
  <2>2. RefusalGood(r, i, a)
    <3> SUFFICES ASSUME Within(r, i) PROVE ~Satisfiable(h, i.size)
      BY <1>6 DEF RefusalGood
    <3>1. i \in Version
      BY <1>3, <1>12 DEF RequestsIInv, RequestsType
    <3>2. PICK size \in Nat : size = i.size
      BY <3>1, VersionFacts
    <3>3. SingleRange(h) /\ (h.kind = "suffix" => h.n \in 1 .. size)
      BY <1>6, <1>12, <3>2 DEF Within
    <3>4. /\ start \in Int /\ end \in Int
          /\ Satisfiable(h, size) => start <= end /\ start < size
      BY <1>7, <3>2, <3>3, SettledRange
    <3> QED BY <1>12, <3>2, <3>4
  <2>3. AnswerGood(r, i, a, sent', c \notin changed')
    <3>1. a.status \in Nat \ {200, 206}
      BY <2>1
    <3> QED BY <2>2, <3>1, ErrorGood
  <2> QED BY <1>9, <1>12, <2>1, <2>3 DEF Error
<1>13. CASE /\ i # NoObject /\ h.kind # "many"
            /\ start <= end /\ start < i.size
            /\ phase' = [phase EXCEPT ![c] = "get"]
            /\ UNCHANGED answer
  <2>1. PICK p, a : p = "get" /\ a = answer[c]
    OBVIOUS
  <2>2. StepOf(c, p, r, i, a)
    BY <1>1, <1>3, <1>4, <1>13, <2>1 DEF StepOf, RequestsIInv, RequestsType
  <2>3. Serves(p, r, i, sent')
    BY <1>5, <1>6, <1>7, <1>13, <2>1 DEF Serves
  <2>4. OwnKept(c, p, r, i, a)
    BY <1>1, <1>3, <1>4, <1>5, <2>1, <2>3 DEF OwnKept, Phases
  <2> QED BY <1>2, <2>2, <2>4, OwnStep
<1> QED BY <1>8, <1>10, <1>11, <1>12, <1>13

(* Its GET sends the bytes of that range, however the body is read. *)
LEMMA RangeGetInv == ASSUME RequestsIInv, NEW c \in Client, RangeGet(c) PROVE RequestsIInv'
<1>1. phase[c] = "get" /\ UNCHANGED <<store, pool, contents, sent, req, info, changed>>
  BY DEF RangeGet
<1>2. SharedKept(c)
  BY <1>1, NothingShared DEF RequestsIInv, RequestsType
<1>3. PICK r, i, v : r = req[c] /\ i = info[c] /\ v = store
  OBVIOUS
<1>4. /\ r \in Requests /\ r.buf \notin pool'
      /\ r.buf = req[c].buf \/ r.buf \in pool \/ r.buf \notin Buffer
      /\ req' = [req EXCEPT ![c] = r]
  BY <1>1, <1>3, SameRequest
<1>5. Serves(phase[c], req[c], info[c], sent)
  BY DEF RequestsIInv, Serving
<1>6. /\ r.op = "range" /\ r.header \in Header /\ SingleRange(r.header) /\ i \in sent
      /\ AdjustedStart(r.header, i.size) <= AdjustedEnd(r.header, i.size)
  BY <1>1, <1>3, <1>5 DEF Serves
<1>7. i \in Version /\ (c \notin changed' => v = i) /\ v \in sent \cup {NoObject}
  BY <1>1, <1>3, <1>6 DEF RequestsIInv, RequestsType, ChangesNoted
<1>8. PICK h \in Header : h = r.header
  BY <1>6
<1>9. PICK start, end : start = AdjustedStart(h, i.size) /\ end = AdjustedEnd(h, i.size)
  OBVIOUS
<1>10. RangeStart(c) = start /\ RangeEnd(c) = end
  BY <1>3, <1>8, <1>9 DEF RangeStart, RangeEnd
<1>11. ASSUME NEW a, Reply(c, a), AnswerGood(r, i, a, sent', c \notin changed')
       PROVE  RequestsIInv'
  <2>1. PICK p : p = "answered"
    OBVIOUS
  <2>2. StepOf(c, p, r, i, a)
    BY <1>1, <1>3, <1>4, <1>11, <2>1 DEF StepOf, Reply, RequestsIInv, RequestsType
  <2>3. Serves(p, r, i, sent') /\ i \in sent'
    BY <1>1, <1>6, <2>1 DEF Serves
  <2>4. OwnKept(c, p, r, i, a)
    BY <1>4, <1>11, <2>1, <2>3 DEF OwnKept, Phases
  <2> QED BY <1>2, <2>2, <2>4, OwnStep
<1>12. ASSUME NEW n \in Nat \ {200, 206, 416}, Error(c, n) PROVE RequestsIInv'
  <2>1. PICK a : a = [status |-> n]
    OBVIOUS
  <2>2. a.status \in Nat \ {200, 206} /\ a.status # 416
    BY <1>12, <2>1
  <2>3. AnswerGood(r, i, a, sent', c \notin changed')
    BY <2>2, ErrorGood
  <2> QED BY <1>11, <1>12, <2>1, <2>3 DEF Error
<1>13. ASSUME NEW intact, NEW body, PartialContent(c, intact, body), v # NoObject,
              Within(r, i) /\ intact => body = Bytes(v, start, end - start + 1)
       PROVE  RequestsIInv'
  <2>1. PICK a : a = [status |-> 206, ver |-> i.ver, intact |-> intact, first |-> start,
                      last |-> end, total |-> i.size, length |-> end - start + 1, body |-> body]
    OBVIOUS
  <2>2. Reply(c, a)
    BY <1>3, <1>10, <1>13, <2>1 DEF PartialContent
  <2>3. /\ a.status = 206 /\ a.first = start /\ a.last = end /\ a.total = i.size
        /\ a.length = end - start + 1 /\ a.intact = intact /\ a.body = body
    BY <2>1
  <2>4. v \in Version
    BY <1>7, <1>13 DEF RequestsIInv, RequestsType
  <2>5. /\ a.first = AdjustedStart(r.header, i.size) /\ a.last = AdjustedEnd(r.header, i.size)
        /\ a.length = a.last - a.first + 1
        /\ Within(r, i) /\ a.intact => a.body = Bytes(v, a.first, a.length)
    BY <1>8, <1>9, <1>13, <2>3
  <2>6. PICK s, u : s = sent' /\ u = (c \notin changed')
    OBVIOUS
  <2>7. u => v = i
    BY <1>7, <2>6
  <2>8. AnswerGood(r, i, a, s, u)
    BY ONLY <1>6, <1>7, <2>3, <2>4, <2>5, <2>7, PartGood
  <2> QED BY <1>11, <2>2, <2>6, <2>8
<1>14. ASSUME Within(r, i), v # NoObject
       PROVE  start \in Nat /\ end - start + 1 \in Nat
  <2>1. PICK size \in Nat : size = i.size
    BY <1>7, VersionFacts
  <2>2. h.kind = "suffix" => h.n \in 1 .. size
    BY <1>8, <1>14, <2>1 DEF Within
  <2>3. start \in Nat /\ end \in Int
    BY <1>6, <1>8, <1>9, <2>1, <2>2, SettledRange
  <2>4. start <= end
    BY <1>6, <1>8, <1>9
  <2> QED BY <2>3, <2>4
<1>15. ASSUME NEW seekable \in BOOLEAN, v # NoObject, RangeOfBody(c, seekable) PROVE RequestsIInv'
  <2>1. CASE Error(c, 500)
    BY <1>12, <2>1
  <2>2. CASE PartialContent(c, TRUE, Bytes(store, SkippedTo(seekable, RangeStart(c)),
                                           RangeEnd(c) - RangeStart(c) + 1))
    <3>1. PICK body : body = Bytes(v, SkippedTo(seekable, start), end - start + 1)
      OBVIOUS
    <3>2. PartialContent(c, TRUE, body)
      BY <1>3, <1>10, <2>2, <3>1
    <3>3. ASSUME Within(r, i) PROVE body = Bytes(v, start, end - start + 1)
      <4>1. start \in Nat
        BY <1>14, <1>15, <3>3
      <4>2. SkippedTo(seekable, start) = start
        BY <4>1 DEF SkippedTo
      <4> QED BY <3>1, <4>2
    <3> QED BY <1>13, <1>15, <3>2, <3>3
  <2> QED BY <1>15, <2>1, <2>2 DEF RangeOfBody
<1>16. ASSUME NEW cuts \in Cuts(v), v # NoObject, RangeOfDecoded(c, cuts) PROVE RequestsIInv'
  <2>1. PICK skipped : skipped = IF start > 0 THEN CopyN(Fresh, v, start, cuts) ELSE Fresh
    OBVIOUS
  <2>2. PICK range : range = CopyN(skipped, v, end - start + 1, cuts)
    OBVIOUS
  <2>3. \/ Error(c, 500)
        \/ /\ start > 0 => Len(skipped.out) = start
           /\ PartialContent(c, Plain(v), BytesOf(v, range.out))
    BY <1>3, <1>10, <1>16, <2>1, <2>2 DEF RangeOfDecoded
  <2>4. CASE Error(c, 500)
    BY <1>12, <2>4
  <2>5. CASE /\ start > 0 => Len(skipped.out) = start
             /\ PartialContent(c, Plain(v), BytesOf(v, range.out))
    <3>1. PICK body : body = BytesOf(v, range.out)
      OBVIOUS
    <3>2. ASSUME Within(r, i), Plain(v) PROVE body = Bytes(v, start, end - start + 1)
      <4>1. PICK first \in Nat, asked \in Nat : first = start /\ asked = end - start + 1
        BY <1>14, <1>16, <3>2
      <4>2. IsBody(v)
        BY <1>7, <1>16, VersionFacts DEF RequestsIInv, RequestsType
      <4>3. /\ skipped = IF first > 0 THEN CopyN(Fresh, v, first, cuts) ELSE Fresh
            /\ first > 0 => Len(skipped.out) = first
        BY <2>1, <2>5, <4>1
      <4>4. BytesOf(v, CopyN(skipped, v, asked, cuts).out) = Bytes(v, first, asked)
        BY ONLY <3>2, <4>2, <4>3, cuts \in Cuts(v), first \in Nat, asked \in Nat, DecodedRange
      <4> QED BY <2>2, <3>1, <4>1, <4>4
    <3>3. PICK intact : intact = Plain(v)
      OBVIOUS
    <3> QED BY <1>13, <1>16, <2>5, <3>1, <3>2, <3>3
  <2> QED BY <2>3, <2>4, <2>5
<1>17. \/ Error(c, 404)
       \/ v # NoObject /\ \E seekable \in BOOLEAN : RangeOfBody(c, seekable)
       \/ v # NoObject /\ \E cuts \in Cuts(v) : RangeOfDecoded(c, cuts)
  BY <1>3 DEF RangeGet
<1> QED BY <1>12, <1>15, <1>16, <1>17

(* A request in the middle of its work may be refused.                      *)
LEMMA RefusedInv ==
    ASSUME RequestsIInv, NEW c \in Client, phase[c] # "idle",
           UNCHANGED <<store, pool, contents, sent, req, info, changed>>,
           NEW n \in Nat \ {200, 206, 416}, Error(c, n)
    PROVE  RequestsIInv'
<1>1. SharedKept(c)
  BY NothingShared DEF RequestsIInv, RequestsType
<1>2. PICK r, i, p, a : r = req[c] /\ i = info[c] /\ p = "answered" /\ a = [status |-> n]
  OBVIOUS
<1>3. /\ r \in Requests /\ r.buf \notin pool'
      /\ r.buf = req[c].buf \/ r.buf \in pool \/ r.buf \notin Buffer
      /\ req' = [req EXCEPT ![c] = r]
  BY <1>2, SameRequest
<1>4. StepOf(c, p, r, i, a)
  <2>1. answer' = [answer EXCEPT ![c] = a] /\ phase' = [phase EXCEPT ![c] = p]
    BY <1>2 DEF Error, Reply
  <2>2. info' = [info EXCEPT ![c] = i]
    BY <1>2 DEF RequestsIInv, RequestsType
  <2> QED BY <1>3, <2>1, <2>2 DEF StepOf
<1>5. AnswerGood(r, i, a, sent', c \notin changed')
  <2>1. a.status \in Nat \ {200, 206} /\ a.status # 416
    BY <1>2
  <2> QED BY <2>1, ErrorGood
<1>6. Serves(p, r, i, sent') /\ i \in sent' \cup {NoObject}
  BY <1>2 DEF Serves, RequestsIInv, RequestsType
<1>7. OwnKept(c, p, r, i, a)
  BY <1>2, <1>3, <1>5, <1>6 DEF OwnKept, Phases
<1> QED BY <1>1, <1>4, <1>7, OwnStep

(* putObject takes a buffer that nobody has, or none.                       *)
LEMMA BeginPutInv ==
    ASSUME RequestsIInv, NEW c \in Client, NEW v \in Content, BeginPut(c, v)
    PROVE  RequestsIInv'
<1>1. /\ phase[c] = "idle" /\ UNCHANGED <<store, contents, info, answer, changed>>
      /\ Cardinality(sent) < MaxPuts /\ sent' = sent \cup {NewVersion(v)}
      /\ phase' = [phase EXCEPT ![c] = IF v.size \in 1 .. SmallFile THEN "fill" ELSE "put"]
  BY DEF BeginPut
<1>2. PICK w : w = NewVersion(v)
  OBVIOUS
<1>3. w \in Version /\ IsFiniteSet(sent')
  <2>1. IsFiniteSet(sent)
    BY DEF RequestsIInv, RequestsType
  <2>2. Cardinality(sent) \in Nat
    BY <2>1, FS_CardinalityType
  <2>3. Cardinality(sent) + 1 \in 1 .. MaxPuts
    BY <1>1, <2>2, BoundAssumption
  <2>4. w \in Version
    BY <1>2, <2>3 DEF NewVersion, Version
  <2> QED BY <1>1, <2>1, <2>4, FS_AddElement
<1>4. PICK b \in IF v.size \in 1 .. SmallFile /\ v.size <= SmallBuffer THEN pool ELSE {NoBuffer} :
          /\ req' = [req EXCEPT ![c].op = "put", ![c].buf = b, ![c].put = NewVersion(v)]
          /\ pool' = pool \ {b}
  BY DEF BeginPut
<1>5. /\ b \in pool \/ b \notin Buffer
      /\ b \in Buffer \cup {NoBuffer}
      /\ b \in Buffer => v.size \in 1 .. SmallFile
  BY <1>4, BufferAssumption DEF RequestsIInv, RequestsType
<1>6. PICK r : r = [op |-> "put", header |-> NoHeader, put |-> w, buf |-> b]
  OBVIOUS
<1>7. info[c] = NoObject /\ req[c] = NoRequest
  BY <1>1, IdleFacts
<1>8. req' = [req EXCEPT ![c] = r]
  <2>1. [req[c] EXCEPT !.op = "put", !.buf = b, !.put = w] = r
    <3>1. PICK q : q = [op |-> "none", header |-> NoHeader, put |-> NoObject, buf |-> NoBuffer]
      OBVIOUS
    <3>2. [q EXCEPT !.op = "put"] =
             [op |-> "put", header |-> NoHeader, put |-> NoObject, buf |-> NoBuffer]
      BY <3>1
    <3>3. PICK t : t = [op |-> "put", header |-> NoHeader, put |-> NoObject, buf |-> NoBuffer]
      OBVIOUS
    <3>4. [t EXCEPT !.buf = b] =
             [op |-> "put", header |-> NoHeader, put |-> NoObject, buf |-> b]
      BY <3>3
    <3>5. PICK u : u = [op |-> "put", header |-> NoHeader, put |-> NoObject, buf |-> b]
      OBVIOUS
    <3>6. [u EXCEPT !.put = w] = r
      BY <1>6, <3>5
    <3>7. [[[q EXCEPT !.op = "put"] EXCEPT !.buf = b] EXCEPT !.put = w] = r
      BY <3>2, <3>3, <3>4, <3>5, <3>6
    <3> QED BY <1>7, <3>1, <3>7 DEF NoRequest
  <2>2. req' = [req EXCEPT ![c] = [req[c] EXCEPT !.op = "put", !.buf = b, !.put = w]]
    BY <1>2, <1>4 DEF RequestsIInv, RequestsType
  <2> QED BY <2>1, <2>2
<1>9. SharedKept(c)
  BY <1>1, <1>2, <1>3, <1>4 DEF SharedKept, RequestsIInv, RequestsType
<1>10. PICK p, i, a : /\ p = IF v.size \in 1 .. SmallFile THEN "fill" ELSE "put"
                      /\ i = NoObject /\ a = answer[c]
  OBVIOUS
<1>11. StepOf(c, p, r, i, a)
  BY <1>1, <1>7, <1>8, <1>10 DEF StepOf, RequestsIInv, RequestsType
<1>12. r \in Requests /\ r.buf = b /\ r.op = "put" /\ r.put = w
  BY <1>3, <1>5, <1>6 DEF Requests
<1>13. Serves(p, r, i, sent')
  BY <1>1, <1>2, <1>10, <1>12 DEF Serves
<1>14. p \in {"fill", "put"} /\ (p = "put" => b \notin Buffer)
  BY <1>5, <1>10
<1>15. OwnKept(c, p, r, i, a)
  BY <1>4, <1>5, <1>10, <1>12, <1>13, <1>14 DEF OwnKept, Phases
<1> QED BY <1>9, <1>11, <1>15, OwnStep

(* A body that is being stored is one that was sent.                        *)
LEMMA PutFacts ==
    ASSUME RequestsIInv, NEW c \in Client, phase[c] \in {"fill", "put"}
    PROVE  /\ req[c].op = "put" /\ req[c].put \in sent /\ req[c].put \in Version
           /\ req[c].put.ver \in Nat
<1>1. Serves(phase[c], req[c], info[c], sent)
  BY DEF RequestsIInv, Serving
<1>2. req[c].op = "put" /\ req[c].put \in sent
  BY <1>1 DEF Serves
<1>3. req[c].put \in Version
  BY <1>2 DEF RequestsIInv, RequestsType
<1>4. req[c].put.ver \in 1 .. MaxPuts
  BY <1>3, VersionFacts
<1> QED BY <1>2, <1>3, <1>4, BoundAssumption

(* It is read into the request's own buffer.                                *)
LEMMA FillInv == ASSUME RequestsIInv, NEW c \in Client, Fill(c) PROVE RequestsIInv'
<1>1. phase[c] = "fill" /\ UNCHANGED <<store, pool, sent, req, info, changed>>
  BY DEF Fill
<1>2. req[c].op = "put" /\ req[c].put \in sent /\ req[c].put.ver \in Nat
  BY <1>1, PutFacts
<1>3. CASE /\ contents' = [b \in Buffer |-> IF b = req[c].buf THEN req[c].put.ver
                                            ELSE contents[b]]
           /\ phase' = [phase EXCEPT ![c] = "put"]
           /\ UNCHANGED answer
  <2>1. /\ contents' \in [Buffer -> Nat]
        /\ \A b \in Buffer : contents'[b] # contents[b] => b = req[c].buf
        /\ req[c].buf \in Buffer => contents'[req[c].buf] = req[c].put.ver
    BY <1>2, <1>3 DEF RequestsIInv, RequestsType
  <2>2. SharedKept(c)
    BY <1>1, <2>1 DEF SharedKept, RequestsIInv, RequestsType
  <2>3. PICK r, i, p, a : r = req[c] /\ i = info[c] /\ p = "put" /\ a = answer[c]
    OBVIOUS
  <2>4. /\ r \in Requests /\ r.buf \notin pool'
        /\ r.buf = req[c].buf \/ r.buf \in pool \/ r.buf \notin Buffer
        /\ req' = [req EXCEPT ![c] = r]
    BY <1>1, <2>3, SameRequest
  <2>5. StepOf(c, p, r, i, a)
    BY <1>1, <1>3, <2>3, <2>4 DEF StepOf, RequestsIInv, RequestsType
  <2>6. Serves(p, r, i, sent') /\ i \in sent' \cup {NoObject}
    BY <1>1, <1>2, <2>3 DEF Serves, RequestsIInv, RequestsType
  <2>7. OwnKept(c, p, r, i, a)
    BY <2>1, <2>3, <2>4, <2>6 DEF OwnKept, Phases
  <2> QED BY <2>2, <2>5, <2>7, OwnStep
<1>4. CASE Error(c, 400) /\ UNCHANGED contents
  <2>1. PICK n \in Nat \ {200, 206, 416} : n = 400
    OBVIOUS
  <2> QED BY <1>1, <1>4, <2>1, RefusedInv
<1> QED BY <1>3, <1>4 DEF Fill

(* The backend stores what the client sent, since nobody else has written   *)
(* into its buffer.                                                         *)
LEMMA PutObjectInv == ASSUME RequestsIInv, NEW c \in Client, PutObject(c) PROVE RequestsIInv'
<1>1. phase[c] = "put" /\ UNCHANGED <<pool, contents, sent, req, info>>
  BY DEF PutObject
<1>2. /\ req[c].op = "put" /\ req[c].put \in sent /\ req[c].put \in Version
  BY <1>1, PutFacts
<1>3. BodyRead(c) = req[c].put
  <2>1. req[c].buf \in Buffer => contents[req[c].buf] = req[c].put.ver
    BY <1>1 DEF RequestsIInv, BuffersFilled
  <2>2. BodyRead(c) = NumberedAs(req[c].put, req[c].put.ver)
    BY <2>1 DEF BodyRead
  <2> QED BY <1>2, <2>2, VersionFacts
<1>4. CASE /\ Change(BodyRead(c))
           /\ Reply(c, [status |-> 200, ver |-> req[c].put.ver, body |-> Whole(BodyRead(c))])
  <2>1. store' = req[c].put /\ changed' = changed \cup {d \in Client : phase[d] = "get"}
    BY <1>3, <1>4 DEF Change
  <2>2. SharedKept(c)
    BY <1>1, <1>2, <2>1 DEF SharedKept, RequestsIInv, RequestsType
  <2>3. PICK r, i, p : r = req[c] /\ i = info[c] /\ p = "answered"
    OBVIOUS
  <2>4. PICK a : a = [status |-> 200, ver |-> r.put.ver, body |-> Whole(r.put)]
    OBVIOUS
  <2>5. Reply(c, a) /\ a.status = 200 /\ a.body = Whole(r.put) /\ r.op = "put"
    BY <1>2, <1>3, <1>4, <2>3, <2>4
  <2>6. /\ r \in Requests /\ r.buf \notin pool'
        /\ r.buf = req[c].buf \/ r.buf \in pool \/ r.buf \notin Buffer
        /\ req' = [req EXCEPT ![c] = r]
    BY <1>1, <2>3, SameRequest
  <2>7. StepOf(c, p, r, i, a)
    BY <1>1, <2>3, <2>5, <2>6 DEF StepOf, Reply, RequestsIInv, RequestsType
  <2>8. AnswerGood(r, i, a, sent', c \notin changed')
    BY <2>5 DEF AnswerGood, PutGood, GetGood, FramingGood, RefusalGood, PlaceGood, RangeGood
  <2>9. Serves(p, r, i, sent') /\ i \in sent' \cup {NoObject}
    BY <1>1, <2>3 DEF Serves, RequestsIInv, RequestsType
  <2>10. OwnKept(c, p, r, i, a)
    BY <2>3, <2>6, <2>8, <2>9 DEF OwnKept, Phases
  <2> QED BY <2>2, <2>7, <2>10, OwnStep
<1>5. CASE Error(c, 500) /\ UNCHANGED <<store, changed>>
  <2>1. PICK n \in Nat \ {200, 206, 416} : n = 500
    OBVIOUS
  <2> QED BY <1>1, <1>5, <2>1, RefusedInv
<1> QED BY <1>4, <1>5 DEF PutObject

(* A request that is done returns its buffer.                               *)
LEMMA FinishInv == ASSUME RequestsIInv, NEW c \in Client, Finish(c) PROVE RequestsIInv'
<1>1. /\ UNCHANGED <<store, contents, sent>> /\ changed' = changed \ {c}
      /\ pool' = pool \cup ({req[c].buf} \cap Buffer)
  BY DEF Finish
<1>2. SharedKept(c)
  BY <1>1, NothingShared DEF RequestsIInv, RequestsType
<1>3. PICK r, i, p, a : r = NoRequest /\ i = NoObject /\ p = "idle" /\ a = NoAnswer
  OBVIOUS
<1>4. StepOf(c, p, r, i, a)
  BY <1>3 DEF StepOf, Finish
<1>5. r \in Requests /\ r.buf = NoBuffer
  BY <1>3 DEF Requests, NoRequest
<1>6. NoBuffer \notin Buffer /\ pool' \subseteq Buffer
  BY <1>2, BufferAssumption DEF SharedKept
<1>7. Serves(p, r, i, sent')
  BY <1>3 DEF Serves
<1>8. OwnKept(c, p, r, i, a)
  BY <1>3, <1>5, <1>6, <1>7 DEF OwnKept, Phases
<1> QED BY <1>2, <1>4, <1>8, OwnStep

---------------------------------------------------------------------------
(* At first nobody has a request.                                           *)
LEMMA InitRequests == RequestsInit => RequestsIInv
<1> SUFFICES ASSUME RequestsInit PROVE RequestsIInv
  OBVIOUS
<1>1. /\ \A c \in Client : /\ phase[c] = "idle" /\ req[c] = NoRequest /\ info[c] = NoObject
      /\ NoRequest.buf = NoBuffer /\ NoRequest \in Requests
  BY DEF RequestsInit, NoRequest, Requests
<1>2. RequestsType
  <2>1. /\ store \in sent \cup {NoObject} /\ pool \subseteq Buffer /\ contents \in [Buffer -> Nat]
        /\ sent = {} /\ changed \subseteq Client
    BY DEF RequestsInit
  <2>2. sent \subseteq Version /\ IsFiniteSet(sent)
    BY <2>1, FS_EmptySet
  <2>3. /\ phase \in [Client -> {"idle", "head", "get", "fill", "put", "answered"}]
        /\ req \in [Client -> Requests] /\ info \in [Client -> sent \cup {NoObject}]
    BY <1>1 DEF RequestsInit
  <2>4. answer = [c \in Client |-> answer[c]]
    BY DEF RequestsInit
  <2> QED BY <2>1, <2>2, <2>3, <2>4 DEF RequestsType
<1>3. BuffersOwned /\ BuffersFilled
  BY <1>1, BufferAssumption DEF BuffersOwned, BuffersFilled, RequestsInit
<1>4. Serving
  BY <1>1 DEF Serving, Serves
<1>5. ChangesNoted /\ AnswersGood
  BY <1>1 DEF ChangesNoted, AnswersGood
<1> QED BY <1>2, <1>3, <1>4, <1>5 DEF RequestsIInv

(* Every step of every request keeps the invariant.                         *)
LEMMA NextRequests == RequestsIInv /\ [RequestsNext]_requestsVars => RequestsIInv'
<1> SUFFICES ASSUME RequestsIInv, [RequestsNext]_requestsVars PROVE RequestsIInv'
  OBVIOUS
<1>1. CASE UNCHANGED requestsVars
  BY <1>1 DEF requestsVars, request, RequestsIInv, RequestsType, BuffersOwned, BuffersFilled,
              Serving, ChangesNoted, AnswersGood
<1>2. CASE RequestsNext
  <2>1. PICK c \in Client :
        \/ GetObject(c) \/ HeadObject(c) \/ DeleteObject(c)
        \/ \E h \in Header : BeginRange(c, h)
        \/ RangeHead(c) \/ RangeGet(c)
        \/ \E v \in Content : BeginPut(c, v)
        \/ PutWithoutLength(c)
        \/ Fill(c) \/ PutObject(c) \/ Finish(c)
    BY <1>2 DEF RequestsNext
  <2>2. CASE GetObject(c)
    BY <2>2, GetObjectInv
  <2>3. CASE HeadObject(c)
    BY <2>3, HeadObjectInv
  <2>4. CASE DeleteObject(c)
    BY <2>4, DeleteObjectInv
  <2>5. CASE \E h \in Header : BeginRange(c, h)
    BY <2>5, BeginRangeInv
  <2>6. CASE RangeHead(c)
    BY <2>6, RangeHeadInv
  <2>7. CASE RangeGet(c)
    BY <2>7, RangeGetInv
  <2>8. CASE \E v \in Content : BeginPut(c, v)
    BY <2>8, BeginPutInv
  <2>9. CASE PutWithoutLength(c)
    BY <2>9, PutWithoutLengthInv
  <2>10. CASE Fill(c)
    BY <2>10, FillInv
  <2>11. CASE PutObject(c)
    BY <2>11, PutObjectInv
  <2>12. CASE Finish(c)
    BY <2>12, FinishInv
  <2> QED BY <2>1, <2>2, <2>3, <2>4, <2>5, <2>6, <2>7, <2>8, <2>9, <2>10, <2>11, <2>12
<1> QED BY <1>1, <1>2

(* Requests keep to the invariant: however they interleave, each buffer has *)
(* one owner, and every answer that has been given is a good one.           *)
THEOREM RequestsInvariance == RequestsSpec => []RequestsIInv
  BY InitRequests, NextRequests, PTL DEF RequestsSpec

(* What the invariant says of one answer. *)
LEMMA AnswerFacts ==
    ASSUME RequestsIInv, NEW c \in Client, phase[c] = "answered"
    PROVE  /\ PutGood(req[c], answer[c]) /\ GetGood(req[c], answer[c], sent)
           /\ FramingGood(req[c], answer[c], sent)
           /\ RefusalGood(req[c], info[c], answer[c]) /\ PlaceGood(req[c], info[c], answer[c])
           /\ c \notin changed => RangeGood(req[c], info[c], answer[c])
  BY DEF RequestsIInv, AnswersGood, AnswerGood

(* However PUTs share the pool of small buffers, one that putObject          *)
(* acknowledges has stored the body its client sent; and getObject returns   *)
(* the whole of the version it names, unless the body looks like chunks and  *)
(* is decoded.                                                               *)
THEOREM PutsAndGetsAreWhole == RequestsSpec => []WholeBodies
<1>1. RequestsIInv => WholeBodies
  BY AnswerFacts DEF WholeBodies, Answered, PutGood, GetGood
<1> QED BY <1>1, RequestsInvariance, PTL

(* However its reads cut a body, the decoding reader drops nothing of it but *)
(* one line end with a chunk signature, where a read happens to show it one, *)
(* and what follows from a marker on.                                        *)
THEOREM FramingOnlyIsDropped == RequestsSpec => []OnlyFramingIsDropped
<1>1. RequestsIInv => OnlyFramingIsDropped
  BY AnswerFacts DEF OnlyFramingIsDropped, Answered, FramingGood
<1> QED BY <1>1, RequestsInvariance, PTL

(* getRangeObject answers with exactly the bytes of the range, or refuses    *)
(* only what cannot be had, while the object stays the same between its HEAD *)
(* and its GET.                                                              *)
THEOREM RangesAreExact == RequestsSpec => []RangeIsExact
<1>1. RequestsIInv => RangeIsExact
  <2> SUFFICES ASSUME RequestsIInv, NEW c \in Client \ changed, WithinObject(c)
               PROVE  /\ Answered(c, "range", 206) /\ answer[c].intact => Exactly(c)
                      /\ Answered(c, "range", 416) /\ Single(c) /\ info[c] # NoObject
                            => ~Satisfiable(req[c].header, info[c].size)
    BY DEF RangeIsExact
  <2>1. Within(req[c], info[c])
    BY DEF WithinObject, Within
  <2>2. ASSUME Answered(c, "range", 206), answer[c].intact PROVE Exactly(c)
    <3>1. ExactPart(req[c].header, info[c], answer[c])
      BY <2>1, <2>2, AnswerFacts DEF Answered, RangeGood
    <3> QED BY <3>1 DEF ExactPart, Exactly
  <2>3. ASSUME Answered(c, "range", 416), Single(c), info[c] # NoObject
        PROVE  ~Satisfiable(req[c].header, info[c].size)
    BY <2>1, <2>3, AnswerFacts DEF Answered, Single, SingleRange, RefusalGood
  <2> QED BY <2>2, <2>3
<1> QED BY <1>1, RequestsInvariance, PTL

(* Even if the object is replaced between getRangeObject's HEAD and its GET, *)
(* the bytes it sends are where its Content-Range says, all of one version   *)
(* and no more than announced.                                               *)
THEOREM RangeBytesInPlace == RequestsSpec => []BytesInPlace
<1>1. RequestsIInv => BytesInPlace
  <2> SUFFICES ASSUME RequestsIInv, NEW c \in Client, Answered(c, "range", 206),
                      WithinObject(c), answer[c].intact
               PROVE  /\ answer[c].last < answer[c].total
                      /\ Cardinality(DOMAIN answer[c].body) <= answer[c].length
                      /\ \E v \in 1 .. MaxPuts : \A i \in DOMAIN answer[c].body :
                            answer[c].body[i] = <<v, answer[c].first + i - 1>>
    BY DEF BytesInPlace
  <2>1. PlaceGood(req[c], info[c], answer[c]) /\ Within(req[c], info[c])
    BY AnswerFacts DEF Answered, WithinObject, Within
  <2> QED BY <2>1 DEF PlaceGood, Answered
<1> QED BY <1>1, RequestsInvariance, PTL

=============================================================================
