--------------------------- MODULE ParallelWriter ---------------------------
(***************************************************************************)
(* storage.ParallelWriter (internal/storage/stream.go): Write reserves the *)
(* next offsets, copies the data and queues it on writeChan; a pool of     *)
(* workers takes requests from there and calls writeFunc, whose errors go  *)
(* to the bounded errChan, to be returned by a later Write or by Close.    *)
(*                                                                         *)
(* A request is the range of offsets it covers.  "written", "failed" and   *)
(* "reported" are history: the outcome of each call of writeFunc, and      *)
(* whether any Write has returned an error (or panicked).                  *)
(***************************************************************************)
EXTENDS Integers, Sequences

CONSTANTS
    Caller,       \* goroutines that call Write
    Worker,       \* worker goroutines
    Parallelism,  \* their number, also the capacity of errChan
    Lens,         \* lengths clients write
    MaxOffset,    \* bound: no Write begins once this many bytes are reserved
    None

ASSUME ParallelismAssumption == Parallelism \in Nat \ {0}
ASSUME WorkerAssumption == Worker # {}
ASSUME LensAssumption == Lens \subseteq Nat /\ MaxOffset \in Nat

WriteRequest == [off : Nat, len : Nat]

ASSUME NoneAssumption == None \notin WriteRequest

VARIABLES
    offset,     \* the next offset, under mu
    queue,      \* writeChan, capacity 2 * Parallelism
    errs,       \* number of errors in errChan
    pc, mine,   \* callers and the request each is about to queue
    job,        \* the request each worker is writing, or None
    exited,     \* workers that have returned
    closing,    \* Close: "no", "waiting" (writeChan closed), "ok" or "error"
    cancelled,  \* the context is done
    pooled,     \* a *[]byte lies in bufferPool
    written, failed, reported

vars == <<offset, queue, errs, pc, mine, job, exited, closing, cancelled, pooled,
          written, failed, reported>>

Init ==
    /\ offset = 0
    /\ queue = <<>>
    /\ errs = 0
    /\ pc = [c \in Caller |-> "idle"]
    /\ mine = [c \in Caller |-> None]
    /\ job = [w \in Worker |-> None]
    /\ exited = {}
    /\ closing = "no"
    /\ cancelled = FALSE
    /\ pooled = FALSE
    /\ written = {}
    /\ failed = {}
    /\ reported = FALSE

---------------------------------------------------------------------------
(* Write.  The first select takes a pending error without blocking. *)

WriteRefused(c) ==
    /\ pc[c] = "idle"
    /\ closing = "no"
    /\ errs > 0
    /\ errs' = errs - 1
    /\ reported' = TRUE
    /\ UNCHANGED <<offset, queue, pc, mine, job, exited, closing, cancelled, pooled,
                   written, failed>>

WriteChecked(c) ==
    /\ pc[c] = "idle"
    /\ closing = "no"
    /\ errs = 0
    /\ offset < MaxOffset
    /\ pc' = [pc EXCEPT ![c] = "checked"]
    /\ UNCHANGED <<offset, queue, errs, mine, job, exited, closing, cancelled, pooled,
                   written, failed, reported>>

(* Mutant of WriteReserve: The offset advances by one byte too few. *)
WriteReservesShort(c) ==
    /\ pc[c] = "checked"
    /\ \E n \in Lens :
          /\ mine' = [mine EXCEPT ![c] = [off |-> offset, len |-> n]]
          /\ offset' = offset + n - 1
    /\ pc' = [pc EXCEPT ![c] = "reserved"]
    /\ UNCHANGED <<queue, errs, job, exited, closing, cancelled, pooled,
                   written, failed, reported>>

(* The offsets are reserved under the mutex. *)
WriteReserve(c) ==
    /\ pc[c] = "checked"
    /\ \E n \in Lens :
          /\ mine' = [mine EXCEPT ![c] = [off |-> offset, len |-> n]]
          /\ offset' = offset + n
    /\ pc' = [pc EXCEPT ![c] = "reserved"]
    /\ UNCHANGED <<queue, errs, job, exited, closing, cancelled, pooled,
                   written, failed, reported>>

(* bufferPool.Get: a new []byte, or what was put there.  The code puts      *)
(* *[]byte and asserts []byte, so a pooled buffer panics.                   *)
WriteGetBuffer(c) ==
    /\ pc[c] = "reserved"
    /\ \/ /\ pc' = [pc EXCEPT ![c] = "sending"]
          /\ UNCHANGED <<pooled, mine, reported>>
       \/ /\ pooled
          /\ pc' = [pc EXCEPT ![c] = "panicked"]
          /\ mine' = [mine EXCEPT ![c] = None]
          /\ pooled' = FALSE
          /\ reported' = TRUE
    /\ UNCHANGED <<offset, queue, errs, job, exited, closing, cancelled,
                   written, failed>>

(* The last select: queue the request, or give up for the context or for an *)
(* error that has arrived.                                                  *)
WriteSend(c) ==
    /\ pc[c] = "sending"
    /\ Len(queue) < 2 * Parallelism
    /\ queue' = Append(queue, mine[c])
    /\ pc' = [pc EXCEPT ![c] = "idle"]
    /\ mine' = [mine EXCEPT ![c] = None]
    /\ UNCHANGED <<offset, errs, job, exited, closing, cancelled, pooled,
                   written, failed, reported>>

WriteGivesUp(c) ==
    /\ pc[c] = "sending"
    /\ \/ cancelled /\ UNCHANGED errs
       \/ errs > 0 /\ errs' = errs - 1
    /\ pc' = [pc EXCEPT ![c] = "idle"]
    /\ mine' = [mine EXCEPT ![c] = None]
    /\ pooled' = TRUE
    /\ reported' = TRUE
    /\ UNCHANGED <<offset, queue, job, exited, closing, cancelled, written, failed>>

---------------------------------------------------------------------------
(* worker: range over writeChan until it is closed and empty. *)

WorkerTake(w) ==
    /\ w \notin exited
    /\ job[w] = None
    /\ queue # <<>>
    /\ job' = [job EXCEPT ![w] = Head(queue)]
    /\ queue' = Tail(queue)
    /\ UNCHANGED <<offset, errs, pc, mine, exited, closing, cancelled, pooled,
                   written, failed, reported>>

WorkerWrites(w) ==
    /\ job[w] # None
    /\ written' = written \cup {job[w]}
    /\ job' = [job EXCEPT ![w] = None]
    /\ pooled' = TRUE
    /\ UNCHANGED <<offset, queue, errs, pc, mine, exited, closing, cancelled,
                   failed, reported>>

(* Mutant of WorkerFails: The error is sent although errChan is full. *)
WorkerOverfillsErrors(w) ==
    /\ job[w] # None
    /\ failed' = failed \cup {job[w]}
    /\ job' = [job EXCEPT ![w] = None]
    /\ errs' = errs + 1
    /\ pooled' = TRUE
    /\ UNCHANGED <<offset, queue, pc, mine, exited, closing, cancelled,
                   written, reported>>

(* Mutant of WorkerFails: A failed request goes back to the queue, for ever *)
(* if need be.                                                              *)
WorkerRequeues(w) ==
    /\ job[w] # None
    /\ queue' = Append(queue, job[w])
    /\ job' = [job EXCEPT ![w] = None]
    /\ UNCHANGED <<offset, errs, pc, mine, exited, closing, cancelled, pooled,
                   written, failed, reported>>

(* writeFunc fails: the error is sent unless errChan is full. *)
WorkerFails(w) ==
    /\ job[w] # None
    /\ failed' = failed \cup {job[w]}
    /\ job' = [job EXCEPT ![w] = None]
    /\ errs' = IF errs < Parallelism THEN errs + 1 ELSE errs
    /\ pooled' = TRUE
    /\ UNCHANGED <<offset, queue, pc, mine, exited, closing, cancelled,
                   written, reported>>

(* Mutant of WorkerExits: A worker that finds the queue empty returns,     *)
(* closed or not.                                                           *)
WorkerExitsWhenIdle(w) ==
    /\ w \notin exited
    /\ job[w] = None
    /\ queue = <<>>
    /\ exited' = exited \cup {w}
    /\ UNCHANGED <<offset, queue, errs, pc, mine, job, closing, cancelled, pooled,
                   written, failed, reported>>

(* Mutant of WorkerExits: A worker returns when Close is called, with       *)
(* requests still queued.                                                   *)
WorkerExitsAtOnce(w) ==
    /\ w \notin exited
    /\ job[w] = None
    /\ closing # "no"
    /\ exited' = exited \cup {w}
    /\ UNCHANGED <<offset, queue, errs, pc, mine, job, closing, cancelled, pooled,
                   written, failed, reported>>

WorkerExits(w) ==
    /\ w \notin exited
    /\ job[w] = None
    /\ queue = <<>>
    /\ closing # "no"
    /\ exited' = exited \cup {w}
    /\ UNCHANGED <<offset, queue, errs, pc, mine, job, closing, cancelled, pooled,
                   written, failed, reported>>

---------------------------------------------------------------------------
(* Close, called when no Write is in progress (a Write on the closed        *)
(* channel would panic): close(writeChan), wg.Wait, take an error.          *)

Close ==
    /\ closing = "no"
    /\ \A c \in Caller : pc[c] \in {"idle", "panicked"}
    /\ closing' = "waiting"
    /\ UNCHANGED <<offset, queue, errs, pc, mine, job, exited, cancelled, pooled,
                   written, failed, reported>>

(* Mutant of CloseReturns: Close does not look into errChan. *)
CloseIgnoresErrors ==
    /\ closing = "waiting"
    /\ exited = Worker
    /\ closing' = "ok"
    /\ UNCHANGED <<offset, queue, errs, pc, mine, job, exited, cancelled, pooled,
                   written, failed, reported>>

CloseReturns ==
    /\ closing = "waiting"
    /\ exited = Worker
    /\ \/ errs > 0 /\ errs' = errs - 1 /\ closing' = "error"
       \/ errs = 0 /\ closing' = "ok" /\ UNCHANGED errs
    /\ UNCHANGED <<offset, queue, pc, mine, job, exited, cancelled, pooled,
                   written, failed, reported>>

Cancel ==
    /\ ~cancelled
    /\ cancelled' = TRUE
    /\ UNCHANGED <<offset, queue, errs, pc, mine, job, exited, closing, pooled,
                   written, failed, reported>>

Terminated == closing \in {"ok", "error"} /\ UNCHANGED vars

Write(c) == \/ WriteRefused(c) \/ WriteChecked(c) \/ WriteReserve(c)
            \/ WriteGetBuffer(c) \/ WriteSend(c) \/ WriteGivesUp(c)

Work(w) == WorkerTake(w) \/ WorkerWrites(w) \/ WorkerFails(w) \/ WorkerExits(w)

Next == \/ \E c \in Caller : Write(c)
        \/ \E w \in Worker : Work(w)
        \/ Close \/ CloseReturns \/ Cancel \/ Terminated

Spec == Init /\ [][Next]_vars

(* The Go scheduler runs every goroutine that can go on, and writeFunc      *)
(* returns; nobody has to call Write or Close.                              *)
Fairness ==
    /\ \A c \in Caller : WF_vars(WriteGetBuffer(c) \/ WriteSend(c) \/ WriteGivesUp(c))
    /\ \A w \in Worker : WF_vars(Work(w))
    /\ WF_vars(CloseReturns)

FairSpec == Spec /\ Fairness

---------------------------------------------------------------------------
(* Properties. *)

(* The type invariant; errChan never holds more than its capacity.          *)
TypeOK ==
    /\ offset \in Nat
    /\ queue \in Seq(WriteRequest)
    /\ errs \in 0 .. Parallelism
    /\ pc \in [Caller -> {"idle", "checked", "reserved", "sending", "panicked"}]
    /\ mine \in [Caller -> WriteRequest \cup {None}]
    /\ job \in [Worker -> WriteRequest \cup {None}]
    /\ exited \subseteq Worker
    /\ closing \in {"no", "waiting", "ok", "error"}
    /\ cancelled \in BOOLEAN /\ pooled \in BOOLEAN /\ reported \in BOOLEAN
    /\ written \subseteq WriteRequest /\ failed \subseteq WriteRequest

(* No error is swallowed: errChan is bounded and sends to it are dropped    *)
(* when it is full, yet if Close returns nil and no Write returned an error,*)
(* every call of writeFunc succeeded.                                       *)
NoSilentFailure == (closing = "ok" /\ ~reported) => failed = {}

Covers(q, b) == q.off <= b /\ b < q.off + q.len

(* Then also nothing is missing: every byte accepted by Write has been      *)
(* written.                                                                 *)
NothingMissing ==
    (closing = "ok" /\ ~reported) =>
        \A b \in 0 .. offset - 1 : \E q \in written : Covers(q, b)

Disjoint(q1, q2) == q1 = q2 \/ q1.off + q1.len <= q2.off \/ q2.off + q2.len <= q1.off

Accepted == written \cup failed \cup {queue[i] : i \in 1 .. Len(queue)}
            \cup {job[w] : w \in {w \in Worker : job[w] # None}}
            \cup {mine[c] : c \in {c \in Caller : mine[c] # None}}

(* Concurrent Writes never get overlapping ranges, wherever the range is:   *)
(* with its caller, in writeChan, with a worker, written or failed.         *)
RangesDisjoint == \A q1, q2 \in Accepted : Disjoint(q1, q2)

(* Close returns, whatever the workers meet, and no Write stays blocked on  *)
(* a full queue: workers go on after an error.                              *)
CallsReturn ==
    /\ (closing = "waiting") ~> (closing \in {"ok", "error"})
    /\ \A c \in Caller : (pc[c] = "sending") ~> (pc[c] # "sending")

=============================================================================
