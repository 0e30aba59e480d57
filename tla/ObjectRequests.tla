--------------------------- MODULE ObjectRequests ---------------------------
(***************************************************************************)
(* The object requests of Handler (pkg/s3/handler.go): GET, GET of a       *)
(* range, HEAD, PUT and DELETE of one object, by concurrent clients.  The  *)
(* storage backend's calls are atomic here; what happens inside them is    *)
(* the business of the backends' own modules.  The body a backend returns  *)
(* is a file, a stream, or for S3Backend a stream that is decoded on its   *)
(* way (ChunkedBodies).                                                    *)
(*                                                                         *)
(* A version of the object is the body of one PUT, with a number.          *)
(* Byte i of version v is <<v, i>>.  An ETag, with the other headers that  *)
(* describe a version, is the version's number.                            *)
(***************************************************************************)
EXTENDS ChunkedBodies, FiniteSets

CONSTANTS
    Client,
    Content,      \* the bodies clients send, see ChunkedBodies
    SmallBuffer,  \* smallBufferSize, the size of a pooled buffer
    SmallFile,    \* smallFileLimit, up to which a body is buffered
    Buffer,       \* the buffers of smallBufferPool
    NoBuffer,
    Header,       \* the Range headers clients send
    MaxPuts       \* bound: PUTs explored

NoHeader == [kind |-> "none"]

Headers == {NoHeader, [kind |-> "bad"], [kind |-> "many"]}
    \cup [kind : {"suffix", "from"}, n : Nat]
    \cup [kind : {"span"}, n : Nat, m : Nat]

ASSUME BodyAssumption ==
    /\ \A v \in Content : IsBody(v)
    /\ SmallBuffer \in Nat /\ SmallFile \in Nat
ASSUME HeaderAssumption == \A h \in Header : h \in Headers
ASSUME BoundAssumption == MaxPuts \in Nat /\ IsFiniteSet(Buffer)
ASSUME BufferAssumption == NoBuffer \notin Buffer /\ Cardinality(Buffer) >= Cardinality(Client)

NumberedAs(v, n) ==
    [ver |-> n, size |-> v.size, sigs |-> v.sigs, breaks |-> v.breaks, mark |-> v.mark]

Version == {NumberedAs(v, n) : v \in Content, n \in 1 .. MaxPuts}

NoObject == [ver |-> 0, size |-> 0, sigs |-> {}, breaks |-> {}, mark |-> 0]

VARIABLES
    store,      \* the version the backend has, or NoObject
    pool,       \* smallBufferPool: the buffers to be had
    contents,   \* the number of the version whose bytes a buffer holds
    sent,       \* the versions clients have sent so far
    phase,      \* per client: where its request is
    req,        \* its request
    info,       \* what HEAD told a range request
    answer,     \* the answer it was given
    changed     \* history: range requests whose object was changed since their HEAD

request == <<phase, req, info, answer>>
requestsVars == <<store, pool, contents, sent, request, changed>>

NoRequest == [op |-> "none", header |-> NoHeader, put |-> NoObject, buf |-> NoBuffer]

NoAnswer == [status |-> 0]

RequestsInit ==
    /\ store = NoObject
    /\ pool = Buffer
    /\ contents = [b \in Buffer |-> 0]
    /\ sent = {}
    /\ phase = [c \in Client |-> "idle"]
    /\ req = [c \in Client |-> NoRequest]
    /\ info = [c \in Client |-> NoObject]
    /\ answer = [c \in Client |-> NoAnswer]
    /\ changed = {}

---------------------------------------------------------------------------
(* Answers. *)

Bytes(v, first, length) ==
    LET n == IF first + length <= v.size THEN length ELSE v.size - first IN
    IF n <= 0 THEN <<>> ELSE [i \in 1 .. n |-> <<v.ver, first + i - 1>>]

Whole(v) == Bytes(v, 0, v.size)

Reply(c, a) ==
    /\ answer' = [answer EXCEPT ![c] = a]
    /\ phase' = [phase EXCEPT ![c] = "answered"]

Error(c, status) == Reply(c, [status |-> status])

(* The answer is sent; deferred calls run and the handler returns. *)
Finish(c) ==
    /\ phase[c] = "answered"
    /\ phase' = [phase EXCEPT ![c] = "idle"]
    /\ pool' = pool \cup ({req[c].buf} \cap Buffer)
    /\ req' = [req EXCEPT ![c] = NoRequest]
    /\ info' = [info EXCEPT ![c] = NoObject]
    /\ answer' = [answer EXCEPT ![c] = NoAnswer]
    /\ changed' = changed \ {c}
    /\ UNCHANGED <<store, contents, sent>>

---------------------------------------------------------------------------
(* parseRangeHeader.  A negative start counts from the end, a negative end  *)
(* is the last byte.                                                        *)
ParseRangeHeader(h) ==
    CASE h.kind = "bad"    -> {}
      [] h.kind = "many"   -> {[start |-> 0, end |-> 0], [start |-> 1, end |-> 1]}
      [] h.kind = "suffix" -> {[start |-> -h.n, end |-> -1]}
      [] h.kind = "from"   -> {[start |-> h.n, end |-> -1]}
      [] h.kind = "span"   -> {[start |-> h.n, end |-> h.m]}

RangeOf(h) == CHOOSE r \in ParseRangeHeader(h) : TRUE

AdjustedStart(h, size) ==
    IF RangeOf(h).start < 0 THEN size + RangeOf(h).start ELSE RangeOf(h).start

(* Mutant: an end at the size is not cut back. *)
AdjustedEndPast(h, size) ==
    IF RangeOf(h).end < 0 \/ RangeOf(h).end > size THEN size - 1 ELSE RangeOf(h).end

AdjustedEnd(h, size) ==
    IF RangeOf(h).end < 0 \/ RangeOf(h).end >= size THEN size - 1 ELSE RangeOf(h).end

(* Mutant: a body that is not an io.Seeker is left where it is. *)
SkippedToSeekableOnly(seekable, start) ==
    IF seekable /\ start > 0 THEN start ELSE 0

(* Where reading begins: Seek succeeds anywhere, also past the end; reading *)
(* and discarding gets no further than the end.                             *)
SkippedTo(seekable, start) == IF start > 0 THEN start ELSE 0

SkipFails(seekable, obj, start) == ~seekable /\ start > obj.size

(* Pieces that came out of the decoding reader, as bytes of v. *)
BytesOf(v, out) == [i \in DOMAIN out |-> <<v.ver, out[i] - 1>>]

---------------------------------------------------------------------------
(* getObject without a Range header. *)
GetObject(c) ==
    /\ phase[c] = "idle"
    /\ NoHeader \in Header
    /\ req' = [req EXCEPT ![c].op = "get"]
    /\ \/ store = NoObject /\ Error(c, 404)
       \/ /\ store # NoObject
          /\ Reply(c, [status |-> 200, ver |-> store.ver, decoded |-> FALSE,
                       length |-> store.size, body |-> Whole(store)])
       \/ /\ store # NoObject
          /\ \E cuts \in Cuts(store) :
                Reply(c, [status |-> 200, ver |-> store.ver, decoded |-> TRUE,
                          length |-> store.size,
                          body |-> BytesOf(store, CopyN(Fresh, store, store.size + 1, cuts).out)])
    /\ UNCHANGED <<store, pool, contents, sent, info, changed>>

(* getRangeObject parses the header, *)
BeginRange(c, h) ==
    /\ phase[c] = "idle"
    /\ h # NoHeader
    /\ req' = [req EXCEPT ![c].op = "range", ![c].header = h]
    /\ \/ ParseRangeHeader(h) = {} /\ Error(c, 416)
       \/ ParseRangeHeader(h) # {} /\ phase' = [phase EXCEPT ![c] = "head"] /\ UNCHANGED answer
    /\ UNCHANGED <<store, pool, contents, sent, info, changed>>

(* asks for the object's size and settles the range,                        *)
RangeHead(c) ==
    /\ phase[c] = "head"
    /\ info' = [info EXCEPT ![c] = store]
    /\ changed' = changed \ {c}
    /\ LET h == req[c].header
           start == AdjustedStart(h, store.size)
           end == AdjustedEnd(h, store.size) IN
       \/ store = NoObject /\ Error(c, 404)
       \/ store # NoObject /\ h.kind = "many" /\ Error(c, 416)
       \/ /\ store # NoObject /\ h.kind # "many"
          /\ start > end \/ start >= store.size
          /\ Error(c, 416)
       \/ /\ store # NoObject /\ h.kind # "many"
          /\ start <= end /\ start < store.size
          /\ phase' = [phase EXCEPT ![c] = "get"]
          /\ UNCHANGED answer
    /\ UNCHANGED <<store, pool, contents, sent, req>>

(* then gets the object, skips to the start and copies the range, under the *)
(* headers that the HEAD has given.                                         *)
RangeStart(c) == AdjustedStart(req[c].header, info[c].size)
RangeEnd(c) == AdjustedEnd(req[c].header, info[c].size)

PartialContent(c, intact, body) ==
    Reply(c, [status |-> 206, ver |-> info[c].ver, intact |-> intact,
              first |-> RangeStart(c), last |-> RangeEnd(c), total |-> info[c].size,
              length |-> RangeEnd(c) - RangeStart(c) + 1, body |-> body])

(* From a file or a stream, *)
RangeOfBody(c, seekable) ==
    LET start == RangeStart(c) IN
    \/ SkipFails(seekable, store, start) /\ Error(c, 500)
    \/ /\ ~SkipFails(seekable, store, start)
       /\ PartialContent(c, TRUE, Bytes(store, SkippedTo(seekable, start),
                                        RangeEnd(c) - start + 1))

(* or from a stream that is decoded.                                        *)
RangeOfDecoded(c, cuts) ==
    LET start == RangeStart(c)
        skipped == IF start > 0 THEN CopyN(Fresh, store, start, cuts) ELSE Fresh
        range == CopyN(skipped, store, RangeEnd(c) - start + 1, cuts) IN
    \/ start > 0 /\ Len(skipped.out) < start /\ Error(c, 500)
    \/ /\ start > 0 => Len(skipped.out) = start
       /\ PartialContent(c, Plain(store), BytesOf(store, range.out))

RangeGet(c) ==
    /\ phase[c] = "get"
    /\ \/ store = NoObject /\ Error(c, 404)
       \/ store # NoObject /\ \E seekable \in BOOLEAN : RangeOfBody(c, seekable)
       \/ store # NoObject /\ \E cuts \in Cuts(store) : RangeOfDecoded(c, cuts)
    /\ UNCHANGED <<store, pool, contents, sent, req, info, changed>>

(* headObject *)
HeadObject(c) ==
    /\ phase[c] = "idle"
    /\ req' = [req EXCEPT ![c].op = "head"]
    /\ IF store = NoObject THEN Error(c, 404)
       ELSE Reply(c, [status |-> 200, ver |-> store.ver, length |-> store.size])
    /\ UNCHANGED <<store, pool, contents, sent, info, changed>>

---------------------------------------------------------------------------
(* The backend stores v, or removes the object. *)
Change(v) ==
    /\ store' = v
    /\ changed' = changed \cup {c \in Client : phase[c] = "get"}

(* deleteObject; a backend may report an object that is not there.          *)
DeleteObject(c) ==
    /\ phase[c] = "idle"
    /\ req' = [req EXCEPT ![c].op = "delete"]
    /\ \/ Change(NoObject) /\ Reply(c, [status |-> 204])
       \/ store = NoObject /\ Error(c, 404) /\ UNCHANGED <<store, changed>>
    /\ UNCHANGED <<pool, contents, sent, info>>

NewVersion(v) == NumberedAs(v, Cardinality(sent) + 1)

(* putObject looks at the Content-Length, and takes a pooled buffer if the  *)
(* body fits into one.                                                      *)
BeginPut(c, v) ==
    /\ phase[c] = "idle"
    /\ Cardinality(sent) < MaxPuts
    /\ sent' = sent \cup {NewVersion(v)}
    /\ \E b \in IF v.size \in 1 .. SmallFile /\ v.size <= SmallBuffer THEN pool ELSE {NoBuffer} :
          /\ req' = [req EXCEPT ![c].op = "put", ![c].buf = b,
                                ![c].put = NewVersion(v)]
          /\ pool' = pool \ {b}
    /\ phase' = [phase EXCEPT ![c] = IF v.size \in 1 .. SmallFile THEN "fill" ELSE "put"]
    /\ UNCHANGED <<store, contents, info, answer, changed>>

PutWithoutLength(c) ==
    /\ phase[c] = "idle"
    /\ req' = [req EXCEPT ![c].op = "put"]
    /\ Error(c, 400)
    /\ UNCHANGED <<store, pool, contents, sent, info, changed>>

(* Mutant: the buffer goes back to the pool as soon as it is read.          *)
FillAndRelease(c) ==
    /\ phase[c] = "fill"
    /\ \/ /\ contents' = [b \in Buffer |-> IF b = req[c].buf THEN req[c].put.ver
                                           ELSE contents[b]]
          /\ phase' = [phase EXCEPT ![c] = "put"]
          /\ UNCHANGED answer
       \/ Error(c, 400) /\ UNCHANGED contents
    /\ pool' = pool \cup ({req[c].buf} \cap Buffer)
    /\ UNCHANGED <<store, sent, req, info, changed>>

(* io.ReadFull into the buffer, the pooled one or one of its own; the body  *)
(* may be shorter than announced.                                           *)
Fill(c) ==
    /\ phase[c] = "fill"
    /\ \/ /\ contents' = [b \in Buffer |-> IF b = req[c].buf THEN req[c].put.ver
                                           ELSE contents[b]]
          /\ phase' = [phase EXCEPT ![c] = "put"]
          /\ UNCHANGED answer
       \/ Error(c, 400) /\ UNCHANGED contents
    /\ UNCHANGED <<store, pool, sent, req, info, changed>>

(* The bytes the backend reads from the request. *)
BodyRead(c) ==
    NumberedAs(req[c].put,
        IF req[c].buf \in Buffer THEN contents[req[c].buf] ELSE req[c].put.ver)

(* The backend's PutObject, which may fail; the answer names the version    *)
(* the client sent.                                                         *)
PutObject(c) ==
    /\ phase[c] = "put"
    /\ \/ /\ Change(BodyRead(c))
          /\ Reply(c, [status |-> 200, ver |-> req[c].put.ver, body |-> Whole(BodyRead(c))])
       \/ Error(c, 500) /\ UNCHANGED <<store, changed>>
    /\ UNCHANGED <<pool, contents, sent, req, info>>

RequestsNext ==
    \E c \in Client :
        \/ GetObject(c) \/ HeadObject(c) \/ DeleteObject(c)
        \/ \E h \in Header : BeginRange(c, h)
        \/ RangeHead(c) \/ RangeGet(c)
        \/ \E v \in Content : BeginPut(c, v)
        \/ PutWithoutLength(c)
        \/ Fill(c) \/ PutObject(c) \/ Finish(c)

RequestsSpec == RequestsInit /\ [][RequestsNext]_requestsVars

---------------------------------------------------------------------------
(* Properties. *)

Answered(c, op, status) ==
    phase[c] = "answered" /\ req[c].op = op /\ answer[c].status = status

(* Concurrent PUTs share the pool of small buffers, and still each one      *)
(* that is acknowledged has stored the body its client sent; a GET returns  *)
(* the whole of the version its ETag names, unless a body that looks like   *)
(* chunks is decoded on the way.                                            *)
WholeBodies ==
    \A c \in Client :
        /\ Answered(c, "put", 200) => answer[c].body = Whole(req[c].put)
        /\ Answered(c, "get", 200) =>
              \E v \in sent :
                  /\ answer[c].ver = v.ver
                  /\ ~answer[c].decoded \/ Plain(v) => answer[c].body = Whole(v)

(* Pieces a + 1 to b are the end of one line, with a chunk signature near   *)
(* the first of them: the header of a chunk, or data that reads like one.   *)
SignatureLine(v, a, b) ==
    /\ b \in v.breaks /\ \A i \in v.breaks : i <= a \/ i >= b
    /\ \E g \in v.sigs : g > a /\ g < b /\ g <= a + Near

AllButFraming(v, body) ==
    \E a, b \in 0 .. v.size,
       last \in {v.size} \cup (IF v.mark > 0 THEN {v.mark - MarkerLen} ELSE {}) :
        /\ a = b \/ SignatureLine(v, a, b)
        /\ body = Bytes(v, 0, a) \o Bytes(v, b, last - b)

(* A GET through the decoding reader drops at most one stretch of the body, *)
(* in whatever read of the connection it is found, that ends a line and has *)
(* a chunk signature near its beginning; and, from a marker "0\r\n\r\n" on, *)
(* what follows.  However reads cut the body, all else before the marker    *)
(* arrives, once and in order, and without a marker all there is: headers   *)
(* of later chunks, too.                                                    *)
OnlyFramingIsDropped ==
    \A c \in Client : Answered(c, "get", 200) /\ answer[c].decoded =>
        \E v \in sent : answer[c].ver = v.ver /\ AllButFraming(v, answer[c].body)

(* What a byte range asks for, after RFC 9110, section 14.1.2. *)
Satisfiable(h, size) ==
    CASE h.kind = "suffix" -> h.n > 0 /\ size > 0
      [] h.kind = "from"   -> h.n < size
      [] h.kind = "span"   -> h.n <= h.m /\ h.n < size

FirstByte(h, size) ==
    IF h.kind # "suffix" THEN h.n ELSE IF h.n < size THEN size - h.n ELSE 0

LastByte(h, size) == IF h.kind = "span" /\ h.m < size THEN h.m ELSE size - 1

Exactly(c) ==
    LET h == req[c].header
        first == FirstByte(h, info[c].size)
        last == LastByte(h, info[c].size)
        a == answer[c] IN
    /\ a.first = first /\ a.last = last /\ a.total = info[c].size
    /\ a.length = last - first + 1
    /\ a.body = Bytes(info[c], first, last - first + 1)

(* A suffix the code handles: not zero, and no longer than the object.      *)
WithinObject(c) ==
    req[c].header.kind = "suffix" => req[c].header.n \in 1 .. info[c].size

Single(c) == req[c].header.kind \in {"suffix", "from", "span"}

(* A range request whose object did not change meanwhile is answered with   *)
(* exactly the range's bytes and a Content-Range that says so, or refused   *)
(* only if the object has no such bytes; but not if the body looks like     *)
(* chunks and is decoded.                                                   *)
RangeIsExact ==
    \A c \in Client \ changed : WithinObject(c) =>
        /\ Answered(c, "range", 206) /\ answer[c].intact => Exactly(c)
        /\ Answered(c, "range", 416) /\ Single(c) /\ info[c] # NoObject
              => ~Satisfiable(req[c].header, info[c].size)

(* Even if the object changed between HEAD and GET, the bytes of a partial  *)
(* answer are at the offsets its Content-Range claims for them, all of one  *)
(* version, and no more of them than announced (with the same exception).   *)
BytesInPlace ==
    \A c \in Client : Answered(c, "range", 206) /\ WithinObject(c) /\ answer[c].intact =>
        LET a == answer[c] IN
        /\ a.last < a.total
        /\ Cardinality(DOMAIN a.body) <= a.length
        /\ \E v \in 1 .. MaxPuts :
              \A i \in DOMAIN a.body : a.body[i] = <<v, a.first + i - 1>>

=============================================================================
