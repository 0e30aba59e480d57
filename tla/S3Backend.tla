----------------------------- MODULE S3Backend -----------------------------
(***************************************************************************)
(* storage.S3Backend (internal/storage/s3.go): objects live in a remote S3 *)
(* service, HEAD answers are kept in metadataCache for its TTL, and a PUT  *)
(* of a body that is large or cannot be rewound becomes a multipart upload *)
(* (putObjectMultipart).  Every call of the service is one step, and so is *)
(* every access to the cache; concurrent requests interleave between them. *)
(*                                                                         *)
(* mapBucket and addPrefixToKey turn a client's name (virtual bucket and   *)
(* key) into the real object; two names may denote the same one, while the *)
(* cache is keyed by name.  An object is the number of the write that made *)
(* it and its length, and an upload in progress is the number of its parts *)
(* and the bytes they hold.  History: "tainted" marks a cache entry or a   *)
(* fill that a write outdated without evicting it, "floor" the newest      *)
(* acknowledged write when a HEAD began, "cut" a streamed PUT whose body   *)
(* broke off with io.ErrUnexpectedEOF, "owed" the uploads whose Complete   *)
(* or whose abort failed.                                                  *)
(***************************************************************************)
EXTENDS Integers, FiniteSets

CONSTANTS
    Name,        \* names clients use: virtual bucket and key
    Real,        \* objects of the service
    RealOf,      \* mapBucket and addPrefixToKey
    Request,     \* concurrent requests
    Upload,      \* upload ids
    PartSize,    \* partSize
    BodyLen,     \* lengths of uploaded bodies
    MaxVer,      \* bound: writes explored
    None

ASSUME NameAssumption == RealOf \in [Name -> Real]
ASSUME LenAssumption == PartSize \in Nat \ {0} /\ BodyLen \subseteq Nat /\ MaxVer \in Nat
ASSUME NoneAssumption ==
    None \notin Upload \cup [by : {"proxy", "client"}, real : Real, parts : Nat, size : Nat]

VARIABLES
    store,    \* the service's object for each real key
    uploads,  \* the service's multipart uploads in progress
    clock,    \* number of writes so far
    cache,    \* metadataCache
    pc, req,  \* the method each request runs, and its locals
    acked,    \* history: newest acknowledged write of each real key
    owed      \* history

vars == <<store, uploads, clock, cache, pc, req, acked, owed>>

Gone == -1

NoObject == [ver |-> 0, len |-> Gone]

NoLocal == [name |-> None, obj |-> NoObject, floor |-> 0, tainted |-> FALSE,
            up |-> None, len |-> 0, cut |-> FALSE]

Init ==
    /\ store = [x \in Real |-> NoObject]
    /\ uploads = [u \in Upload |-> None]
    /\ clock = 0
    /\ cache = [n \in Name |-> None]
    /\ pc = [r \in Request |-> "idle"]
    /\ req = [r \in Request |-> NoLocal]
    /\ acked = [x \in Real |-> 0]
    /\ owed = {}

Goto(r, l) == pc' = [pc EXCEPT ![r] = l]

Idle(r) == Goto(r, "idle") /\ req' = [req EXCEPT ![r] = NoLocal]

---------------------------------------------------------------------------
(* HeadObject. *)

(* metadataCache.Get answers while the entry's expiry is ahead.             *)
HeadLookup(r, n) ==
    /\ pc[r] = "idle"
    /\ LET l == [NoLocal EXCEPT !.name = n, !.floor = acked[RealOf[n]]] IN
       \/ /\ cache[n] # None /\ cache[n].fresh
          /\ Goto(r, "replied")
          /\ req' = [req EXCEPT ![r] = [l EXCEPT !.obj = cache[n].obj,
                                                 !.tainted = cache[n].tainted]]
       \/ /\ ~(cache[n] # None /\ cache[n].fresh)
          /\ Goto(r, "head")
          /\ req' = [req EXCEPT ![r] = l]
    /\ UNCHANGED <<store, uploads, clock, cache, acked, owed>>

(* HeadObjectWithContext: an error (no such object) is not cached.          *)
HeadFetch(r) ==
    /\ pc[r] = "head"
    /\ LET o == store[RealOf[req[r].name]] IN
       /\ Goto(r, IF o.len = Gone THEN "replied" ELSE "set")
       /\ req' = [req EXCEPT ![r].obj = o]
    /\ UNCHANGED <<store, uploads, clock, cache, acked, owed>>

(* The service does not answer, and HeadObject returns the error.           *)
HeadFails(r) ==
    /\ pc[r] = "head"
    /\ Idle(r)
    /\ UNCHANGED <<store, uploads, clock, cache, acked, owed>>

HeadSet(r) ==
    /\ pc[r] = "set"
    /\ cache' = [cache EXCEPT ![req[r].name] =
                    [obj |-> req[r].obj, fresh |-> TRUE, tainted |-> req[r].tainted]]
    /\ Goto(r, "replied")
    /\ req' = [req EXCEPT ![r].tainted = FALSE]
    /\ UNCHANGED <<store, uploads, clock, acked, owed>>

(* GetObject asks the service and does not look at the cache.               *)
GetObject(r, n) ==
    /\ pc[r] = "idle"
    /\ Goto(r, "replied")
    /\ req' = [req EXCEPT ![r] = [NoLocal EXCEPT !.name = n, !.obj = store[RealOf[n]],
                                                 !.floor = acked[RealOf[n]]]]
    /\ UNCHANGED <<store, uploads, clock, cache, acked, owed>>

Finish(r) ==
    /\ pc[r] = "replied"
    /\ Idle(r)
    /\ UNCHANGED <<store, uploads, clock, cache, acked, owed>>

---------------------------------------------------------------------------
(* The service changes real object x by a write that evicts the entries of  *)
(* the names in "evicts", and no other.                                     *)

Taint(f, outdated) == [a \in DOMAIN f |-> IF a \in outdated
                                          THEN [f[a] EXCEPT !.tainted = TRUE] ELSE f[a]]

ServiceWrite(x, len, evicts) ==
    /\ clock < MaxVer
    /\ clock' = clock + 1
    /\ store' = [store EXCEPT ![x] = [ver |-> clock + 1, len |-> len]]
    /\ cache' = Taint(cache, {n \in Name \ evicts : RealOf[n] = x /\ cache[n] # None})

(* The requests that have read x from the service and will cache it.        *)
Filling(x) == {q \in Request : pc[q] = "set" /\ RealOf[req[q].name] = x}

(* PutObject of a rewindable or small body, and DeleteObject: one call of   *)
(* the service, then metadataCache.Delete.                                  *)
Write(r, n, len) ==
    /\ pc[r] = "idle"
    /\ ServiceWrite(RealOf[n], len, {n})
    /\ req' = [Taint(req, Filling(RealOf[n])) EXCEPT ![r] =
                  [NoLocal EXCEPT !.name = n, !.obj = [ver |-> clock + 1, len |-> len],
                                  !.len = len]]
    /\ Goto(r, "evict")
    /\ UNCHANGED <<uploads, acked, owed>>

PutObject(r, n) == \E len \in BodyLen : Write(r, n, len)

DeleteObject(r, n) == Write(r, n, Gone)

(* The service applies the write but its answer is an error (a timeout):    *)
(* the early return skips metadataCache.Delete.                             *)
WriteFails(n) ==
    /\ \E len \in BodyLen \cup {Gone} : ServiceWrite(RealOf[n], len, {})
    /\ req' = Taint(req, Filling(RealOf[n]))
    /\ UNCHANGED <<uploads, pc, acked, owed>>

(* Mutant of Evict: metadataCache.Delete is forgotten. *)
EvictSkipped(r) ==
    /\ pc[r] = "evict"
    /\ LET x == RealOf[req[r].name] IN
       acked' = [acked EXCEPT ![x] = IF @ < req[r].obj.ver THEN req[r].obj.ver ELSE @]
    /\ Idle(r)
    /\ UNCHANGED <<store, uploads, clock, cache, owed>>

(* metadataCache.Delete, and the acknowledgement. *)
Evict(r) ==
    /\ pc[r] = "evict"
    /\ LET x == RealOf[req[r].name] IN
       /\ cache' = [cache EXCEPT ![req[r].name] = None]
       /\ acked' = [acked EXCEPT ![x] = IF @ < req[r].obj.ver THEN req[r].obj.ver ELSE @]
    /\ Idle(r)
    /\ UNCHANGED <<store, uploads, clock, owed>>

---------------------------------------------------------------------------
(* putObjectMultipart. *)

(* CreateMultipartUpload, for putObjectMultipart or for a client. *)
NewUpload(by, n) == [by |-> by, real |-> RealOf[n], parts |-> 0, size |-> 0]

MultipartStart(r, n) ==
    /\ pc[r] = "idle"
    /\ \E u \in Upload, len \in BodyLen :
          /\ uploads[u] = None
          /\ uploads' = [uploads EXCEPT ![u] = NewUpload("proxy", n)]
          /\ req' = [req EXCEPT ![r] = [NoLocal EXCEPT !.name = n, !.up = u, !.len = len]]
    /\ Goto(r, "part")
    /\ UNCHANGED <<store, clock, cache, acked, owed>>

(* The service has another part of the upload, of n bytes.                  *)
AddPart(u, n) == [uploads EXCEPT ![u].parts = @ + 1, ![u].size = @ + n]

(* Mutant of MultipartPart: A part shorter than partSize ends the loop      *)
(* without being uploaded.                                                  *)
MultipartPartDropsRest(r) ==
    /\ pc[r] = "part"
    /\ LET u == req[r].up
           rest == req[r].len - uploads[u].size IN
       /\ uploads' = IF rest < PartSize THEN uploads ELSE AddPart(u, PartSize)
       /\ Goto(r, IF rest < PartSize THEN "complete" ELSE "part")
    /\ UNCHANGED <<store, clock, cache, req, acked, owed>>

(* One turn of the loop: io.ReadFull fills a part, or gets the shorter rest *)
(* of the body and ends the loop, or gets nothing and ends it at once.      *)
MultipartPart(r) ==
    /\ pc[r] = "part"
    /\ LET u == req[r].up
           rest == req[r].len - uploads[u].size
           n == IF rest < PartSize THEN rest ELSE PartSize IN
       /\ uploads' = IF n = 0 THEN uploads ELSE AddPart(u, n)
       /\ Goto(r, IF n < PartSize THEN "complete" ELSE "part")
    /\ UNCHANGED <<store, clock, cache, req, acked, owed>>

(* The body breaks off with io.ErrUnexpectedEOF, as a cut connection does:  *)
(* the loop takes that for the last part, and nothing compares what was     *)
(* read with the length that was announced.                                 *)
MultipartBreaksOff(r) ==
    /\ pc[r] = "part"
    /\ LET u == req[r].up
           rest == req[r].len - uploads[u].size IN
       \E n \in {m \in 0 .. rest : m < PartSize} :
          uploads' = IF n = 0 THEN uploads ELSE AddPart(u, n)
    /\ Goto(r, "complete")
    /\ req' = [req EXCEPT ![r].cut = TRUE]
    /\ UNCHANGED <<store, clock, cache, acked, owed>>

(* Mutant of MultipartAborts: The error is returned without an abort. *)
MultipartReturnsUnaborted(r) ==
    /\ pc[r] = "part"
    /\ Idle(r)
    /\ UNCHANGED <<store, uploads, clock, cache, acked, owed>>

(* Reading the body fails otherwise, or uploading the part does:            *)
(* AbortMultipartUpload, its error ignored (the context that ended the upload also ends the abort).   *)
MultipartAborts(r) ==
    /\ pc[r] = "part"
    /\ \/ uploads' = [uploads EXCEPT ![req[r].up] = None] /\ UNCHANGED owed
       \/ owed' = owed \cup {req[r].up} /\ UNCHANGED uploads
    /\ Idle(r)
    /\ UNCHANGED <<store, clock, cache, acked>>

(* Mutant of MultipartComplete: putObjectMultipart returns without          *)
(* metadataCache.Delete.                                                    *)
MultipartCompleteKeepsEntry(r) ==
    /\ pc[r] = "complete"
    /\ LET u == req[r].up
           x == RealOf[req[r].name] IN
       /\ uploads[u].parts # 0
       /\ ServiceWrite(x, uploads[u].size, {req[r].name})
       /\ uploads' = [uploads EXCEPT ![u] = None]
       /\ req' = [Taint(req, Filling(x)) EXCEPT ![r] = NoLocal]
    /\ Goto(r, "idle")
    /\ UNCHANGED <<acked, owed>>

(* CompleteMultipartUpload; the service refuses an upload without parts.    *)
MultipartComplete(r) ==
    /\ pc[r] = "complete"
    /\ LET u == req[r].up
           x == RealOf[req[r].name] IN
       /\ uploads[u].parts # 0
       /\ ServiceWrite(x, uploads[u].size, {req[r].name})
       /\ uploads' = [uploads EXCEPT ![u] = None]
       /\ req' = [Taint(req, Filling(x)) EXCEPT
                     ![r].obj = [ver |-> clock + 1, len |-> uploads[u].size], ![r].up = None]
    /\ Goto(r, "evict")
    /\ UNCHANGED <<acked, owed>>

(* It fails, or is refused: putObjectMultipart returns without an abort.    *)
MultipartCompleteFails(r) ==
    /\ pc[r] = "complete"
    /\ owed' = owed \cup {req[r].up}
    /\ Idle(r)
    /\ UNCHANGED <<store, uploads, clock, cache, acked>>

---------------------------------------------------------------------------
(* Multipart uploads driven by the client: each method is one call of the   *)
(* service, and CompleteMultipartUpload does not touch metadataCache.       *)

InitiateMultipartUpload(u, n) ==
    /\ uploads[u] = None
    /\ uploads' = [uploads EXCEPT ![u] = NewUpload("client", n)]
    /\ UNCHANGED <<store, clock, cache, pc, req, acked, owed>>

(* A client knows the ids it was given, not those of putObjectMultipart.    *)
ClientUploads == {u \in Upload : uploads[u] # None /\ uploads[u].by = "client"}

UploadPart(u) ==
    /\ u \in ClientUploads
    /\ uploads[u].parts = 0
    /\ uploads' = AddPart(u, PartSize)
    /\ UNCHANGED <<store, clock, cache, pc, req, acked, owed>>

CompleteMultipartUpload(u) ==
    /\ u \in ClientUploads
    /\ uploads[u].parts # 0
    /\ LET x == uploads[u].real IN
       /\ ServiceWrite(x, uploads[u].size, {})
       /\ req' = Taint(req, Filling(x))
       /\ acked' = [acked EXCEPT ![x] = clock + 1]
    /\ uploads' = [uploads EXCEPT ![u] = None]
    /\ UNCHANGED <<pc, owed>>

AbortMultipartUpload(u) ==
    /\ u \in ClientUploads
    /\ uploads' = [uploads EXCEPT ![u] = None]
    /\ UNCHANGED <<store, clock, cache, pc, req, acked, owed>>

(* An entry's expiry passes. *)
TTLElapses(n) ==
    /\ cache[n] # None /\ cache[n].fresh
    /\ cache' = [cache EXCEPT ![n].fresh = FALSE]
    /\ UNCHANGED <<store, uploads, clock, pc, req, acked, owed>>

---------------------------------------------------------------------------
Serve(r) ==
    \/ \E n \in Name : \/ HeadLookup(r, n) \/ GetObject(r, n) \/ PutObject(r, n)
                       \/ DeleteObject(r, n) \/ MultipartStart(r, n)
    \/ HeadFetch(r) \/ HeadFails(r) \/ HeadSet(r) \/ Finish(r) \/ Evict(r)
    \/ MultipartPart(r) \/ MultipartBreaksOff(r) \/ MultipartAborts(r)
    \/ MultipartComplete(r) \/ MultipartCompleteFails(r)

Next ==
    \/ \E r \in Request : Serve(r)
    \/ \E n \in Name : WriteFails(n) \/ TTLElapses(n)
    \/ \E u \in Upload : \/ \E n \in Name : InitiateMultipartUpload(u, n)
                         \/ UploadPart(u) \/ CompleteMultipartUpload(u)
                         \/ AbortMultipartUpload(u)

Spec == Init /\ [][Next]_vars

---------------------------------------------------------------------------
(* Properties. *)

Object == [ver : 0 .. MaxVer, len : Nat \cup {Gone}]
Entry == [obj : Object, fresh : BOOLEAN, tainted : BOOLEAN]
UploadType == [by : {"proxy", "client"}, real : Real, parts : Nat, size : Nat]
Local == [name : Name \cup {None}, obj : Object, floor : 0 .. MaxVer, tainted : BOOLEAN,
          up : Upload \cup {None}, len : Nat \cup {Gone}, cut : BOOLEAN]

(* The type invariant of the metadata cache, S3 and the requests.           *)
TypeOK ==
    /\ store \in [Real -> Object]
    /\ uploads \in [Upload -> UploadType \cup {None}]
    /\ clock \in 0 .. MaxVer
    /\ cache \in [Name -> Entry \cup {None}]
    /\ pc \in [Request -> {"idle", "head", "set", "replied", "evict", "part", "complete"}]
    /\ req \in [Request -> Local]
    /\ acked \in [Real -> 0 .. MaxVer]
    /\ owed \subseteq Upload

(* HEAD and GET answer with a version at least as new as every write of the *)
(* object acknowledged before they began, except HEAD from an entry that    *)
(* was outdated without being evicted: by a write under another name of the *)
(* same object, by a client's multipart completion, by a write reported as  *)
(* failed, or by a write between the fill's request and its Set.            *)
ReadsSeeAcknowledgedWrites ==
    \A r \in Request :
        pc[r] = "replied" => req[r].obj.ver >= req[r].floor \/ req[r].tainted

(* No other order of fills, writes and expiries leaves a wrong entry: one   *)
(* that differs from the service's object is tainted or about to be evicted *)
(* under its own name.                                                      *)
StaleHasCause ==
    \A n \in Name : (cache[n] # None /\ cache[n].obj # store[RealOf[n]]) =>
        cache[n].tainted \/ \E r \in Request : pc[r] = "evict" /\ req[r].name = n

(* A streamed PUT that is about to be acknowledged stored its whole body,   *)
(* at every length around the part size, unless the body broke off with     *)
(* io.ErrUnexpectedEOF: no other failed read or part is acknowledged.       *)
WholeBodyIsStored ==
    \A r \in Request : pc[r] = "evict" => req[r].obj.len = req[r].len \/ req[r].cut

(* An upload that putObjectMultipart began and left in the service belongs  *)
(* to a request that still runs it, or its Complete or its abort failed: no *)
(* other path forgets one.                                                  *)
UploadsAreAccountedFor ==
    \A u \in Upload : (uploads[u] # None /\ uploads[u].by = "proxy") =>
        u \in owed \/ \E r \in Request : req[r].up = u

=============================================================================
