---------------------------- MODULE AzureBackend ----------------------------
(***************************************************************************)
(* storage.AzureBackend (internal/storage/azure.go) over one path of a     *)
(* container: the key "k" and the directory marker "k/", which is kept as  *)
(* the blob "k/.dir".  Every call of the service is a step; a request that *)
(* makes several interleaves with others between them.                     *)
(*                                                                         *)
(* The service is external.  A blob is written whole, by Upload or by      *)
(* committing a list of blocks; either discards the blocks that were       *)
(* staged for it.  An object is what it is made of (the numbers of the     *)
(* bodies and parts sent) and its size: "small" bodies, of less than 256   *)
(* KB, are uploaded in one call, "medium" and "large" ones, which begin at *)
(* 1 MB, as a stream of blocks; "smallSealed" and "sealed" are the small   *)
(* and the streamed bodies with encryption metadata.  What a multipart     *)
(* upload makes is taken to be large.  Every call may fail, after it has   *)
(* taken effect or before, and the process may be killed between two       *)
(* calls, which to the service is the same.                                *)
(*                                                                         *)
(* own, crossed, cut, promise and the fields alone, cleared, want and      *)
(* failed are history.  promise[b] is what the last request to change b    *)
(* left there, as far as it was acknowledged and ran alone on b.           *)
(***************************************************************************)
EXTENDS AzureReaders, FiniteSets, SequencesExt

CONSTANTS
    Request,      \* concurrent requests
    Upload,       \* multipart uploads of "k"
    PartNo,       \* part numbers
    PartLists,    \* the part lists clients complete an upload with
    Size,         \* sizes of the bodies clients put
    Length,       \* bytes a reader sees of a body of each size
    Chunk,        \* what a connection delivers at a time
    MaxSent,      \* bound: bodies and parts sent
    MaxParts,     \* bound: the page sizes ListParts is asked with
    None, Unknown, Gone, Garbled,
    EmptyMD5      \* the MD5 of an empty body

SizeClass == {"small", "medium", "large", "smallSealed", "sealed"}
Streamed == {"medium", "large", "sealed"}
Sealed == {"smallSealed", "sealed"}

ASSUME BackendAssumption ==
    /\ PartNo \subseteq Nat \ {0} /\ IsFiniteSet(PartNo)
    /\ Size \subseteq SizeClass
    /\ Length \in [SizeClass -> Nat]
    /\ Chunk \subseteq Nat \ {0} /\ Chunk # {}
    /\ MaxSent \in Nat /\ MaxParts \in Nat
    /\ PartLists \subseteq Seq(PartNo)

Key == {"k", "k/"}
Blob == {"k", "k/.dir"}

(* Objects, and the answers to a GET. *)
ObjectType == [body : Seq(Nat), size : SizeClass]

AnswerType == [size : ObjectType, etag : ObjectType \cup {EmptyMD5}, body : ObjectType,
               reader : {"high", "fast", "plain"}]

ASSUME NoneAssumption ==
    /\ None \notin Nat /\ Unknown # Gone /\ None # Unknown /\ None # Gone
    /\ {None, Unknown, Gone} \cap ObjectType = {} /\ None \notin AnswerType

VARIABLES
    blob,        \* the committed blobs, or None
    committed,   \* the blocks "k" was committed from, by their ids
    staged,      \* the uncommitted blocks of "k", by their ids
    stray,       \* are there uncommitted blocks of a streamed PUT?
    up,          \* the clients' uploads: "none", "open", "done", "aborted"
    own,         \* the parts each upload was acknowledged
    crossed,     \* parts of uploads that were staged again by others,
    cut,         \* uploads since whose first part "k" was written or deleted
    sent,        \* bodies and parts sent
    pc, req, promise

service == <<blob, committed, staged, stray>>
uploads == <<up, own, crossed, cut>>
vars == <<service, uploads, sent, pc, req, promise>>

NoReq == [key |-> None, on |-> {}, size |-> None, sent |-> 0, alone |-> FALSE,
          cleared |-> FALSE, props |-> None, want |-> Unknown, failed |-> FALSE,
          answer |-> None]

NoBlocks == [n \in PartNo |-> None]

Init ==
    /\ blob = [b \in Blob |-> None]
    /\ committed = NoBlocks /\ staged = NoBlocks /\ stray = FALSE
    /\ up = [u \in Upload |-> "none"]
    /\ own = [u \in Upload |-> NoBlocks]
    /\ crossed = {} /\ cut = {}
    /\ sent = 0
    /\ pc = [r \in Request |-> "idle"]
    /\ req = [r \in Request |-> NoReq]
    /\ promise = [b \in Blob |-> Gone]

---------------------------------------------------------------------------
(* Keys, objects and the service. *)

(* A key that ends in a slash is kept as a blob .dir below it. *)
NormalizedKey(key) == IF key = "k/" THEN "k/.dir" ELSE key

Object(body, size) == [body |-> body, size |-> size]

(* Blobs that are written or deleted lose their staged blocks; blocks keeps *)
(* the ids a later commit may refer to.                                     *)
Replace(b, object, blocks) ==
    /\ blob' = [blob EXCEPT ![b] = object]
    /\ \/ /\ b = "k"
          /\ committed' = blocks /\ staged' = NoBlocks /\ stray' = FALSE
          /\ cut' = cut \cup {u \in Upload : own[u] # NoBlocks}
       \/ /\ b # "k"
          /\ UNCHANGED <<committed, staged, stray, cut>>

(* Whether Delete discards the staged blocks too is left open. *)
DeleteBlob(b) ==
    \/ Replace(b, None, NoBlocks)
    \/ /\ blob' = [blob EXCEPT ![b] = None]
       /\ committed' = IF b = "k" THEN NoBlocks ELSE committed
       /\ cut' = IF b = "k" THEN cut \cup {u \in Upload : own[u] # NoBlocks} ELSE cut
       /\ UNCHANGED <<staged, stray>>

(* The block an id of a list stands for: the latest. *)
Latest(n) == IF staged[n] # None THEN staged[n] ELSE committed[n]

---------------------------------------------------------------------------
(* History: requests that change the blobs bs begin and end. *)

Changing == {"conflict", "unlink", "upload", "commit"}

Busy(r, bs) == \E q \in Request \ {r} : pc[q] \in Changing /\ req[q].on \cap bs # {}

Disturb(r, bs) == [q \in Request |->
    IF q # r /\ req[q].on \cap bs # {}
    THEN [req[q] EXCEPT !.alone = FALSE, !.want = Unknown] ELSE req[q]]

Forget(bs) == [b \in Blob |-> IF b \in bs THEN Unknown ELSE promise[b]]

Goto(r, l) == pc' = [pc EXCEPT ![r] = l]

Begin(r, bs, new) ==
    /\ req' = [Disturb(r, bs) EXCEPT ![r] =
                  [new EXCEPT !.on = bs, !.alone = ~Busy(r, bs)]]
    /\ promise' = Forget(bs)

Return(r) == Goto(r, "idle") /\ req' = [req EXCEPT ![r] = NoReq]

(* A request of one call: it begins and is acknowledged, or fails. *)
Acknowledge(r, b, left) ==
    /\ req' = Disturb(r, {b})
    /\ promise' = [promise EXCEPT ![b] = IF Busy(r, {b}) THEN Unknown ELSE left]
    /\ UNCHANGED pc

NotAcknowledged(r, b) ==
    /\ req' = Disturb(r, {b})
    /\ promise' = Forget({b})
    /\ UNCHANGED pc

---------------------------------------------------------------------------
(* PutObject. *)

PutObject(r, key, size) ==
    /\ pc[r] = "idle"
    /\ sent < MaxSent
    /\ sent' = sent + 1
    /\ Begin(r, IF key = "k/" THEN Blob ELSE {"k"},
             [NoReq EXCEPT !.key = key, !.size = size, !.sent = sent'])
    /\ Goto(r, IF key = "k/" THEN "conflict" ELSE "upload")
    /\ UNCHANGED <<service, uploads>>

(* Mutant of FindConflict: the file is left beside its marker. *)
FindConflictIgnored(r) ==
    /\ pc[r] = "conflict"
    /\ Goto(r, "upload")
    /\ req' = [req EXCEPT ![r].cleared = TRUE]
    /\ UNCHANGED <<service, uploads, sent, promise>>

(* A marker replaces the file of its name, if GetProperties finds one; any  *)
(* error is taken to mean that there is none.                               *)
FindConflict(r) ==
    /\ pc[r] = "conflict"
    /\ \/ /\ blob["k"] # None
          /\ Goto(r, "unlink")
          /\ UNCHANGED req
       \/ /\ Goto(r, "upload")
          /\ req' = [req EXCEPT ![r].cleared = blob["k"] = None]
    /\ UNCHANGED <<service, uploads, sent, promise>>

(* An error of Delete is only logged. *)
DeleteConflict(r) ==
    /\ pc[r] = "unlink"
    /\ \/ /\ DeleteBlob("k")
          /\ req' = [req EXCEPT ![r].cleared = TRUE]
       \/ UNCHANGED <<service, cut, req>>
    /\ Goto(r, "upload")
    /\ UNCHANGED <<up, own, crossed, sent, promise>>

(* What the request leaves in the blob it is for, and beside a marker.      *)
PutPromise(r, left) ==
    [b \in Blob |->
        IF ~req[r].alone \/ b \notin req[r].on THEN promise[b]
        ELSE IF b = NormalizedKey(req[r].key) THEN left
        ELSE IF req[r].cleared THEN Gone ELSE promise[b]]

Body(r) == <<req[r].sent>>

(* One Upload for a small body. *)
UploadWhole(r) ==
    /\ pc[r] = "upload"
    /\ req[r].size \notin Streamed
    /\ LET object == Object(Body(r), req[r].size) IN
       /\ Replace(NormalizedKey(req[r].key), object, NoBlocks)
       /\ promise' = PutPromise(r, object)
    /\ Return(r)
    /\ UNCHANGED <<up, own, crossed, sent>>

(* UploadStreamToBlockBlob stages blocks under ids of its own ... *)
StageStream(r) ==
    /\ pc[r] = "upload"
    /\ req[r].size \in Streamed
    /\ stray' = (stray \/ req[r].key = "k")
    /\ Goto(r, "commit")
    /\ UNCHANGED <<blob, committed, staged, uploads, sent, req, promise>>

(* What azureFastUploadReader makes of bodies of each size.                 *)
SentExactly == [size \in Size |-> [chunk \in Chunk |->
    LET sends == Delivered("upload", Length[size], Length[size], "blocks", chunk) IN
    sends.ordered /\ sends.bytes = Length[size]]]

(* ... and commits them; bodies of about 10 MB are read without a wrapper.  *)
CommitStream(r) ==
    /\ pc[r] = "commit"
    /\ \E chunk \in Chunk :
          Replace(NormalizedKey(req[r].key),
                  Object(IF SentExactly[req[r].size][chunk] THEN Body(r) ELSE <<Garbled>>,
                         req[r].size), NoBlocks)
    /\ promise' = PutPromise(r, Object(Body(r), req[r].size))
    /\ Return(r)
    /\ UNCHANGED <<up, own, crossed, sent>>

(* The body breaks off, a pooled buffer turns out to be a pointer and the   *)
(* request panics, or the call fails, with or without effect.               *)
PutFails(r) ==
    /\ pc[r] \in Changing
    /\ \/ UNCHANGED <<service, cut>>
       \/ /\ \/ pc[r] = "upload" /\ req[r].size \notin Streamed
             \/ pc[r] = "commit"
          /\ Replace(NormalizedKey(req[r].key), Object(Body(r), req[r].size), NoBlocks)
    /\ Return(r)
    /\ UNCHANGED <<up, own, crossed, sent, promise>>

---------------------------------------------------------------------------
(* DeleteObject is one call; a blob that is not there is an error. *)

DeleteObject(r, key) ==
    /\ pc[r] = "idle"
    /\ LET b == NormalizedKey(key) IN
       /\ blob[b] # None
       /\ DeleteBlob(b)
       /\ Acknowledge(r, b, Gone) \/ NotAcknowledged(r, b)
    /\ UNCHANGED <<up, own, crossed, sent>>

---------------------------------------------------------------------------
(* GetObject asks for the properties, then for the body.                    *)

(* Mutant of GetObject: a marker's properties are asked of the key without  *)
(* its slash.                                                               *)
GetObjectUnmarked(r, key) ==
    /\ pc[r] = "idle"
    /\ LET asked == [NoReq EXCEPT !.key = key, !.on = {NormalizedKey(key)},
                                  !.want = promise[NormalizedKey(key)]] IN
       \/ /\ blob["k"] # None
          /\ Goto(r, "download")
          /\ req' = [req EXCEPT ![r] = [asked EXCEPT !.props = blob["k"]]]
       \/ /\ Goto(r, "replied")
          /\ req' = [req EXCEPT ![r] = [asked EXCEPT !.failed = blob["k"] # None]]
    /\ UNCHANGED <<service, uploads, sent, promise>>

GetObject(r, key) ==
    /\ pc[r] = "idle"
    /\ LET b == NormalizedKey(key)
           asked == [NoReq EXCEPT !.key = key, !.on = {b}, !.want = promise[b]] IN
       \/ /\ blob[b] # None
          /\ Goto(r, "download")
          /\ req' = [req EXCEPT ![r] = [asked EXCEPT !.props = blob[b]]]
       \/ /\ Goto(r, "replied")
          /\ req' = [req EXCEPT ![r] = [asked EXCEPT !.failed = blob[b] # None]]
    /\ UNCHANGED <<service, uploads, sent, promise>>

(* The blob a GET downloads: what the properties say is large is asked for  *)
(* under the key as the client gave it, and no blob has the name of a       *)
(* marker.                                                                  *)
Downloads(key, props) ==
    LET b == IF props.size = "large" THEN key ELSE NormalizedKey(key) IN
    IF b \in Blob THEN blob[b] ELSE None

(* A streamed marker is given the MD5 of an empty body, whatever its own.   *)
ETag(key, object) == IF key = "k/" /\ object.size \in Streamed THEN EmptyMD5 ELSE object

(* The reader around the body of a download: chosen by the properties or,   *)
(* unless they say it is large, by the download's own metadata.             *)
ReaderOf(props, got) == IF props.size = "large" THEN "high"
                        ELSE IF got.size \in Sealed THEN "plain" ELSE "fast"

(* The answer: Size comes from the properties; ETag and metadata from the   *)
(* properties for large objects, otherwise from the download, as the body   *)
(* does.                                                                    *)
Answer(key, props, got) ==
    [size |-> props, etag |-> ETag(key, IF props.size = "large" THEN props ELSE got),
     body |-> got, reader |-> ReaderOf(props, got)]

Download(r) ==
    /\ pc[r] = "download"
    /\ LET got == Downloads(req[r].key, req[r].props) IN
       \/ /\ got # None
          /\ req' = [req EXCEPT ![r].props = None,
                                ![r].answer = Answer(req[r].key, req[r].props, got)]
       \/ req' = [req EXCEPT ![r].props = None, ![r].failed = got # None]
    /\ Goto(r, "replied")
    /\ UNCHANGED <<service, uploads, sent, promise>>

(* What each consumer gets of a body, of the size given or another, through *)
(* each reader.                                                             *)
Consumer == {"copy", "full", "all"}

Delivers ==
    [kind \in {"high", "fast", "plain"} |-> [said \in SizeClass |-> [size \in SizeClass |->
        [consumer \in Consumer |-> [chunk \in Chunk |->
            Delivered(kind, Length[said], Length[size], consumer, chunk)]]]]]

(* The answer has been sent. *)
Finish(r) ==
    /\ pc[r] = "replied"
    /\ Return(r)
    /\ UNCHANGED <<service, uploads, sent, promise>>

---------------------------------------------------------------------------
(* Multipart uploads. *)

(* An upload is nothing but an id; its metadata is dropped. *)
InitiateMultipartUpload(u) ==
    /\ up[u] = "none"
    /\ up' = [up EXCEPT ![u] = "open"]
    /\ UNCHANGED <<service, own, crossed, cut, sent, pc, req, promise>>

(* The parts n of the uploads other than u have been staged over. *)
CrossedBy(us, n) == {<<w, n>> : w \in {v \in us : own[v][n] # None}}

(* StageBlock under an id made of the part number alone, whether the upload *)
(* is open or not.  A part may come late or be sent twice: then nobody      *)
(* counts on what is staged.                                                *)
UploadPart(u, n) ==
    /\ up[u] # "none"
    /\ sent < MaxSent
    /\ sent' = sent + 1
    /\ staged' = [staged EXCEPT ![n] = sent']
    /\ \/ /\ up[u] = "open"
          /\ own' = [own EXCEPT ![u][n] = sent']
          /\ crossed' = (crossed \ {<<u, n>>}) \cup CrossedBy(Upload \ {u}, n)
       \/ /\ crossed' = crossed \cup CrossedBy(Upload, n)
          /\ UNCHANGED own
    /\ UNCHANGED <<blob, committed, stray, up, cut, pc, req, promise>>

(* The blocks of a list of parts, in the client's order. *)
InOrder(list, block(_)) == [i \in DOMAIN list |-> block(list[i])]

(* CommitBlockList fails if it does not know one of the blocks; the id of   *)
(* the upload is not looked at, so it may be done or aborted.               *)
CompleteMultipartUpload(r, u, list) ==
    /\ pc[r] = "idle"
    /\ up[u] # "none"
    /\ \A n \in ToSet(list) : Latest(n) # None
    /\ Replace("k", Object(InOrder(list, Latest), "large"),
               [n \in PartNo |-> IF n \in ToSet(list) THEN Latest(n) ELSE None])
    /\ \/ /\ up' = [up EXCEPT ![u] = "done"]
          /\ LET mine(n) == own[u][n]
                 left == IF \A n \in ToSet(list) : own[u][n] # None /\ <<u, n>> \notin crossed
                         THEN Object(InOrder(list, mine), "large") ELSE Unknown IN
             Acknowledge(r, "k", left)
       \/ UNCHANGED up /\ NotAcknowledged(r, "k")
    /\ UNCHANGED <<own, crossed, sent>>

(* Mutant of AbortMultipartUpload: the blocks staged for the key are        *)
(* dropped.                                                                 *)
AbortDropsBlocks(u) ==
    /\ up[u] = "open"
    /\ up' = [up EXCEPT ![u] = "aborted"]
    /\ staged' = NoBlocks
    /\ UNCHANGED <<blob, committed, stray, own, crossed, cut, sent, pc, req, promise>>

(* AbortMultipartUpload does nothing: what was staged stays. *)
AbortMultipartUpload(u) ==
    /\ up[u] = "open"
    /\ up' = [up EXCEPT ![u] = "aborted"]
    /\ UNCHANGED <<service, own, crossed, cut, sent, pc, req, promise>>

---------------------------------------------------------------------------
(* ListParts: the uncommitted blocks of the key, numbered from one.         *)

StagedCount == Cardinality({n \in PartNo : staged[n] # None}) + (IF stray THEN 1 ELSE 0)

(* Mutant of PartsPage: a page before the last part is taken for the last.  *)
PartsPageCutShort(max, marker) ==
    [parts |-> {i \in 1 .. StagedCount : i > marker /\ i <= marker + max},
     truncated |-> StagedCount > marker + max + 1]

PartsPage(max, marker) ==
    [parts |-> {i \in 1 .. StagedCount : i > marker /\ i <= marker + max},
     truncated |-> StagedCount > marker + max]

(* A client that asks on from NextPartNumberMarker while it is told to.     *)
NextMarkers(max) ==
    LET marker[i \in Nat] ==
            IF i = 0 THEN 0
            ELSE marker[i - 1] + Cardinality(PartsPage(max, marker[i - 1]).parts)
    IN  marker

ListedParts(max) ==
    LET marker == NextMarkers(max)
        pages == {i \in 0 .. StagedCount :
                    \A j \in 0 .. i - 1 : PartsPage(max, marker[j]).truncated} IN
    UNION {PartsPage(max, marker[i]).parts : i \in pages}

(* HeadObject: of "k" the file's properties; a marker beside it makes no    *)
(* difference to the answer, only to the error.                             *)
HeadObject(key) == blob[NormalizedKey(key)]

(* The metadata a listing has of a blob: none, as the options of the call   *)
(* do not ask the service to include it.                                    *)
ListedMetadata(b) == {}

(* ListObjectsWithDelimiter, everything or what is below "k/": a blob .dir  *)
(* is rolled up, or shown under its own name unless its metadata says which *)
(* key it was stored for.                                                   *)
OriginalKey(b) ==
    IF b = "k/.dir" /\ "s3proxyDirectoryMarker" \in ListedMetadata(b) THEN "k/" ELSE b

ListObjects(below, delimiter) ==
    LET found == {b \in Blob : blob[b] # None /\ (below => b = "k/.dir")}
        rolledUp == {b \in found : delimiter /\ ~below /\ b = "k/.dir"} IN
    [keys |-> {OriginalKey(b) : b \in found \ rolledUp},
     prefixes |-> IF rolledUp = {} THEN {} ELSE {"k/"}]

(* A key is listed as itself, under its blob's name, or as a prefix.        *)
Lists(key) == \A delimiter \in BOOLEAN, below \in {FALSE, key = "k/"} :
    LET l == ListObjects(below, delimiter) IN
    {key, NormalizedKey(key)} \cap (l.keys \cup l.prefixes) # {}

---------------------------------------------------------------------------
Next ==
    \/ \E r \in Request, key \in Key :
        \/ \E size \in Size : PutObject(r, key, size)
        \/ DeleteObject(r, key) \/ GetObject(r, key)
    \/ \E r \in Request :
        \/ FindConflict(r) \/ DeleteConflict(r) \/ UploadWhole(r)
        \/ StageStream(r) \/ CommitStream(r) \/ PutFails(r)
        \/ Download(r) \/ Finish(r)
        \/ \E u \in Upload, list \in PartLists : CompleteMultipartUpload(r, u, list)
    \/ \E u \in Upload :
        \/ InitiateMultipartUpload(u) \/ AbortMultipartUpload(u)
        \/ \E n \in PartNo : UploadPart(u, n)

Spec == Init /\ [][Next]_vars

---------------------------------------------------------------------------
(* Properties. *)

(* What was acknowledged stays: as long as no other request that changes    *)
(* the blob has begun, an object is the body sent or the parts its upload   *)
(* was acknowledged, unless another upload has staged one of them; what was *)
(* deleted is gone, and so is the file a directory marker has replaced,     *)
(* unless finding or deleting it failed.  HEAD shows the same, and so does  *)
(* every listing, of a marker the prefix "k/" or the name of its blob,      *)
(* "k/.dir".                                                                *)
AcknowledgedIsKept ==
    \A key \in Key :
        LET left == promise[NormalizedKey(key)] IN
        left # Unknown =>
            /\ HeadObject(key) = IF left = Gone THEN None ELSE left
            /\ Lists(key) <=> left # Gone

(* An acknowledged part of an open upload is what a commit would use, until *)
(* another request stages that part number or writes or deletes the object. *)
PartsAreKept ==
    \A u \in Upload, n \in PartNo :
        up[u] = "open" /\ own[u][n] # None /\ <<u, n>> \notin crossed /\ u \notin cut =>
            Latest(n) = own[u][n]

(* A GET that no other request disturbs answers with the acknowledged       *)
(* object: size, ETag and body are of one version, from two calls.  It      *)
(* answers with an error only if there is no object, if a call failed, or   *)
(* for a marker of 1 MB or more, whose body is asked for under a name no    *)
(* blob has.                                                                *)
UndisturbedReadsAreExact ==
    \A r \in Request :
        LET want == req[r].want
            answer == req[r].answer IN
        pc[r] = "replied" /\ want # Unknown =>
            /\ want = Gone => answer = None
            /\ want # Gone /\ answer = None =>
                  req[r].failed \/ (req[r].key = "k/" /\ want.size = "large")
            /\ answer # None =>
                  /\ answer.size = want /\ answer.body = want
                  /\ answer.etag = ETag(req[r].key, want)

(* Through whichever reader the choice between the two calls made, the      *)
(* handler's copies get every byte of the download in order, and the        *)
(* cache's read gets as many of them as the properties said there are: a    *)
(* longer body put between the two calls is cut.  io.ReadAll gets every     *)
(* byte through the SDK's own reader, which encrypted objects have; through *)
(* the others it may not, as its reads change size while bytes are          *)
(* buffered.                                                                *)
BodyIsExact ==
    \A r \in Request, consumer \in Consumer, chunk \in Chunk :
        LET answer == req[r].answer IN
        pc[r] = "replied" /\ answer # None /\ (consumer = "all" => answer.reader = "plain") =>
            LET said == answer.size.size
                size == answer.body.size
                reads == Delivers[answer.reader][said][size][consumer][chunk] IN
            /\ reads.ordered
            /\ reads.bytes = IF consumer = "full" THEN Least(Length[said], Length[size])
                             ELSE Length[size]

(* ListParts shows an upload the numbers of its parts, however they fall on *)
(* pages, if they are numbered without gaps and nothing else is staged for  *)
(* the key.                                                                 *)
OnlyOwn(u) == /\ ~stray /\ u \notin cut
              /\ \A n \in PartNo : staged[n] = own[u][n]
PartsAreListed ==
    \A u \in Upload : up[u] = "open" /\ OnlyOwn(u) =>
        LET mine == {n \in PartNo : own[u][n] # None} IN
        mine = 1 .. Cardinality(mine) => \A max \in 1 .. MaxParts : ListedParts(max) = mine

=============================================================================
